---- MODULE Spec2Model ----
(***************************************************************************)
(* Model of qfx.py: conversion of a brokerage CSV export into a QFX/OFX    *)
(* investment statement.                                                   *)
(*                                                                         *)
(* Text is a sequence of code points, the numbers ord() gives, so that     *)
(* strip(), lower(), endswith(), replace(), re.search(), float() and the   *)
(* f-string number formats are computed rather than assumed on every       *)
(* character of Unicode.  A text literal is followed by the text in a      *)
(* comment.  The values that are no text (None, False, True, the float     *)
(* 0.0) are sequences holding one negative number.  A float is an IEEE 754 *)
(* double, kept as a sign, a mantissa of any size and a binary exponent:   *)
(* float() rounds the decimal text to the nearest double, the products and *)
(* quotients are rounded as the hardware rounds them, and the formats      *)
(* print the exact binary value rounded half to even to the digits asked   *)
(* for.                                                                    *)
(***************************************************************************)
EXTENDS Integers, Sequences, FiniteSets, TLC

None == <<-1>>

(* False and True, where the program passes them as an argument that may   *)
(* also be text                                                            *)
False == <<-2>>

True == <<-3>>

(* the JSON values of the mapping file that are no string: null is None,   *)
(* false and true are False and True, and an integer is a mark before the  *)
(* decimal digits str() gives it                                           *)
JsonInt(digits) == <<-8>> \o digits

IsJsonInt(x) == x # <<>> /\ x[1] = -8

(* isinstance(x, str) *)
IsText(x) == x = <<>> \/ x[1] >= 0

(* ---------------------------------------------------------------------- *)
(* Characters                                                             *)
(* ---------------------------------------------------------------------- *)
(* str.isspace() *)
Whitespace == {9, 10, 11, 12, 13, 28, 29, 30, 31, 32, 133, 160, 5760, 8192,
              8193, 8194, 8195, 8196, 8197, 8198, 8199, 8200, 8201, 8202,
              8232, 8233, 8239, 8287, 12288}

(* the whitespace of C's isspace(), which float() strips *)
AsciiSpaces == {c \in Whitespace : c < 128 /\ c \notin 28..31}

(* the whitespace beyond ASCII, which float() reads as a blank *)
UnicodeSpaces == {c \in Whitespace : c > 127}

IsSpace(c) == c \in Whitespace

(* c lies in one of the ranges <<first, last>> *)
InRanges(c, ranges) == \E r \in ranges : r[1] <= c /\ c <= r[2]

(* the decimal digits of Unicode (category Nd) come in rows of ten from 0  *)
(* to 9; the first code point of each row                                  *)
DecimalZeros ==
  { 48, 1632, 1776, 1984, 2406, 2534, 2662, 2790, 2918, 3046, 3174, 3302,
    3430, 3558, 3664, 3792, 3872, 4160, 4240, 6112, 6160, 6470, 6608, 6784,
    6800, 6992, 7088, 7232, 7248, 42528, 43216, 43264, 43472, 43504, 43600,
    44016, 65296, 66720, 68912, 69734, 69872, 69942, 70096, 70384, 70736,
    70864, 71248, 71360, 71472, 71904, 72016, 72784, 73040, 73120, 92768,
    92864, 93008, 120782, 120792, 120802, 120812, 120822, 123200, 123632,
    125264, 130032 }

(* what str.isdecimal(), the regex \d and float() accept as a digit *)
IsDigit(c) == \E z \in DecimalZeros : z <= c /\ c <= z + 9

IsAsciiDigit(c) == 48 <= c /\ c <= 57

AsciiDigitVal(c) == c - 48

(* unicodedata.decimal *)
DigitVal(c) == c - (CHOOSE z \in DecimalZeros : z <= c /\ c <= z + 9)

(* the ASCII digit of the same value *)
AsciiDigit(c) == 48 + DigitVal(c)

(* c + d for the characters c in first..last, as <<first, last, d>> *)
Shifted(c, runs) ==
  IF \E r \in runs : r[1] <= c /\ c <= r[2]
    THEN c + (CHOOSE r \in runs : r[1] <= c /\ c <= r[2])[3]
    ELSE c

(* c + d for every second character c from first to last, as              *)
(* <<first, last, d>>                                                      *)
ShiftedAlternate(c, runs) ==
  IF \E r \in runs : r[1] <= c /\ c <= r[2] /\ (c - r[1]) % 2 = 0
    THEN c + (CHOOSE r \in runs : r[1] <= c /\ c <= r[2] /\ (c - r[1]) % 2 = 0)[3]
    ELSE c

(* the characters c whose c.lower() is another single character: runs of   *)
(* neighbours with one distance to their lower case ...                    *)
LowerRuns ==
  { <<65, 90, 32>>, <<192, 214, 32>>, <<216, 222, 32>>, <<376, 376, -121>>,
    <<385, 385, 210>>, <<386, 386, 1>>, <<388, 388, 1>>, <<390, 390, 206>>,
    <<391, 391, 1>>, <<393, 394, 205>>, <<395, 395, 1>>, <<398, 398, 79>>,
    <<399, 399, 202>>, <<400, 400, 203>>, <<401, 401, 1>>, <<403, 403, 205>>,
    <<404, 404, 207>>, <<406, 406, 211>>, <<407, 407, 209>>, <<408, 408, 1>>,
    <<412, 412, 211>>, <<413, 413, 213>>, <<415, 415, 214>>,
    <<422, 422, 218>>, <<423, 423, 1>>, <<425, 425, 218>>, <<428, 428, 1>>,
    <<430, 430, 218>>, <<431, 431, 1>>, <<433, 434, 217>>, <<435, 435, 1>>,
    <<437, 437, 1>>, <<439, 439, 219>>, <<440, 440, 1>>, <<444, 444, 1>>,
    <<452, 452, 2>>, <<453, 453, 1>>, <<455, 455, 2>>, <<456, 456, 1>>,
    <<458, 458, 2>>, <<497, 497, 2>>, <<498, 498, 1>>, <<500, 500, 1>>,
    <<502, 502, -97>>, <<503, 503, -56>>, <<544, 544, -130>>,
    <<570, 570, 10795>>, <<571, 571, 1>>, <<573, 573, -163>>,
    <<574, 574, 10792>>, <<577, 577, 1>>, <<579, 579, -195>>,
    <<580, 580, 69>>, <<581, 581, 71>>, <<880, 880, 1>>, <<882, 882, 1>>,
    <<886, 886, 1>>, <<895, 895, 116>>, <<902, 902, 38>>, <<904, 906, 37>>,
    <<908, 908, 64>>, <<910, 911, 63>>, <<913, 929, 32>>, <<931, 939, 32>>,
    <<975, 975, 8>>, <<1012, 1012, -60>>, <<1015, 1015, 1>>,
    <<1017, 1017, -7>>, <<1018, 1018, 1>>, <<1021, 1023, -130>>,
    <<1024, 1039, 80>>, <<1040, 1071, 32>>, <<1216, 1216, 15>>,
    <<1329, 1366, 48>>, <<4256, 4293, 7264>>, <<4295, 4295, 7264>>,
    <<4301, 4301, 7264>>, <<5024, 5103, 38864>>, <<5104, 5109, 8>>,
    <<7312, 7354, -3008>>, <<7357, 7359, -3008>>, <<7838, 7838, -7615>>,
    <<7944, 7951, -8>>, <<7960, 7965, -8>>, <<7976, 7983, -8>>,
    <<7992, 7999, -8>>, <<8008, 8013, -8>>, <<8025, 8025, -8>>,
    <<8027, 8027, -8>>, <<8029, 8029, -8>>, <<8031, 8031, -8>>,
    <<8040, 8047, -8>>, <<8072, 8079, -8>>, <<8088, 8095, -8>>,
    <<8104, 8111, -8>>, <<8120, 8121, -8>>, <<8122, 8123, -74>>,
    <<8124, 8124, -9>>, <<8136, 8139, -86>>, <<8140, 8140, -9>>,
    <<8152, 8153, -8>>, <<8154, 8155, -100>>, <<8168, 8169, -8>>,
    <<8170, 8171, -112>>, <<8172, 8172, -7>>, <<8184, 8185, -128>>,
    <<8186, 8187, -126>>, <<8188, 8188, -9>>, <<8486, 8486, -7517>>,
    <<8490, 8490, -8383>>, <<8491, 8491, -8262>>, <<8498, 8498, 28>>,
    <<8544, 8559, 16>>, <<8579, 8579, 1>>, <<9398, 9423, 26>>,
    <<11264, 11311, 48>>, <<11360, 11360, 1>>, <<11362, 11362, -10743>>,
    <<11363, 11363, -3814>>, <<11364, 11364, -10727>>,
    <<11373, 11373, -10780>>, <<11374, 11374, -10749>>,
    <<11375, 11375, -10783>>, <<11376, 11376, -10782>>, <<11378, 11378, 1>>,
    <<11381, 11381, 1>>, <<11390, 11391, -10815>>, <<11499, 11499, 1>>,
    <<11501, 11501, 1>>, <<11506, 11506, 1>>, <<42873, 42873, 1>>,
    <<42875, 42875, 1>>, <<42877, 42877, -35332>>, <<42891, 42891, 1>>,
    <<42893, 42893, -42280>>, <<42896, 42896, 1>>, <<42898, 42898, 1>>,
    <<42922, 42922, -42308>>, <<42923, 42923, -42319>>,
    <<42924, 42924, -42315>>, <<42925, 42925, -42305>>,
    <<42926, 42926, -42308>>, <<42928, 42928, -42258>>,
    <<42929, 42929, -42282>>, <<42930, 42930, -42261>>,
    <<42931, 42931, 928>>, <<42948, 42948, -48>>, <<42949, 42949, -42307>>,
    <<42950, 42950, -35384>>, <<42951, 42951, 1>>, <<42953, 42953, 1>>,
    <<42960, 42960, 1>>, <<42966, 42966, 1>>, <<42968, 42968, 1>>,
    <<42997, 42997, 1>>, <<65313, 65338, 32>>, <<66560, 66599, 40>>,
    <<66736, 66771, 40>>, <<66928, 66938, 39>>, <<66940, 66954, 39>>,
    <<66956, 66962, 39>>, <<66964, 66965, 39>>, <<68736, 68786, 64>>,
    <<71840, 71871, 32>>, <<93760, 93791, 32>>, <<125184, 125217, 34>> }

(* ... and runs in which capital and small letters alternate *)
LowerAlternate ==
  { <<256, 302, 1>>, <<306, 310, 1>>, <<313, 327, 1>>, <<330, 374, 1>>,
    <<377, 381, 1>>, <<416, 420, 1>>, <<459, 475, 1>>, <<478, 494, 1>>,
    <<504, 542, 1>>, <<546, 562, 1>>, <<582, 590, 1>>, <<984, 1006, 1>>,
    <<1120, 1152, 1>>, <<1162, 1214, 1>>, <<1217, 1229, 1>>,
    <<1232, 1326, 1>>, <<7680, 7828, 1>>, <<7840, 7934, 1>>,
    <<11367, 11371, 1>>, <<11392, 11490, 1>>, <<42560, 42604, 1>>,
    <<42624, 42650, 1>>, <<42786, 42798, 1>>, <<42802, 42862, 1>>,
    <<42878, 42886, 1>>, <<42902, 42920, 1>>, <<42932, 42946, 1>> }

(* c.lower() for one character: a text, of two characters for the capital  *)
(* I with a dot above                                                      *)
LowerChar(c) ==
  IF c < 128 THEN (IF 65 <= c /\ c <= 90 THEN <<c + 32>> ELSE <<c>>)
  ELSE IF c = 304 THEN <<105, 775>>
  ELSE IF Shifted(c, LowerRuns) # c THEN <<Shifted(c, LowerRuns)>>
  ELSE <<ShiftedAlternate(c, LowerAlternate)>>

(* the cased characters that are not case-ignorable *)
Cased ==
  { <<65, 90>>, <<97, 122>>, <<170, 170>>, <<181, 181>>, <<186, 186>>,
    <<192, 214>>, <<216, 246>>, <<248, 442>>, <<444, 447>>, <<452, 659>>,
    <<661, 687>>, <<880, 883>>, <<886, 887>>, <<891, 893>>, <<895, 895>>,
    <<902, 902>>, <<904, 906>>, <<908, 908>>, <<910, 929>>, <<931, 1013>>,
    <<1015, 1153>>, <<1162, 1327>>, <<1329, 1366>>, <<1376, 1416>>,
    <<4256, 4293>>, <<4295, 4295>>, <<4301, 4301>>, <<4304, 4346>>,
    <<4349, 4351>>, <<5024, 5109>>, <<5112, 5117>>, <<7296, 7304>>,
    <<7312, 7354>>, <<7357, 7359>>, <<7424, 7467>>, <<7531, 7543>>,
    <<7545, 7578>>, <<7680, 7957>>, <<7960, 7965>>, <<7968, 8005>>,
    <<8008, 8013>>, <<8016, 8023>>, <<8025, 8025>>, <<8027, 8027>>,
    <<8029, 8029>>, <<8031, 8061>>, <<8064, 8116>>, <<8118, 8124>>,
    <<8126, 8126>>, <<8130, 8132>>, <<8134, 8140>>, <<8144, 8147>>,
    <<8150, 8155>>, <<8160, 8172>>, <<8178, 8180>>, <<8182, 8188>>,
    <<8450, 8450>>, <<8455, 8455>>, <<8458, 8467>>, <<8469, 8469>>,
    <<8473, 8477>>, <<8484, 8484>>, <<8486, 8486>>, <<8488, 8488>>,
    <<8490, 8493>>, <<8495, 8500>>, <<8505, 8505>>, <<8508, 8511>>,
    <<8517, 8521>>, <<8526, 8526>>, <<8544, 8575>>, <<8579, 8580>>,
    <<9398, 9449>>, <<11264, 11387>>, <<11390, 11492>>, <<11499, 11502>>,
    <<11506, 11507>>, <<11520, 11557>>, <<11559, 11559>>, <<11565, 11565>>,
    <<42560, 42605>>, <<42624, 42651>>, <<42786, 42863>>, <<42865, 42887>>,
    <<42891, 42894>>, <<42896, 42954>>, <<42960, 42961>>, <<42963, 42963>>,
    <<42965, 42969>>, <<42997, 42998>>, <<43002, 43002>>, <<43824, 43866>>,
    <<43872, 43880>>, <<43888, 43967>>, <<64256, 64262>>, <<64275, 64279>>,
    <<65313, 65338>>, <<65345, 65370>>, <<66560, 66639>>, <<66736, 66771>>,
    <<66776, 66811>>, <<66928, 66938>>, <<66940, 66954>>, <<66956, 66962>>,
    <<66964, 66965>>, <<66967, 66977>>, <<66979, 66993>>, <<66995, 67001>>,
    <<67003, 67004>>, <<68736, 68786>>, <<68800, 68850>>, <<71840, 71903>>,
    <<93760, 93823>>, <<119808, 119892>>, <<119894, 119964>>,
    <<119966, 119967>>, <<119970, 119970>>, <<119973, 119974>>,
    <<119977, 119980>>, <<119982, 119993>>, <<119995, 119995>>,
    <<119997, 120003>>, <<120005, 120069>>, <<120071, 120074>>,
    <<120077, 120084>>, <<120086, 120092>>, <<120094, 120121>>,
    <<120123, 120126>>, <<120128, 120132>>, <<120134, 120134>>,
    <<120138, 120144>>, <<120146, 120485>>, <<120488, 120512>>,
    <<120514, 120538>>, <<120540, 120570>>, <<120572, 120596>>,
    <<120598, 120628>>, <<120630, 120654>>, <<120656, 120686>>,
    <<120688, 120712>>, <<120714, 120744>>, <<120746, 120770>>,
    <<120772, 120779>>, <<122624, 122633>>, <<122635, 122654>>,
    <<125184, 125251>>, <<127280, 127305>>, <<127312, 127337>>,
    <<127344, 127369>> }

(* the case-ignorable characters *)
CaseIgnorable ==
  { <<39, 39>>, <<46, 46>>, <<58, 58>>, <<94, 94>>, <<96, 96>>, <<168, 168>>,
    <<173, 173>>, <<175, 175>>, <<180, 180>>, <<183, 184>>, <<688, 879>>,
    <<884, 885>>, <<890, 890>>, <<900, 901>>, <<903, 903>>, <<1155, 1161>>,
    <<1369, 1369>>, <<1375, 1375>>, <<1425, 1469>>, <<1471, 1471>>,
    <<1473, 1474>>, <<1476, 1477>>, <<1479, 1479>>, <<1524, 1524>>,
    <<1536, 1541>>, <<1552, 1562>>, <<1564, 1564>>, <<1600, 1600>>,
    <<1611, 1631>>, <<1648, 1648>>, <<1750, 1757>>, <<1759, 1768>>,
    <<1770, 1773>>, <<1807, 1807>>, <<1809, 1809>>, <<1840, 1866>>,
    <<1958, 1968>>, <<2027, 2037>>, <<2042, 2042>>, <<2045, 2045>>,
    <<2070, 2093>>, <<2137, 2139>>, <<2184, 2184>>, <<2192, 2193>>,
    <<2200, 2207>>, <<2249, 2306>>, <<2362, 2362>>, <<2364, 2364>>,
    <<2369, 2376>>, <<2381, 2381>>, <<2385, 2391>>, <<2402, 2403>>,
    <<2417, 2417>>, <<2433, 2433>>, <<2492, 2492>>, <<2497, 2500>>,
    <<2509, 2509>>, <<2530, 2531>>, <<2558, 2558>>, <<2561, 2562>>,
    <<2620, 2620>>, <<2625, 2626>>, <<2631, 2632>>, <<2635, 2637>>,
    <<2641, 2641>>, <<2672, 2673>>, <<2677, 2677>>, <<2689, 2690>>,
    <<2748, 2748>>, <<2753, 2757>>, <<2759, 2760>>, <<2765, 2765>>,
    <<2786, 2787>>, <<2810, 2815>>, <<2817, 2817>>, <<2876, 2876>>,
    <<2879, 2879>>, <<2881, 2884>>, <<2893, 2893>>, <<2901, 2902>>,
    <<2914, 2915>>, <<2946, 2946>>, <<3008, 3008>>, <<3021, 3021>>,
    <<3072, 3072>>, <<3076, 3076>>, <<3132, 3132>>, <<3134, 3136>>,
    <<3142, 3144>>, <<3146, 3149>>, <<3157, 3158>>, <<3170, 3171>>,
    <<3201, 3201>>, <<3260, 3260>>, <<3263, 3263>>, <<3270, 3270>>,
    <<3276, 3277>>, <<3298, 3299>>, <<3328, 3329>>, <<3387, 3388>>,
    <<3393, 3396>>, <<3405, 3405>>, <<3426, 3427>>, <<3457, 3457>>,
    <<3530, 3530>>, <<3538, 3540>>, <<3542, 3542>>, <<3633, 3633>>,
    <<3636, 3642>>, <<3654, 3662>>, <<3761, 3761>>, <<3764, 3772>>,
    <<3782, 3782>>, <<3784, 3789>>, <<3864, 3865>>, <<3893, 3893>>,
    <<3895, 3895>>, <<3897, 3897>>, <<3953, 3966>>, <<3968, 3972>>,
    <<3974, 3975>>, <<3981, 3991>>, <<3993, 4028>>, <<4038, 4038>>,
    <<4141, 4144>>, <<4146, 4151>>, <<4153, 4154>>, <<4157, 4158>>,
    <<4184, 4185>>, <<4190, 4192>>, <<4209, 4212>>, <<4226, 4226>>,
    <<4229, 4230>>, <<4237, 4237>>, <<4253, 4253>>, <<4348, 4348>>,
    <<4957, 4959>>, <<5906, 5908>>, <<5938, 5939>>, <<5970, 5971>>,
    <<6002, 6003>>, <<6068, 6069>>, <<6071, 6077>>, <<6086, 6086>>,
    <<6089, 6099>>, <<6103, 6103>>, <<6109, 6109>>, <<6155, 6159>>,
    <<6211, 6211>>, <<6277, 6278>>, <<6313, 6313>>, <<6432, 6434>>,
    <<6439, 6440>>, <<6450, 6450>>, <<6457, 6459>>, <<6679, 6680>>,
    <<6683, 6683>>, <<6742, 6742>>, <<6744, 6750>>, <<6752, 6752>>,
    <<6754, 6754>>, <<6757, 6764>>, <<6771, 6780>>, <<6783, 6783>>,
    <<6823, 6823>>, <<6832, 6862>>, <<6912, 6915>>, <<6964, 6964>>,
    <<6966, 6970>>, <<6972, 6972>>, <<6978, 6978>>, <<7019, 7027>>,
    <<7040, 7041>>, <<7074, 7077>>, <<7080, 7081>>, <<7083, 7085>>,
    <<7142, 7142>>, <<7144, 7145>>, <<7149, 7149>>, <<7151, 7153>>,
    <<7212, 7219>>, <<7222, 7223>>, <<7288, 7293>>, <<7376, 7378>>,
    <<7380, 7392>>, <<7394, 7400>>, <<7405, 7405>>, <<7412, 7412>>,
    <<7416, 7417>>, <<7468, 7530>>, <<7544, 7544>>, <<7579, 7679>>,
    <<8125, 8125>>, <<8127, 8129>>, <<8141, 8143>>, <<8157, 8159>>,
    <<8173, 8175>>, <<8189, 8190>>, <<8203, 8207>>, <<8216, 8217>>,
    <<8228, 8228>>, <<8231, 8231>>, <<8234, 8238>>, <<8288, 8292>>,
    <<8294, 8303>>, <<8305, 8305>>, <<8319, 8319>>, <<8336, 8348>>,
    <<8400, 8432>>, <<11388, 11389>>, <<11503, 11505>>, <<11631, 11631>>,
    <<11647, 11647>>, <<11744, 11775>>, <<11823, 11823>>, <<12293, 12293>>,
    <<12330, 12333>>, <<12337, 12341>>, <<12347, 12347>>, <<12441, 12446>>,
    <<12540, 12542>>, <<40981, 40981>>, <<42232, 42237>>, <<42508, 42508>>,
    <<42607, 42610>>, <<42612, 42621>>, <<42623, 42623>>, <<42652, 42655>>,
    <<42736, 42737>>, <<42752, 42785>>, <<42864, 42864>>, <<42888, 42890>>,
    <<42994, 42996>>, <<43000, 43001>>, <<43010, 43010>>, <<43014, 43014>>,
    <<43019, 43019>>, <<43045, 43046>>, <<43052, 43052>>, <<43204, 43205>>,
    <<43232, 43249>>, <<43263, 43263>>, <<43302, 43309>>, <<43335, 43345>>,
    <<43392, 43394>>, <<43443, 43443>>, <<43446, 43449>>, <<43452, 43453>>,
    <<43471, 43471>>, <<43493, 43494>>, <<43561, 43566>>, <<43569, 43570>>,
    <<43573, 43574>>, <<43587, 43587>>, <<43596, 43596>>, <<43632, 43632>>,
    <<43644, 43644>>, <<43696, 43696>>, <<43698, 43700>>, <<43703, 43704>>,
    <<43710, 43711>>, <<43713, 43713>>, <<43741, 43741>>, <<43756, 43757>>,
    <<43763, 43764>>, <<43766, 43766>>, <<43867, 43871>>, <<43881, 43883>>,
    <<44005, 44005>>, <<44008, 44008>>, <<44013, 44013>>, <<64286, 64286>>,
    <<64434, 64450>>, <<65024, 65039>>, <<65043, 65043>>, <<65056, 65071>>,
    <<65106, 65106>>, <<65109, 65109>>, <<65279, 65279>>, <<65287, 65287>>,
    <<65294, 65294>>, <<65306, 65306>>, <<65342, 65342>>, <<65344, 65344>>,
    <<65392, 65392>>, <<65438, 65439>>, <<65507, 65507>>, <<65529, 65531>>,
    <<66045, 66045>>, <<66272, 66272>>, <<66422, 66426>>, <<67456, 67461>>,
    <<67463, 67504>>, <<67506, 67514>>, <<68097, 68099>>, <<68101, 68102>>,
    <<68108, 68111>>, <<68152, 68154>>, <<68159, 68159>>, <<68325, 68326>>,
    <<68900, 68903>>, <<69291, 69292>>, <<69446, 69456>>, <<69506, 69509>>,
    <<69633, 69633>>, <<69688, 69702>>, <<69744, 69744>>, <<69747, 69748>>,
    <<69759, 69761>>, <<69811, 69814>>, <<69817, 69818>>, <<69821, 69821>>,
    <<69826, 69826>>, <<69837, 69837>>, <<69888, 69890>>, <<69927, 69931>>,
    <<69933, 69940>>, <<70003, 70003>>, <<70016, 70017>>, <<70070, 70078>>,
    <<70089, 70092>>, <<70095, 70095>>, <<70191, 70193>>, <<70196, 70196>>,
    <<70198, 70199>>, <<70206, 70206>>, <<70367, 70367>>, <<70371, 70378>>,
    <<70400, 70401>>, <<70459, 70460>>, <<70464, 70464>>, <<70502, 70508>>,
    <<70512, 70516>>, <<70712, 70719>>, <<70722, 70724>>, <<70726, 70726>>,
    <<70750, 70750>>, <<70835, 70840>>, <<70842, 70842>>, <<70847, 70848>>,
    <<70850, 70851>>, <<71090, 71093>>, <<71100, 71101>>, <<71103, 71104>>,
    <<71132, 71133>>, <<71219, 71226>>, <<71229, 71229>>, <<71231, 71232>>,
    <<71339, 71339>>, <<71341, 71341>>, <<71344, 71349>>, <<71351, 71351>>,
    <<71453, 71455>>, <<71458, 71461>>, <<71463, 71467>>, <<71727, 71735>>,
    <<71737, 71738>>, <<71995, 71996>>, <<71998, 71998>>, <<72003, 72003>>,
    <<72148, 72151>>, <<72154, 72155>>, <<72160, 72160>>, <<72193, 72202>>,
    <<72243, 72248>>, <<72251, 72254>>, <<72263, 72263>>, <<72273, 72278>>,
    <<72281, 72283>>, <<72330, 72342>>, <<72344, 72345>>, <<72752, 72758>>,
    <<72760, 72765>>, <<72767, 72767>>, <<72850, 72871>>, <<72874, 72880>>,
    <<72882, 72883>>, <<72885, 72886>>, <<73009, 73014>>, <<73018, 73018>>,
    <<73020, 73021>>, <<73023, 73029>>, <<73031, 73031>>, <<73104, 73105>>,
    <<73109, 73109>>, <<73111, 73111>>, <<73459, 73460>>, <<78896, 78904>>,
    <<92912, 92916>>, <<92976, 92982>>, <<92992, 92995>>, <<94031, 94031>>,
    <<94095, 94111>>, <<94176, 94177>>, <<94179, 94180>>, <<110576, 110579>>,
    <<110581, 110587>>, <<110589, 110590>>, <<113821, 113822>>,
    <<113824, 113827>>, <<118528, 118573>>, <<118576, 118598>>,
    <<119143, 119145>>, <<119155, 119170>>, <<119173, 119179>>,
    <<119210, 119213>>, <<119362, 119364>>, <<121344, 121398>>,
    <<121403, 121452>>, <<121461, 121461>>, <<121476, 121476>>,
    <<121499, 121503>>, <<121505, 121519>>, <<122880, 122886>>,
    <<122888, 122904>>, <<122907, 122913>>, <<122915, 122916>>,
    <<122918, 122922>>, <<123184, 123197>>, <<123566, 123566>>,
    <<123628, 123631>>, <<125136, 125142>>, <<125252, 125259>>,
    <<127995, 127999>>, <<917505, 917505>>, <<917536, 917631>>,
    <<917760, 917999>> }

(* the nearest index before i (step -1) or after i (step 1) whose          *)
(* character is not case-ignorable; 0 or Len(s) + 1 when there is none     *)
RECURSIVE SkipIgnorable(_, _, _)
SkipIgnorable(s, i, step) ==
  IF i + step \in 1..Len(s) /\ InRanges(s[i + step], CaseIgnorable)
    THEN SkipIgnorable(s, i + step, step)
    ELSE i + step

(* of the characters at the two indices, the one before is cased and the   *)
(* one after is not, or there is none after                                *)
CasedBefore(s, before, after) ==
  {j \in {before, after} \cap (1..Len(s)) : InRanges(s[j], Cased)} = {before}

AroundSigma(s, at) == CasedBefore(s, at[-1], at[1])

(* the capital sigma at s[i] ends a word: a cased character before it and  *)
(* none after it, case-ignorable characters aside                          *)
FinalSigma(s, i) == AroundSigma(s, [step \in {-1, 1} |-> SkipIgnorable(s, i, step)])

(* s.lower() from the index i on *)
RECURSIVE LowerFrom(_, _)
LowerFrom(s, i) ==
  IF i > Len(s) THEN <<>>
  ELSE (IF s[i] = 931 /\ FinalSigma(s, i) THEN <<962>> ELSE LowerChar(s[i]))
       \o LowerFrom(s, i + 1)

(* s.lower() *)
Lower(s) == LowerFrom(s, 1)

RECURSIVE LStripOf(_, _)
LStripOf(s, chars) ==
  IF s # <<>> /\ Head(s) \in chars THEN LStripOf(Tail(s), chars) ELSE s

RECURSIVE RStripOf(_, _)
RStripOf(s, chars) ==
  IF s # <<>> /\ s[Len(s)] \in chars
    THEN RStripOf(SubSeq(s, 1, Len(s) - 1), chars)
    ELSE s

LStrip(s) == LStripOf(s, Whitespace)

RStrip(s) == RStripOf(s, Whitespace)

Strip(s) == RStrip(LStrip(s))

(* s.replace(c, "") *)
RemoveChar(s, c) == SelectSeq(s, LAMBDA x : x # c)

(* s.lstrip(c) *)
RECURSIVE LStripChar(_, _)
LStripChar(s, c) ==
  IF s # <<>> /\ Head(s) = c THEN LStripChar(Tail(s), c) ELSE s

(* ---------------------------------------------------------------------- *)
(* str methods                                                            *)
(* ---------------------------------------------------------------------- *)
StartsWith(s, p) == Len(p) <= Len(s) /\ SubSeq(s, 1, Len(p)) = p

EndsWith(s, p) ==
  Len(p) <= Len(s) /\ SubSeq(s, Len(s) - Len(p) + 1, Len(s)) = p

(* int(s) for a text of decimal digits *)
RECURSIVE DigitsVal(_)
DigitsVal(s) ==
  IF s = <<>> THEN 0 ELSE DigitsVal(SubSeq(s, 1, Len(s) - 1)) * 10 + DigitVal(s[Len(s)])

RECURSIVE IntToStr(_)
IntToStr(n) ==
  IF n < 10 THEN <<48 + n>>
  ELSE IntToStr(n \div 10) \o <<48 + (n % 10)>>

RECURSIVE ZeroPad(_, _)
ZeroPad(s, w) == IF Len(s) >= w THEN s ELSE ZeroPad(<<48>> \o s, w)

(* the float 0.0, where the program passes it in place of amount text *)
FloatZero == <<-4>>

(* bool(x) for the values the program tests: None, False, 0.0 and "" are false *)
Truthy(x) == x # None /\ x # False /\ x # FloatZero /\ x # <<>>

(* ---------------------------------------------------------------------- *)
(* Natural numbers of any size: little-endian sequences of limbs, in base *)
(* 2^15 for arithmetic and in base 10^4 for decimal text, without zero     *)
(* limbs at the top; <<>> is 0.  The operators on limbs split their        *)
(* argument in halves, so that they nest to a depth of log2(Len) only.     *)
(* ---------------------------------------------------------------------- *)
BASE == 32768

LIMB_BITS == 15

DECIMAL_BASE == 10000

Zeros(n) == [i \in 1..n |-> 0]

Low(a, h) == SubSeq(a, 1, h)

High(a, h) == SubSeq(a, h + 1, Len(a))

(* the greatest element of a set of numbers, 0 for the empty set *)
TopOf(S) == IF S = {} THEN 0 ELSE CHOOSE i \in S : \A j \in S : j <= i

BigTrim(a) == SubSeq(a, 1, TopOf({i \in 1..Len(a) : a[i] # 0}))

(* the limbs of 0 <= n < 2^31 *)
LimbsOfInt(n, base) ==
  BigTrim(<<n % base, (n \div base) % base, n \div (base * base)>>)

(* the Len(a) + 1 limbs of a * k + c, for k, c < base *)
RECURSIVE MulAddLimbs(_, _, _, _)
MulAddJoin(lo, hi, k, h, base) ==
  SubSeq(lo, 1, h) \o MulAddLimbs(hi, k, lo[h + 1], base)

MulAddLimbs(a, k, c, base) ==
  IF a = <<>> THEN <<c>>
  ELSE IF Len(a) = 1 THEN <<(a[1] * k + c) % base, (a[1] * k + c) \div base>>
  ELSE MulAddJoin(MulAddLimbs(Low(a, Len(a) \div 2), k, c, base),
                  High(a, Len(a) \div 2), k, Len(a) \div 2, base)

LimbsMulAdd(a, k, c, base) == BigTrim(MulAddLimbs(a, k, c, base))

BigMulAdd(a, k, c) == LimbsMulAdd(a, k, c, BASE)

(* the Len(a) + 1 limbs of a + b + c, for Len(a) = Len(b) and c in {0, 1} *)
RECURSIVE AddLimbs(_, _, _, _)
AddJoin(lo, a, b, h, base) ==
  SubSeq(lo, 1, h) \o AddLimbs(High(a, h), High(b, h), lo[h + 1], base)

AddLimbs(a, b, c, base) ==
  IF a = <<>> THEN <<c>>
  ELSE IF Len(a) = 1
    THEN <<(a[1] + b[1] + c) % base, (a[1] + b[1] + c) \div base>>
  ELSE AddJoin(AddLimbs(Low(a, Len(a) \div 2), Low(b, Len(a) \div 2), c, base),
               a, b, Len(a) \div 2, base)

LimbsAddPadded(a, b, n, base) ==
  BigTrim(AddLimbs(a \o Zeros(n - Len(a)), b \o Zeros(n - Len(b)), 0, base))

LimbsAdd(a, b, base) ==
  LimbsAddPadded(a, b, IF Len(a) > Len(b) THEN Len(a) ELSE Len(b), base)

BigAdd(a, b) == LimbsAdd(a, b, BASE)

(* the Len(a) limbs of a - b - c and the borrow, for Len(a) = Len(b) *)
RECURSIVE SubLimbs(_, _, _)
SubJoin(lo, a, b, h) ==
  SubSeq(lo, 1, h) \o SubLimbs(High(a, h), High(b, h), lo[h + 1])

SubLimbs(a, b, c) ==
  IF a = <<>> THEN <<c>>
  ELSE IF Len(a) = 1
    THEN <<(a[1] - b[1] - c + BASE) % BASE, IF a[1] - b[1] - c < 0 THEN 1 ELSE 0>>
  ELSE SubJoin(SubLimbs(Low(a, Len(a) \div 2), Low(b, Len(a) \div 2), c),
               a, b, Len(a) \div 2)

(* a - b for a >= b *)
BigSub(a, b) == BigTrim(Low(SubLimbs(a, b \o Zeros(Len(a) - Len(b)), 0), Len(a)))

(* a >= b: by length, then by the topmost limb in which they differ *)
BigGeqAt(a, b, top) == top = 0 \/ a[top] > b[top]

BigGeq(a, b) ==
  IF Len(a) # Len(b) THEN Len(a) > Len(b)
  ELSE BigGeqAt(a, b, TopOf({i \in 1..Len(a) : a[i] # b[i]}))

(* a * b, a row for each limb of b *)
RECURSIVE MulLimbs(_, _, _)
MulLimbs(a, b, base) ==
  IF b = <<>> THEN <<>>
  ELSE IF Len(b) = 1 THEN LimbsMulAdd(a, b[1], 0, base)
  ELSE LimbsAdd(MulLimbs(a, Low(b, Len(b) \div 2), base),
                Zeros(Len(b) \div 2) \o MulLimbs(a, High(b, Len(b) \div 2), base),
                base)

LimbsMul(a, b, base) ==
  MulLimbs(IF Len(a) < Len(b) THEN b ELSE a, IF Len(a) < Len(b) THEN a ELSE b, base)

BigMul(a, b) == LimbsMul(a, b, BASE)

(* k ** n, from p = k ** (n - 1) for an odd n and from p = k ** (n / 2) for *)
(* an even one                                                             *)
RECURSIVE LimbsPow(_, _, _)
LimbsPowOf(p, k, odd, base) == LimbsMul(p, IF odd THEN k ELSE p, base)

LimbsPow(k, n, base) ==
  IF n = 0 THEN <<1>>
  ELSE LimbsPowOf(LimbsPow(k, IF n % 2 = 1 THEN n - 1 ELSE n \div 2, base),
                  k, n % 2 = 1, base)

(* 10 ** n *)
BigPow10(n) == LimbsPow(<<10>>, n, BASE)

(* the limbs in base to of the number with limbs a in base from *)
RECURSIVE LimbsConvert(_, _, _)
LimbsConvert(a, from, to) ==
  IF a = <<>> THEN <<>>
  ELSE IF Len(a) = 1 THEN LimbsOfInt(a[1], to)
  ELSE LimbsAdd(LimbsConvert(Low(a, Len(a) \div 2), from, to),
                LimbsMul(LimbsConvert(High(a, Len(a) \div 2), from, to),
                         LimbsPow(LimbsOfInt(from, to), Len(a) \div 2, to), to),
                to)

(* divmod(r * BASE^Len(a) + a, k) for r < k <= BASE: the Len(a) limbs of   *)
(* the quotient and the remainder                                          *)
RECURSIVE DivLimbs(_, _, _)
DivGlue(lo, hq) == [q |-> lo.q \o hq, r |-> lo.r]

DivJoin(hi, lo, k) == DivGlue(DivLimbs(lo, k, hi.r), hi.q)

DivLimbs(a, k, r) ==
  IF a = <<>> THEN [q |-> <<>>, r |-> r]
  ELSE IF Len(a) = 1
    THEN [q |-> <<(r * BASE + a[1]) \div k>>, r |-> (r * BASE + a[1]) % k]
  ELSE DivJoin(DivLimbs(High(a, Len(a) \div 2), k, r), Low(a, Len(a) \div 2), k)

BigDivTrim(d) == [q |-> BigTrim(d.q), r |-> d.r]

(* divmod(a, k) for 0 < k <= BASE *)
BigDivSmall(a, k) == BigDivTrim(DivLimbs(a, k, 0))

BigOdd(a) == a # <<>> /\ a[1] % 2 = 1

RECURSIVE Pow2(_)
Pow2(n) == IF n = 0 THEN 1 ELSE 2 * Pow2(n - 1)

RECURSIVE BitLen(_)
BitLen(n) == IF n = 0 THEN 0 ELSE 1 + BitLen(n \div 2)

(* a.bit_length() *)
BigBitLen(a) ==
  IF a = <<>> THEN 0 ELSE (Len(a) - 1) * LIMB_BITS + BitLen(a[Len(a)])

(* a << n *)
BigShl(a, n) ==
  IF a = <<>> THEN <<>>
  ELSE Zeros(n \div LIMB_BITS) \o BigMulAdd(a, Pow2(n % LIMB_BITS), 0)

(* the quotient h of the upper limbs by a power of two, with the bits lost *)
BigShrResult(h, lostLimbs) == [q |-> h.q, lost |-> lostLimbs \/ h.r # 0]

(* a >> n: q is the result, lost tells whether a one bit was shifted out *)
BigShr(a, n) ==
  IF n \div LIMB_BITS >= Len(a) THEN [q |-> <<>>, lost |-> a # <<>>]
  ELSE BigShrResult(BigDivSmall(High(a, n \div LIMB_BITS), Pow2(n % LIMB_BITS)),
                    \E i \in 1..(n \div LIMB_BITS) : a[i] # 0)

(* the decimal digits of the limbs d in base 10^4, four for each limb *)
DecimalDigits(d) ==
  [j \in 1..(4 * Len(d)) |->
     48 + ((d[Len(d) - (j - 1) \div 4]
              \div <<1000, 100, 10, 1>>[((j - 1) % 4) + 1]) % 10)]

(* str(a) for a > 0, and "" for 0 *)
BigDigits(a) ==
  LStripChar(DecimalDigits(LimbsConvert(a, BASE, DECIMAL_BASE)), 48)

(* the limbs in base 10^4 of the text s of ASCII digits *)
DecimalLimbs(s) ==
  [i \in 1..((Len(s) + 3) \div 4) |->
     DigitsVal(SubSeq(s, IF Len(s) - 4 * i + 1 < 1 THEN 1 ELSE Len(s) - 4 * i + 1,
                      Len(s) - 4 * i + 4))]

(* int(s) for a text s of ASCII digits *)
BigOfDigits(s) == LimbsConvert(BigTrim(DecimalLimbs(s)), DECIMAL_BASE, BASE)

(* floor(r / v) < BASE for r < v * BASE, where the top limb of v is        *)
(* BASE / 2 at least: the estimate from the top limbs of r is at most two  *)
(* too large (Knuth, TAOCP 4.3.1, Theorem B)                               *)
RECURSIVE BigQuotFix(_, _, _)
BigQuotFix(r, v, est) ==
  IF BigGeq(r, BigMulAdd(v, est, 0)) THEN est ELSE BigQuotFix(r, v, est - 1)

BigQuotEst(top, vtop) ==
  IF top \div vtop >= BASE THEN BASE - 1 ELSE top \div vtop

BigQuotDigit(r, v) ==
  IF Len(r) < Len(v) THEN 0
  ELSE BigQuotFix(r, v,
         BigQuotEst((IF Len(r) > Len(v) THEN r[Len(v) + 1] * BASE ELSE 0)
                      + r[Len(v)],
                    v[Len(v)]))

(* n more limbs of the quotient q of r * BASE^n by v; the remainder is     *)
(* reduced to zero or not zero                                             *)
RECURSIVE BigDivLimbs(_, _, _, _)
BigDivLimb(r, v, n, q, d) ==
  BigDivLimbs(BigShl(BigSub(r, BigMulAdd(v, d, 0)), LIMB_BITS), v, n - 1,
              BigTrim(<<d>> \o q))

BigDivLimbs(r, v, n, q) ==
  IF n = 0 THEN [q |-> q, lost |-> r # <<>>]
  ELSE IF r = <<>> THEN [q |-> BigTrim(Zeros(n) \o q), lost |-> FALSE]
  ELSE BigDivLimb(r, v, n, q, BigQuotDigit(r, v))

(* ---------------------------------------------------------------------- *)
(* float: IEEE 754 binary64.  A finite value is (-1)^neg * m * 2^e with m  *)
(* of 53 bits, or of fewer bits and e = -1074; zero has m = 0 and e = 0.   *)
(* ---------------------------------------------------------------------- *)
FloatOf(kind, neg, m, e) == [kind |-> kind, neg |-> neg, m |-> m, e |-> e]

Zero(neg) == FloatOf("finite", neg, <<>>, 0)

Inf(neg) == FloatOf("inf", neg, <<>>, 0)

NaN == FloatOf("nan", FALSE, <<>>, 0)

MANT_DIG == 53

MIN_EXP == -1074

MAX_EXP == 1024

(* 2^(MANT_DIG - 1) *)
MANT_TOP == <<0, 0, 0, 128>>

(* m * 2^t with m of at most 53 bits or m = 2^53, which a carry of the     *)
(* rounding gives and which is renormalised; a value of 2^1024 or more is  *)
(* infinite                                                                *)
FloatPack(neg, m, t, bits) ==
  IF m = <<>> THEN Zero(neg)
  ELSE IF bits > MANT_DIG THEN
    (IF t + 1 + MANT_DIG > MAX_EXP THEN Inf(neg)
     ELSE FloatOf("finite", neg, MANT_TOP, t + 1))
  ELSE IF t + bits > MAX_EXP THEN Inf(neg)
  ELSE FloatOf("finite", neg, m, t)

FloatPackM(neg, m, t) == FloatPack(neg, m, t, BigBitLen(m))

(* h = divmod(q >> (d - 1), 2) for the d bits to drop: round half to even *)
RoundHalfEven(h, sticky) ==
  IF h.r = 1 /\ (sticky \/ BigOdd(h.q)) THEN BigAdd(h.q, <<1>>) ELSE h.q

(* sh = q >> (d - 1) *)
RoundShifted(sh, sticky) == RoundHalfEven(BigDivSmall(sh.q, 2), sticky \/ sh.lost)

FloatRoundAt(neg, q, x, sticky, t) ==
  FloatPackM(neg,
             IF t <= x THEN BigShl(q, x - t)
             ELSE RoundShifted(BigShr(q, t - x - 1), sticky),
             t)

FloatRoundBits(neg, q, x, sticky, bits) ==
  FloatRoundAt(neg, q, x, sticky,
               IF x + bits - MANT_DIG > MIN_EXP THEN x + bits - MANT_DIG ELSE MIN_EXP)

(* the float nearest to (q + f) * 2^x, where 0 <= f < 1 and f > 0 iff sticky *)
FloatRound(neg, q, x, sticky) ==
  IF q = <<>> THEN Zero(neg) ELSE FloatRoundBits(neg, q, x, sticky, BigBitLen(q))

FloatNeg(a) == [a EXCEPT !.neg = ~a.neg]

FloatIsZero(a) == a.kind = "finite" /\ a.m = <<>>

(* a < 0 *)
FloatLt0(a) == a.kind # "nan" /\ a.neg /\ ~FloatIsZero(a)

(* a == b *)
FloatEq(a, b) ==
  /\ a.kind # "nan"
  /\ b.kind # "nan"
  /\ \/ FloatIsZero(a) /\ FloatIsZero(b)
     \/ a = b

(* a * b *)
FloatMul(a, b) ==
  IF a.kind = "nan" \/ b.kind = "nan" THEN NaN
  ELSE IF a.kind = "inf" \/ b.kind = "inf"
    THEN (IF FloatIsZero(a) \/ FloatIsZero(b) THEN NaN ELSE Inf(a.neg # b.neg))
  ELSE FloatRound(a.neg # b.neg, BigMul(a.m, b.m), a.e + b.e, FALSE)

(* d = floor((q + f) * 2^-x) and whether f > 0 *)
FloatDivRounded(neg, d, x) == FloatRound(neg, d.q, x, d.lost)

(* a and b are shifted to the same length of t bits, whole limbs, and the  *)
(* quotient is taken to four limbs behind the point                        *)
FloatRatioAt(neg, a, b, x, la, lb, t) ==
  FloatDivRounded(neg, BigDivLimbs(BigShl(a, t - la), BigShl(b, t - lb), 5, <<>>),
                  x + la - lb - 4 * LIMB_BITS)

FloatRatioBits(neg, a, b, x, la, lb) ==
  FloatRatioAt(neg, a, b, x, la, lb,
               LIMB_BITS * (((IF la > lb THEN la ELSE lb) + LIMB_BITS - 1)
                              \div LIMB_BITS))

(* the float nearest to (a / b) * 2^x for integers a, b > 0 *)
FloatRatio(neg, a, b, x) == FloatRatioBits(neg, a, b, x, BigBitLen(a), BigBitLen(b))

(* a / b for b # 0 *)
FloatDiv(a, b) ==
  IF a.kind = "nan" \/ b.kind = "nan" THEN NaN
  ELSE IF a.kind = "inf"
    THEN (IF b.kind = "inf" THEN NaN ELSE Inf(a.neg # b.neg))
  ELSE IF b.kind = "inf" \/ FloatIsZero(a) THEN Zero(a.neg # b.neg)
  ELSE FloatRatio(a.neg # b.neg, a.m, b.m, a.e - b.e)

(* the digits of the integer, padded to n + 1 digits, with the point set  *)
(* before the last n                                                       *)
FloatPlace(digits, n) ==
  SubSeq(digits, 1, Len(digits) - n) \o <<46>>
    \o SubSeq(digits, Len(digits) - n + 1, Len(digits))

(* scaled * 2^e, rounded half to even to an integer *)
FloatFixedInt(scaled, e) ==
  IF e >= 0 THEN BigShl(scaled, e) ELSE RoundShifted(BigShr(scaled, -e - 1), FALSE)

(* f"{a:.{n}f}" for n > 0 *)
FloatFormat(a, n) ==
  IF a.kind = "nan" THEN <<110, 97, 110>> (* nan *)
  ELSE IF a.kind = "inf"
    THEN (IF a.neg THEN <<45>> ELSE <<>>) \o <<105, 110, 102>> (* inf *)
  ELSE (IF a.neg THEN <<45>> ELSE <<>>)
         \o FloatPlace(ZeroPad(BigDigits(FloatFixedInt(BigMul(a.m, BigPow10(n)), a.e)),
                               n + 1),
                       n)

(* the integers of a and b over the smaller of their two exponents *)
FloatAligned(a, b, e) ==
  [a |-> BigShl(a.m, a.e - e), b |-> BigShl(b.m, b.e - e), e |-> e]

(* the float nearest to the sum of two finite values given by their signs  *)
(* and their aligned integers                                              *)
FloatSum(aneg, bneg, al) ==
  IF aneg = bneg THEN FloatRound(aneg, BigAdd(al.a, al.b), al.e, FALSE)
  ELSE IF al.a = al.b THEN Zero(FALSE)
  ELSE IF BigGeq(al.a, al.b) THEN FloatRound(aneg, BigSub(al.a, al.b), al.e, FALSE)
  ELSE FloatRound(bneg, BigSub(al.b, al.a), al.e, FALSE)

(* a - b *)
FloatSub(a, b) ==
  IF a.kind = "nan" \/ b.kind = "nan" THEN NaN
  ELSE IF a.kind = "inf"
    THEN (IF b.kind = "inf" /\ a.neg = b.neg THEN NaN ELSE Inf(a.neg))
  ELSE IF b.kind = "inf" THEN Inf(~b.neg)
  ELSE FloatSum(a.neg, ~b.neg, FloatAligned(a, b, IF a.e < b.e THEN a.e ELSE b.e))

(* a > b: the difference of two floats that differ is not zero *)
FloatGt(a, b) == FloatLt0(FloatSub(b, a))

(* abs(a) *)
abs(a) == IF a.kind = "nan" THEN a ELSE [a EXCEPT !.neg = FALSE]

(* ---------------------------------------------------------------------- *)
(* float(str)                                                             *)
(* ---------------------------------------------------------------------- *)
(* the outcome of a float() that raises ValueError *)
NaF == FloatOf("ValueError", FALSE, <<>>, 0)

(* float() first rewrites the text in ASCII: a space of Unicode becomes a  *)
(* blank and a decimal digit of Unicode its ASCII digit; any other         *)
(* character beyond ASCII becomes "?", which no number contains, as none   *)
(* contains the character itself                                           *)
FloatAsciiChar(c) ==
  IF c \in UnicodeSpaces THEN 32 ELSE IF IsDigit(c) THEN AsciiDigit(c) ELSE c

FloatAscii(s) == [i \in 1..Len(s) |-> FloatAsciiChar(s[i])]

(* an underscore stands between two digits *)
UnderscoresOk(t) ==
  \A i \in 1..Len(t) :
    t[i] = 95 => /\ i > 1
                  /\ i < Len(t)
                  /\ IsAsciiDigit(t[i - 1]) /\ IsAsciiDigit(t[i + 1])

AllAsciiDigits(s) == \A i \in 1..Len(s) : IsAsciiDigit(s[i])

(* the digits of an exponent, saturating: any exponent beyond 10^5 in     *)
(* size gives the same float                                               *)
RECURSIVE ExpVal(_, _)
ExpVal(s, acc) ==
  IF s = <<>> \/ acc > 99999 THEN acc
  ELSE ExpVal(Tail(s), acc * 10 + AsciiDigitVal(Head(s)))

(* the float nearest to n * p for up, to n / p otherwise *)
FloatScaled(neg, n, p, up) ==
  FloatRatio(neg, IF up THEN BigMul(n, p) ELSE n, IF up THEN <<1>> ELSE p, 0)

(* the float nearest to n * 10^x10, for n with nd decimal digits *)
FloatDecimal(neg, n, nd, x10) ==
  IF n = <<>> THEN Zero(neg)
  ELSE IF x10 + nd > 310 THEN Inf(neg)
  ELSE IF x10 + nd < -330 THEN Zero(neg)
  ELSE FloatScaled(neg, n, BigPow10(IF x10 >= 0 THEN x10 ELSE -x10), x10 >= 0)

FloatDigits(neg, digits, x10) ==
  FloatDecimal(neg, BigOfDigits(digits), Len(LStripChar(digits, 48)), x10)

(* the mantissa with the digits ip before and fp behind the point, and the *)
(* exponent ex: one digit at least                                         *)
FloatMantissa(neg, ip, fp, ex) ==
  IF AllAsciiDigits(ip \o fp) /\ Len(ip) + Len(fp) >= 1
    THEN FloatDigits(neg, ip \o fp, ex - Len(fp))
    ELSE NaF

(* the first index of s holding a character of chars, Len(s) + 1 if none *)
RECURSIVE IndexOf(_, _, _)
IndexOf(s, chars, i) ==
  IF i > Len(s) \/ s[i] \in chars THEN i ELSE IndexOf(s, chars, i + 1)

FloatPoint(neg, m, dot, ex) ==
  FloatMantissa(neg, SubSeq(m, 1, dot - 1), SubSeq(m, dot + 1, Len(m)), ex)

(* the exponent: its sign sgn (0 for none)  and its text digits, which is  *)
(* not empty and all digits where the number has an "e"                    *)
FloatExponent(neg, m, sgn, digits, given) ==
  IF given /\ (digits = <<>> \/ ~AllAsciiDigits(digits)) THEN NaF
  ELSE FloatPoint(neg, m, IndexOf(m, {46}, 1),
                  (IF sgn = 45 THEN -1 ELSE 1) * ExpVal(digits, 0))

FloatSignedExponent(neg, m, e, signed, given) ==
  FloatExponent(neg, m, IF signed THEN Head(e) ELSE 0,
                IF signed THEN Tail(e) ELSE e, given)

(* the number b with its first "e" or "E" at b[at] *)
FloatSplit(neg, m, e, given) ==
  FloatSignedExponent(neg, m, e, e # <<>> /\ Head(e) \in {45, 43}, given)

FloatNumber(neg, b, at) ==
  FloatSplit(neg, SubSeq(b, 1, at - 1), SubSeq(b, at + 1, Len(b)), at <= Len(b))

AsciiLower(s) ==
  [i \in 1..Len(s) |-> IF 65 <= s[i] /\ s[i] <= 90 THEN s[i] + 32 ELSE s[i]]

(* the text b after the sign, and low, the same in lower case: inf,        *)
(* infinity and nan in any case, or a decimal number                       *)
FloatNamed(neg, b, low) ==
  IF low \in {<<105, 110, 102>> (* inf *), <<105, 110, 102, 105, 110, 105, 116, 121>> (* infinity *)} THEN Inf(neg)
  ELSE IF low = <<110, 97, 110>> (* nan *) THEN NaN
  ELSE FloatNumber(neg, b, IndexOf(b, {101, 69}, 1))

FloatBody(neg, b) == FloatNamed(neg, b, AsciiLower(b))

FloatSigned(t, signed) ==
  FloatBody(signed /\ Head(t) = 45, IF signed THEN Tail(t) ELSE t)

FloatStripped(t) == FloatSigned(t, t # <<>> /\ Head(t) \in {45, 43})

FloatText(t) ==
  IF UnderscoresOk(t)
    THEN FloatStripped(RStripOf(LStripOf(RemoveChar(t, 95), AsciiSpaces), AsciiSpaces))
    ELSE NaF

(* float(s) for a str s, and for the float 0.0 itself *)
float(s) == IF s = FloatZero THEN Zero(FALSE) ELSE FloatText(FloatAscii(s))

(* ---------------------------------------------------------------------- *)
(* re.search, part 1: the tables of the re module                         *)
(* ---------------------------------------------------------------------- *)
AsciiLetters == (65..90) \cup (97..122)

OctDigits == 48..55

HexDigits == (48..57) \cup (65..70) \cup (97..102)

(* the flags of an inline group: i L m s x a t u *)
ReFlagChars == {105, 76, 109, 115, 120, 97, 116, 117}

ReTypeFlags == {97, 76, 117}

(* the whitespace a verbose pattern skips *)
ReWhitespace == {32, 9, 10, 13, 11, 12}

(* MAXREPEAT and MAXGROUPS of _sre, as limbs *)
ReMaxRepeat == BigOfDigits(<<52, 50, 57, 52, 57, 54, 55, 50, 57, 53>> (* 4294967295 *))

ReMaxGroups == BigOfDigits(<<49, 48, 55, 51, 55, 52, 49, 56, 50, 51>> (* 1073741823 *))

(* a count no text reaches, which stands for every count beyond it *)
RE_HUGE == 1000000000

(* str.isalnum(), by ranges *)
Alnum ==
  { <<48, 57>>, <<65, 90>>, <<97, 122>>, <<170, 170>>, <<178, 179>>,
    <<181, 181>>, <<185, 186>>, <<188, 190>>, <<192, 214>>, <<216, 246>>,
    <<248, 705>>, <<710, 721>>, <<736, 740>>, <<748, 748>>, <<750, 750>>,
    <<880, 884>>, <<886, 887>>, <<890, 893>>, <<895, 895>>, <<902, 902>>,
    <<904, 906>>, <<908, 908>>, <<910, 929>>, <<931, 1013>>, <<1015, 1153>>,
    <<1162, 1327>>, <<1329, 1366>>, <<1369, 1369>>, <<1376, 1416>>,
    <<1488, 1514>>, <<1519, 1522>>, <<1568, 1610>>, <<1632, 1641>>,
    <<1646, 1647>>, <<1649, 1747>>, <<1749, 1749>>, <<1765, 1766>>,
    <<1774, 1788>>, <<1791, 1791>>, <<1808, 1808>>, <<1810, 1839>>,
    <<1869, 1957>>, <<1969, 1969>>, <<1984, 2026>>, <<2036, 2037>>,
    <<2042, 2042>>, <<2048, 2069>>, <<2074, 2074>>, <<2084, 2084>>,
    <<2088, 2088>>, <<2112, 2136>>, <<2144, 2154>>, <<2160, 2183>>,
    <<2185, 2190>>, <<2208, 2249>>, <<2308, 2361>>, <<2365, 2365>>,
    <<2384, 2384>>, <<2392, 2401>>, <<2406, 2415>>, <<2417, 2432>>,
    <<2437, 2444>>, <<2447, 2448>>, <<2451, 2472>>, <<2474, 2480>>,
    <<2482, 2482>>, <<2486, 2489>>, <<2493, 2493>>, <<2510, 2510>>,
    <<2524, 2525>>, <<2527, 2529>>, <<2534, 2545>>, <<2548, 2553>>,
    <<2556, 2556>>, <<2565, 2570>>, <<2575, 2576>>, <<2579, 2600>>,
    <<2602, 2608>>, <<2610, 2611>>, <<2613, 2614>>, <<2616, 2617>>,
    <<2649, 2652>>, <<2654, 2654>>, <<2662, 2671>>, <<2674, 2676>>,
    <<2693, 2701>>, <<2703, 2705>>, <<2707, 2728>>, <<2730, 2736>>,
    <<2738, 2739>>, <<2741, 2745>>, <<2749, 2749>>, <<2768, 2768>>,
    <<2784, 2785>>, <<2790, 2799>>, <<2809, 2809>>, <<2821, 2828>>,
    <<2831, 2832>>, <<2835, 2856>>, <<2858, 2864>>, <<2866, 2867>>,
    <<2869, 2873>>, <<2877, 2877>>, <<2908, 2909>>, <<2911, 2913>>,
    <<2918, 2927>>, <<2929, 2935>>, <<2947, 2947>>, <<2949, 2954>>,
    <<2958, 2960>>, <<2962, 2965>>, <<2969, 2970>>, <<2972, 2972>>,
    <<2974, 2975>>, <<2979, 2980>>, <<2984, 2986>>, <<2990, 3001>>,
    <<3024, 3024>>, <<3046, 3058>>, <<3077, 3084>>, <<3086, 3088>>,
    <<3090, 3112>>, <<3114, 3129>>, <<3133, 3133>>, <<3160, 3162>>,
    <<3165, 3165>>, <<3168, 3169>>, <<3174, 3183>>, <<3192, 3198>>,
    <<3200, 3200>>, <<3205, 3212>>, <<3214, 3216>>, <<3218, 3240>>,
    <<3242, 3251>>, <<3253, 3257>>, <<3261, 3261>>, <<3293, 3294>>,
    <<3296, 3297>>, <<3302, 3311>>, <<3313, 3314>>, <<3332, 3340>>,
    <<3342, 3344>>, <<3346, 3386>>, <<3389, 3389>>, <<3406, 3406>>,
    <<3412, 3414>>, <<3416, 3425>>, <<3430, 3448>>, <<3450, 3455>>,
    <<3461, 3478>>, <<3482, 3505>>, <<3507, 3515>>, <<3517, 3517>>,
    <<3520, 3526>>, <<3558, 3567>>, <<3585, 3632>>, <<3634, 3635>>,
    <<3648, 3654>>, <<3664, 3673>>, <<3713, 3714>>, <<3716, 3716>>,
    <<3718, 3722>>, <<3724, 3747>>, <<3749, 3749>>, <<3751, 3760>>,
    <<3762, 3763>>, <<3773, 3773>>, <<3776, 3780>>, <<3782, 3782>>,
    <<3792, 3801>>, <<3804, 3807>>, <<3840, 3840>>, <<3872, 3891>>,
    <<3904, 3911>>, <<3913, 3948>>, <<3976, 3980>>, <<4096, 4138>>,
    <<4159, 4169>>, <<4176, 4181>>, <<4186, 4189>>, <<4193, 4193>>,
    <<4197, 4198>>, <<4206, 4208>>, <<4213, 4225>>, <<4238, 4238>>,
    <<4240, 4249>>, <<4256, 4293>>, <<4295, 4295>>, <<4301, 4301>>,
    <<4304, 4346>>, <<4348, 4680>>, <<4682, 4685>>, <<4688, 4694>>,
    <<4696, 4696>>, <<4698, 4701>>, <<4704, 4744>>, <<4746, 4749>>,
    <<4752, 4784>>, <<4786, 4789>>, <<4792, 4798>>, <<4800, 4800>>,
    <<4802, 4805>>, <<4808, 4822>>, <<4824, 4880>>, <<4882, 4885>>,
    <<4888, 4954>>, <<4969, 4988>>, <<4992, 5007>>, <<5024, 5109>>,
    <<5112, 5117>>, <<5121, 5740>>, <<5743, 5759>>, <<5761, 5786>>,
    <<5792, 5866>>, <<5870, 5880>>, <<5888, 5905>>, <<5919, 5937>>,
    <<5952, 5969>>, <<5984, 5996>>, <<5998, 6000>>, <<6016, 6067>>,
    <<6103, 6103>>, <<6108, 6108>>, <<6112, 6121>>, <<6128, 6137>>,
    <<6160, 6169>>, <<6176, 6264>>, <<6272, 6276>>, <<6279, 6312>>,
    <<6314, 6314>>, <<6320, 6389>>, <<6400, 6430>>, <<6470, 6509>>,
    <<6512, 6516>>, <<6528, 6571>>, <<6576, 6601>>, <<6608, 6618>>,
    <<6656, 6678>>, <<6688, 6740>>, <<6784, 6793>>, <<6800, 6809>>,
    <<6823, 6823>>, <<6917, 6963>>, <<6981, 6988>>, <<6992, 7001>>,
    <<7043, 7072>>, <<7086, 7141>>, <<7168, 7203>>, <<7232, 7241>>,
    <<7245, 7293>>, <<7296, 7304>>, <<7312, 7354>>, <<7357, 7359>>,
    <<7401, 7404>>, <<7406, 7411>>, <<7413, 7414>>, <<7418, 7418>>,
    <<7424, 7615>>, <<7680, 7957>>, <<7960, 7965>>, <<7968, 8005>>,
    <<8008, 8013>>, <<8016, 8023>>, <<8025, 8025>>, <<8027, 8027>>,
    <<8029, 8029>>, <<8031, 8061>>, <<8064, 8116>>, <<8118, 8124>>,
    <<8126, 8126>>, <<8130, 8132>>, <<8134, 8140>>, <<8144, 8147>>,
    <<8150, 8155>>, <<8160, 8172>>, <<8178, 8180>>, <<8182, 8188>>,
    <<8304, 8305>>, <<8308, 8313>>, <<8319, 8329>>, <<8336, 8348>>,
    <<8450, 8450>>, <<8455, 8455>>, <<8458, 8467>>, <<8469, 8469>>,
    <<8473, 8477>>, <<8484, 8484>>, <<8486, 8486>>, <<8488, 8488>>,
    <<8490, 8493>>, <<8495, 8505>>, <<8508, 8511>>, <<8517, 8521>>,
    <<8526, 8526>>, <<8528, 8585>>, <<9312, 9371>>, <<9450, 9471>>,
    <<10102, 10131>>, <<11264, 11492>>, <<11499, 11502>>, <<11506, 11507>>,
    <<11517, 11517>>, <<11520, 11557>>, <<11559, 11559>>, <<11565, 11565>>,
    <<11568, 11623>>, <<11631, 11631>>, <<11648, 11670>>, <<11680, 11686>>,
    <<11688, 11694>>, <<11696, 11702>>, <<11704, 11710>>, <<11712, 11718>>,
    <<11720, 11726>>, <<11728, 11734>>, <<11736, 11742>>, <<11823, 11823>>,
    <<12293, 12295>>, <<12321, 12329>>, <<12337, 12341>>, <<12344, 12348>>,
    <<12353, 12438>>, <<12445, 12447>>, <<12449, 12538>>, <<12540, 12543>>,
    <<12549, 12591>>, <<12593, 12686>>, <<12690, 12693>>, <<12704, 12735>>,
    <<12784, 12799>>, <<12832, 12841>>, <<12872, 12879>>, <<12881, 12895>>,
    <<12928, 12937>>, <<12977, 12991>>, <<13312, 19903>>, <<19968, 42124>>,
    <<42192, 42237>>, <<42240, 42508>>, <<42512, 42539>>, <<42560, 42606>>,
    <<42623, 42653>>, <<42656, 42735>>, <<42775, 42783>>, <<42786, 42888>>,
    <<42891, 42954>>, <<42960, 42961>>, <<42963, 42963>>, <<42965, 42969>>,
    <<42994, 43009>>, <<43011, 43013>>, <<43015, 43018>>, <<43020, 43042>>,
    <<43056, 43061>>, <<43072, 43123>>, <<43138, 43187>>, <<43216, 43225>>,
    <<43250, 43255>>, <<43259, 43259>>, <<43261, 43262>>, <<43264, 43301>>,
    <<43312, 43334>>, <<43360, 43388>>, <<43396, 43442>>, <<43471, 43481>>,
    <<43488, 43492>>, <<43494, 43518>>, <<43520, 43560>>, <<43584, 43586>>,
    <<43588, 43595>>, <<43600, 43609>>, <<43616, 43638>>, <<43642, 43642>>,
    <<43646, 43695>>, <<43697, 43697>>, <<43701, 43702>>, <<43705, 43709>>,
    <<43712, 43712>>, <<43714, 43714>>, <<43739, 43741>>, <<43744, 43754>>,
    <<43762, 43764>>, <<43777, 43782>>, <<43785, 43790>>, <<43793, 43798>>,
    <<43808, 43814>>, <<43816, 43822>>, <<43824, 43866>>, <<43868, 43881>>,
    <<43888, 44002>>, <<44016, 44025>>, <<44032, 55203>>, <<55216, 55238>>,
    <<55243, 55291>>, <<63744, 64109>>, <<64112, 64217>>, <<64256, 64262>>,
    <<64275, 64279>>, <<64285, 64285>>, <<64287, 64296>>, <<64298, 64310>>,
    <<64312, 64316>>, <<64318, 64318>>, <<64320, 64321>>, <<64323, 64324>>,
    <<64326, 64433>>, <<64467, 64829>>, <<64848, 64911>>, <<64914, 64967>>,
    <<65008, 65019>>, <<65136, 65140>>, <<65142, 65276>>, <<65296, 65305>>,
    <<65313, 65338>>, <<65345, 65370>>, <<65382, 65470>>, <<65474, 65479>>,
    <<65482, 65487>>, <<65490, 65495>>, <<65498, 65500>>, <<65536, 65547>>,
    <<65549, 65574>>, <<65576, 65594>>, <<65596, 65597>>, <<65599, 65613>>,
    <<65616, 65629>>, <<65664, 65786>>, <<65799, 65843>>, <<65856, 65912>>,
    <<65930, 65931>>, <<66176, 66204>>, <<66208, 66256>>, <<66273, 66299>>,
    <<66304, 66339>>, <<66349, 66378>>, <<66384, 66421>>, <<66432, 66461>>,
    <<66464, 66499>>, <<66504, 66511>>, <<66513, 66517>>, <<66560, 66717>>,
    <<66720, 66729>>, <<66736, 66771>>, <<66776, 66811>>, <<66816, 66855>>,
    <<66864, 66915>>, <<66928, 66938>>, <<66940, 66954>>, <<66956, 66962>>,
    <<66964, 66965>>, <<66967, 66977>>, <<66979, 66993>>, <<66995, 67001>>,
    <<67003, 67004>>, <<67072, 67382>>, <<67392, 67413>>, <<67424, 67431>>,
    <<67456, 67461>>, <<67463, 67504>>, <<67506, 67514>>, <<67584, 67589>>,
    <<67592, 67592>>, <<67594, 67637>>, <<67639, 67640>>, <<67644, 67644>>,
    <<67647, 67669>>, <<67672, 67702>>, <<67705, 67742>>, <<67751, 67759>>,
    <<67808, 67826>>, <<67828, 67829>>, <<67835, 67867>>, <<67872, 67897>>,
    <<67968, 68023>>, <<68028, 68047>>, <<68050, 68096>>, <<68112, 68115>>,
    <<68117, 68119>>, <<68121, 68149>>, <<68160, 68168>>, <<68192, 68222>>,
    <<68224, 68255>>, <<68288, 68295>>, <<68297, 68324>>, <<68331, 68335>>,
    <<68352, 68405>>, <<68416, 68437>>, <<68440, 68466>>, <<68472, 68497>>,
    <<68521, 68527>>, <<68608, 68680>>, <<68736, 68786>>, <<68800, 68850>>,
    <<68858, 68899>>, <<68912, 68921>>, <<69216, 69246>>, <<69248, 69289>>,
    <<69296, 69297>>, <<69376, 69415>>, <<69424, 69445>>, <<69457, 69460>>,
    <<69488, 69505>>, <<69552, 69579>>, <<69600, 69622>>, <<69635, 69687>>,
    <<69714, 69743>>, <<69745, 69746>>, <<69749, 69749>>, <<69763, 69807>>,
    <<69840, 69864>>, <<69872, 69881>>, <<69891, 69926>>, <<69942, 69951>>,
    <<69956, 69956>>, <<69959, 69959>>, <<69968, 70002>>, <<70006, 70006>>,
    <<70019, 70066>>, <<70081, 70084>>, <<70096, 70106>>, <<70108, 70108>>,
    <<70113, 70132>>, <<70144, 70161>>, <<70163, 70187>>, <<70272, 70278>>,
    <<70280, 70280>>, <<70282, 70285>>, <<70287, 70301>>, <<70303, 70312>>,
    <<70320, 70366>>, <<70384, 70393>>, <<70405, 70412>>, <<70415, 70416>>,
    <<70419, 70440>>, <<70442, 70448>>, <<70450, 70451>>, <<70453, 70457>>,
    <<70461, 70461>>, <<70480, 70480>>, <<70493, 70497>>, <<70656, 70708>>,
    <<70727, 70730>>, <<70736, 70745>>, <<70751, 70753>>, <<70784, 70831>>,
    <<70852, 70853>>, <<70855, 70855>>, <<70864, 70873>>, <<71040, 71086>>,
    <<71128, 71131>>, <<71168, 71215>>, <<71236, 71236>>, <<71248, 71257>>,
    <<71296, 71338>>, <<71352, 71352>>, <<71360, 71369>>, <<71424, 71450>>,
    <<71472, 71483>>, <<71488, 71494>>, <<71680, 71723>>, <<71840, 71922>>,
    <<71935, 71942>>, <<71945, 71945>>, <<71948, 71955>>, <<71957, 71958>>,
    <<71960, 71983>>, <<71999, 71999>>, <<72001, 72001>>, <<72016, 72025>>,
    <<72096, 72103>>, <<72106, 72144>>, <<72161, 72161>>, <<72163, 72163>>,
    <<72192, 72192>>, <<72203, 72242>>, <<72250, 72250>>, <<72272, 72272>>,
    <<72284, 72329>>, <<72349, 72349>>, <<72368, 72440>>, <<72704, 72712>>,
    <<72714, 72750>>, <<72768, 72768>>, <<72784, 72812>>, <<72818, 72847>>,
    <<72960, 72966>>, <<72968, 72969>>, <<72971, 73008>>, <<73030, 73030>>,
    <<73040, 73049>>, <<73056, 73061>>, <<73063, 73064>>, <<73066, 73097>>,
    <<73112, 73112>>, <<73120, 73129>>, <<73440, 73458>>, <<73648, 73648>>,
    <<73664, 73684>>, <<73728, 74649>>, <<74752, 74862>>, <<74880, 75075>>,
    <<77712, 77808>>, <<77824, 78894>>, <<82944, 83526>>, <<92160, 92728>>,
    <<92736, 92766>>, <<92768, 92777>>, <<92784, 92862>>, <<92864, 92873>>,
    <<92880, 92909>>, <<92928, 92975>>, <<92992, 92995>>, <<93008, 93017>>,
    <<93019, 93025>>, <<93027, 93047>>, <<93053, 93071>>, <<93760, 93846>>,
    <<93952, 94026>>, <<94032, 94032>>, <<94099, 94111>>, <<94176, 94177>>,
    <<94179, 94179>>, <<94208, 100343>>, <<100352, 101589>>,
    <<101632, 101640>>, <<110576, 110579>>, <<110581, 110587>>,
    <<110589, 110590>>, <<110592, 110882>>, <<110928, 110930>>,
    <<110948, 110951>>, <<110960, 111355>>, <<113664, 113770>>,
    <<113776, 113788>>, <<113792, 113800>>, <<113808, 113817>>,
    <<119520, 119539>>, <<119648, 119672>>, <<119808, 119892>>,
    <<119894, 119964>>, <<119966, 119967>>, <<119970, 119970>>,
    <<119973, 119974>>, <<119977, 119980>>, <<119982, 119993>>,
    <<119995, 119995>>, <<119997, 120003>>, <<120005, 120069>>,
    <<120071, 120074>>, <<120077, 120084>>, <<120086, 120092>>,
    <<120094, 120121>>, <<120123, 120126>>, <<120128, 120132>>,
    <<120134, 120134>>, <<120138, 120144>>, <<120146, 120485>>,
    <<120488, 120512>>, <<120514, 120538>>, <<120540, 120570>>,
    <<120572, 120596>>, <<120598, 120628>>, <<120630, 120654>>,
    <<120656, 120686>>, <<120688, 120712>>, <<120714, 120744>>,
    <<120746, 120770>>, <<120772, 120779>>, <<120782, 120831>>,
    <<122624, 122654>>, <<123136, 123180>>, <<123191, 123197>>,
    <<123200, 123209>>, <<123214, 123214>>, <<123536, 123565>>,
    <<123584, 123627>>, <<123632, 123641>>, <<124896, 124902>>,
    <<124904, 124907>>, <<124909, 124910>>, <<124912, 124926>>,
    <<124928, 125124>>, <<125127, 125135>>, <<125184, 125251>>,
    <<125259, 125259>>, <<125264, 125273>>, <<126065, 126123>>,
    <<126125, 126127>>, <<126129, 126132>>, <<126209, 126253>>,
    <<126255, 126269>>, <<126464, 126467>>, <<126469, 126495>>,
    <<126497, 126498>>, <<126500, 126500>>, <<126503, 126503>>,
    <<126505, 126514>>, <<126516, 126519>>, <<126521, 126521>>,
    <<126523, 126523>>, <<126530, 126530>>, <<126535, 126535>>,
    <<126537, 126537>>, <<126539, 126539>>, <<126541, 126543>>,
    <<126545, 126546>>, <<126548, 126548>>, <<126551, 126551>>,
    <<126553, 126553>>, <<126555, 126555>>, <<126557, 126557>>,
    <<126559, 126559>>, <<126561, 126562>>, <<126564, 126564>>,
    <<126567, 126570>>, <<126572, 126578>>, <<126580, 126583>>,
    <<126585, 126588>>, <<126590, 126590>>, <<126592, 126601>>,
    <<126603, 126619>>, <<126625, 126627>>, <<126629, 126633>>,
    <<126635, 126651>>, <<127232, 127244>>, <<130032, 130041>>,
    <<131072, 173791>>, <<173824, 177976>>, <<177984, 178205>>,
    <<178208, 183969>>, <<183984, 191456>>, <<194560, 195101>>,
    <<196608, 201546>> }

(* the characters an identifier may start with, and may go on with *)
XidStart ==
  { <<65, 90>>, <<95, 95>>, <<97, 122>>, <<170, 170>>, <<181, 181>>,
    <<186, 186>>, <<192, 214>>, <<216, 246>>, <<248, 705>>, <<710, 721>>,
    <<736, 740>>, <<748, 748>>, <<750, 750>>, <<880, 884>>, <<886, 887>>,
    <<891, 893>>, <<895, 895>>, <<902, 902>>, <<904, 906>>, <<908, 908>>,
    <<910, 929>>, <<931, 1013>>, <<1015, 1153>>, <<1162, 1327>>,
    <<1329, 1366>>, <<1369, 1369>>, <<1376, 1416>>, <<1488, 1514>>,
    <<1519, 1522>>, <<1568, 1610>>, <<1646, 1647>>, <<1649, 1747>>,
    <<1749, 1749>>, <<1765, 1766>>, <<1774, 1775>>, <<1786, 1788>>,
    <<1791, 1791>>, <<1808, 1808>>, <<1810, 1839>>, <<1869, 1957>>,
    <<1969, 1969>>, <<1994, 2026>>, <<2036, 2037>>, <<2042, 2042>>,
    <<2048, 2069>>, <<2074, 2074>>, <<2084, 2084>>, <<2088, 2088>>,
    <<2112, 2136>>, <<2144, 2154>>, <<2160, 2183>>, <<2185, 2190>>,
    <<2208, 2249>>, <<2308, 2361>>, <<2365, 2365>>, <<2384, 2384>>,
    <<2392, 2401>>, <<2417, 2432>>, <<2437, 2444>>, <<2447, 2448>>,
    <<2451, 2472>>, <<2474, 2480>>, <<2482, 2482>>, <<2486, 2489>>,
    <<2493, 2493>>, <<2510, 2510>>, <<2524, 2525>>, <<2527, 2529>>,
    <<2544, 2545>>, <<2556, 2556>>, <<2565, 2570>>, <<2575, 2576>>,
    <<2579, 2600>>, <<2602, 2608>>, <<2610, 2611>>, <<2613, 2614>>,
    <<2616, 2617>>, <<2649, 2652>>, <<2654, 2654>>, <<2674, 2676>>,
    <<2693, 2701>>, <<2703, 2705>>, <<2707, 2728>>, <<2730, 2736>>,
    <<2738, 2739>>, <<2741, 2745>>, <<2749, 2749>>, <<2768, 2768>>,
    <<2784, 2785>>, <<2809, 2809>>, <<2821, 2828>>, <<2831, 2832>>,
    <<2835, 2856>>, <<2858, 2864>>, <<2866, 2867>>, <<2869, 2873>>,
    <<2877, 2877>>, <<2908, 2909>>, <<2911, 2913>>, <<2929, 2929>>,
    <<2947, 2947>>, <<2949, 2954>>, <<2958, 2960>>, <<2962, 2965>>,
    <<2969, 2970>>, <<2972, 2972>>, <<2974, 2975>>, <<2979, 2980>>,
    <<2984, 2986>>, <<2990, 3001>>, <<3024, 3024>>, <<3077, 3084>>,
    <<3086, 3088>>, <<3090, 3112>>, <<3114, 3129>>, <<3133, 3133>>,
    <<3160, 3162>>, <<3165, 3165>>, <<3168, 3169>>, <<3200, 3200>>,
    <<3205, 3212>>, <<3214, 3216>>, <<3218, 3240>>, <<3242, 3251>>,
    <<3253, 3257>>, <<3261, 3261>>, <<3293, 3294>>, <<3296, 3297>>,
    <<3313, 3314>>, <<3332, 3340>>, <<3342, 3344>>, <<3346, 3386>>,
    <<3389, 3389>>, <<3406, 3406>>, <<3412, 3414>>, <<3423, 3425>>,
    <<3450, 3455>>, <<3461, 3478>>, <<3482, 3505>>, <<3507, 3515>>,
    <<3517, 3517>>, <<3520, 3526>>, <<3585, 3632>>, <<3634, 3634>>,
    <<3648, 3654>>, <<3713, 3714>>, <<3716, 3716>>, <<3718, 3722>>,
    <<3724, 3747>>, <<3749, 3749>>, <<3751, 3760>>, <<3762, 3762>>,
    <<3773, 3773>>, <<3776, 3780>>, <<3782, 3782>>, <<3804, 3807>>,
    <<3840, 3840>>, <<3904, 3911>>, <<3913, 3948>>, <<3976, 3980>>,
    <<4096, 4138>>, <<4159, 4159>>, <<4176, 4181>>, <<4186, 4189>>,
    <<4193, 4193>>, <<4197, 4198>>, <<4206, 4208>>, <<4213, 4225>>,
    <<4238, 4238>>, <<4256, 4293>>, <<4295, 4295>>, <<4301, 4301>>,
    <<4304, 4346>>, <<4348, 4680>>, <<4682, 4685>>, <<4688, 4694>>,
    <<4696, 4696>>, <<4698, 4701>>, <<4704, 4744>>, <<4746, 4749>>,
    <<4752, 4784>>, <<4786, 4789>>, <<4792, 4798>>, <<4800, 4800>>,
    <<4802, 4805>>, <<4808, 4822>>, <<4824, 4880>>, <<4882, 4885>>,
    <<4888, 4954>>, <<4992, 5007>>, <<5024, 5109>>, <<5112, 5117>>,
    <<5121, 5740>>, <<5743, 5759>>, <<5761, 5786>>, <<5792, 5866>>,
    <<5870, 5880>>, <<5888, 5905>>, <<5919, 5937>>, <<5952, 5969>>,
    <<5984, 5996>>, <<5998, 6000>>, <<6016, 6067>>, <<6103, 6103>>,
    <<6108, 6108>>, <<6176, 6264>>, <<6272, 6312>>, <<6314, 6314>>,
    <<6320, 6389>>, <<6400, 6430>>, <<6480, 6509>>, <<6512, 6516>>,
    <<6528, 6571>>, <<6576, 6601>>, <<6656, 6678>>, <<6688, 6740>>,
    <<6823, 6823>>, <<6917, 6963>>, <<6981, 6988>>, <<7043, 7072>>,
    <<7086, 7087>>, <<7098, 7141>>, <<7168, 7203>>, <<7245, 7247>>,
    <<7258, 7293>>, <<7296, 7304>>, <<7312, 7354>>, <<7357, 7359>>,
    <<7401, 7404>>, <<7406, 7411>>, <<7413, 7414>>, <<7418, 7418>>,
    <<7424, 7615>>, <<7680, 7957>>, <<7960, 7965>>, <<7968, 8005>>,
    <<8008, 8013>>, <<8016, 8023>>, <<8025, 8025>>, <<8027, 8027>>,
    <<8029, 8029>>, <<8031, 8061>>, <<8064, 8116>>, <<8118, 8124>>,
    <<8126, 8126>>, <<8130, 8132>>, <<8134, 8140>>, <<8144, 8147>>,
    <<8150, 8155>>, <<8160, 8172>>, <<8178, 8180>>, <<8182, 8188>>,
    <<8305, 8305>>, <<8319, 8319>>, <<8336, 8348>>, <<8450, 8450>>,
    <<8455, 8455>>, <<8458, 8467>>, <<8469, 8469>>, <<8472, 8477>>,
    <<8484, 8484>>, <<8486, 8486>>, <<8488, 8488>>, <<8490, 8505>>,
    <<8508, 8511>>, <<8517, 8521>>, <<8526, 8526>>, <<8544, 8584>>,
    <<11264, 11492>>, <<11499, 11502>>, <<11506, 11507>>, <<11520, 11557>>,
    <<11559, 11559>>, <<11565, 11565>>, <<11568, 11623>>, <<11631, 11631>>,
    <<11648, 11670>>, <<11680, 11686>>, <<11688, 11694>>, <<11696, 11702>>,
    <<11704, 11710>>, <<11712, 11718>>, <<11720, 11726>>, <<11728, 11734>>,
    <<11736, 11742>>, <<12293, 12295>>, <<12321, 12329>>, <<12337, 12341>>,
    <<12344, 12348>>, <<12353, 12438>>, <<12445, 12447>>, <<12449, 12538>>,
    <<12540, 12543>>, <<12549, 12591>>, <<12593, 12686>>, <<12704, 12735>>,
    <<12784, 12799>>, <<13312, 19903>>, <<19968, 42124>>, <<42192, 42237>>,
    <<42240, 42508>>, <<42512, 42527>>, <<42538, 42539>>, <<42560, 42606>>,
    <<42623, 42653>>, <<42656, 42735>>, <<42775, 42783>>, <<42786, 42888>>,
    <<42891, 42954>>, <<42960, 42961>>, <<42963, 42963>>, <<42965, 42969>>,
    <<42994, 43009>>, <<43011, 43013>>, <<43015, 43018>>, <<43020, 43042>>,
    <<43072, 43123>>, <<43138, 43187>>, <<43250, 43255>>, <<43259, 43259>>,
    <<43261, 43262>>, <<43274, 43301>>, <<43312, 43334>>, <<43360, 43388>>,
    <<43396, 43442>>, <<43471, 43471>>, <<43488, 43492>>, <<43494, 43503>>,
    <<43514, 43518>>, <<43520, 43560>>, <<43584, 43586>>, <<43588, 43595>>,
    <<43616, 43638>>, <<43642, 43642>>, <<43646, 43695>>, <<43697, 43697>>,
    <<43701, 43702>>, <<43705, 43709>>, <<43712, 43712>>, <<43714, 43714>>,
    <<43739, 43741>>, <<43744, 43754>>, <<43762, 43764>>, <<43777, 43782>>,
    <<43785, 43790>>, <<43793, 43798>>, <<43808, 43814>>, <<43816, 43822>>,
    <<43824, 43866>>, <<43868, 43881>>, <<43888, 44002>>, <<44032, 55203>>,
    <<55216, 55238>>, <<55243, 55291>>, <<63744, 64109>>, <<64112, 64217>>,
    <<64256, 64262>>, <<64275, 64279>>, <<64285, 64285>>, <<64287, 64296>>,
    <<64298, 64310>>, <<64312, 64316>>, <<64318, 64318>>, <<64320, 64321>>,
    <<64323, 64324>>, <<64326, 64433>>, <<64467, 64605>>, <<64612, 64829>>,
    <<64848, 64911>>, <<64914, 64967>>, <<65008, 65017>>, <<65137, 65137>>,
    <<65139, 65139>>, <<65143, 65143>>, <<65145, 65145>>, <<65147, 65147>>,
    <<65149, 65149>>, <<65151, 65276>>, <<65313, 65338>>, <<65345, 65370>>,
    <<65382, 65437>>, <<65440, 65470>>, <<65474, 65479>>, <<65482, 65487>>,
    <<65490, 65495>>, <<65498, 65500>>, <<65536, 65547>>, <<65549, 65574>>,
    <<65576, 65594>>, <<65596, 65597>>, <<65599, 65613>>, <<65616, 65629>>,
    <<65664, 65786>>, <<65856, 65908>>, <<66176, 66204>>, <<66208, 66256>>,
    <<66304, 66335>>, <<66349, 66378>>, <<66384, 66421>>, <<66432, 66461>>,
    <<66464, 66499>>, <<66504, 66511>>, <<66513, 66517>>, <<66560, 66717>>,
    <<66736, 66771>>, <<66776, 66811>>, <<66816, 66855>>, <<66864, 66915>>,
    <<66928, 66938>>, <<66940, 66954>>, <<66956, 66962>>, <<66964, 66965>>,
    <<66967, 66977>>, <<66979, 66993>>, <<66995, 67001>>, <<67003, 67004>>,
    <<67072, 67382>>, <<67392, 67413>>, <<67424, 67431>>, <<67456, 67461>>,
    <<67463, 67504>>, <<67506, 67514>>, <<67584, 67589>>, <<67592, 67592>>,
    <<67594, 67637>>, <<67639, 67640>>, <<67644, 67644>>, <<67647, 67669>>,
    <<67680, 67702>>, <<67712, 67742>>, <<67808, 67826>>, <<67828, 67829>>,
    <<67840, 67861>>, <<67872, 67897>>, <<67968, 68023>>, <<68030, 68031>>,
    <<68096, 68096>>, <<68112, 68115>>, <<68117, 68119>>, <<68121, 68149>>,
    <<68192, 68220>>, <<68224, 68252>>, <<68288, 68295>>, <<68297, 68324>>,
    <<68352, 68405>>, <<68416, 68437>>, <<68448, 68466>>, <<68480, 68497>>,
    <<68608, 68680>>, <<68736, 68786>>, <<68800, 68850>>, <<68864, 68899>>,
    <<69248, 69289>>, <<69296, 69297>>, <<69376, 69404>>, <<69415, 69415>>,
    <<69424, 69445>>, <<69488, 69505>>, <<69552, 69572>>, <<69600, 69622>>,
    <<69635, 69687>>, <<69745, 69746>>, <<69749, 69749>>, <<69763, 69807>>,
    <<69840, 69864>>, <<69891, 69926>>, <<69956, 69956>>, <<69959, 69959>>,
    <<69968, 70002>>, <<70006, 70006>>, <<70019, 70066>>, <<70081, 70084>>,
    <<70106, 70106>>, <<70108, 70108>>, <<70144, 70161>>, <<70163, 70187>>,
    <<70272, 70278>>, <<70280, 70280>>, <<70282, 70285>>, <<70287, 70301>>,
    <<70303, 70312>>, <<70320, 70366>>, <<70405, 70412>>, <<70415, 70416>>,
    <<70419, 70440>>, <<70442, 70448>>, <<70450, 70451>>, <<70453, 70457>>,
    <<70461, 70461>>, <<70480, 70480>>, <<70493, 70497>>, <<70656, 70708>>,
    <<70727, 70730>>, <<70751, 70753>>, <<70784, 70831>>, <<70852, 70853>>,
    <<70855, 70855>>, <<71040, 71086>>, <<71128, 71131>>, <<71168, 71215>>,
    <<71236, 71236>>, <<71296, 71338>>, <<71352, 71352>>, <<71424, 71450>>,
    <<71488, 71494>>, <<71680, 71723>>, <<71840, 71903>>, <<71935, 71942>>,
    <<71945, 71945>>, <<71948, 71955>>, <<71957, 71958>>, <<71960, 71983>>,
    <<71999, 71999>>, <<72001, 72001>>, <<72096, 72103>>, <<72106, 72144>>,
    <<72161, 72161>>, <<72163, 72163>>, <<72192, 72192>>, <<72203, 72242>>,
    <<72250, 72250>>, <<72272, 72272>>, <<72284, 72329>>, <<72349, 72349>>,
    <<72368, 72440>>, <<72704, 72712>>, <<72714, 72750>>, <<72768, 72768>>,
    <<72818, 72847>>, <<72960, 72966>>, <<72968, 72969>>, <<72971, 73008>>,
    <<73030, 73030>>, <<73056, 73061>>, <<73063, 73064>>, <<73066, 73097>>,
    <<73112, 73112>>, <<73440, 73458>>, <<73648, 73648>>, <<73728, 74649>>,
    <<74752, 74862>>, <<74880, 75075>>, <<77712, 77808>>, <<77824, 78894>>,
    <<82944, 83526>>, <<92160, 92728>>, <<92736, 92766>>, <<92784, 92862>>,
    <<92880, 92909>>, <<92928, 92975>>, <<92992, 92995>>, <<93027, 93047>>,
    <<93053, 93071>>, <<93760, 93823>>, <<93952, 94026>>, <<94032, 94032>>,
    <<94099, 94111>>, <<94176, 94177>>, <<94179, 94179>>, <<94208, 100343>>,
    <<100352, 101589>>, <<101632, 101640>>, <<110576, 110579>>,
    <<110581, 110587>>, <<110589, 110590>>, <<110592, 110882>>,
    <<110928, 110930>>, <<110948, 110951>>, <<110960, 111355>>,
    <<113664, 113770>>, <<113776, 113788>>, <<113792, 113800>>,
    <<113808, 113817>>, <<119808, 119892>>, <<119894, 119964>>,
    <<119966, 119967>>, <<119970, 119970>>, <<119973, 119974>>,
    <<119977, 119980>>, <<119982, 119993>>, <<119995, 119995>>,
    <<119997, 120003>>, <<120005, 120069>>, <<120071, 120074>>,
    <<120077, 120084>>, <<120086, 120092>>, <<120094, 120121>>,
    <<120123, 120126>>, <<120128, 120132>>, <<120134, 120134>>,
    <<120138, 120144>>, <<120146, 120485>>, <<120488, 120512>>,
    <<120514, 120538>>, <<120540, 120570>>, <<120572, 120596>>,
    <<120598, 120628>>, <<120630, 120654>>, <<120656, 120686>>,
    <<120688, 120712>>, <<120714, 120744>>, <<120746, 120770>>,
    <<120772, 120779>>, <<122624, 122654>>, <<123136, 123180>>,
    <<123191, 123197>>, <<123214, 123214>>, <<123536, 123565>>,
    <<123584, 123627>>, <<124896, 124902>>, <<124904, 124907>>,
    <<124909, 124910>>, <<124912, 124926>>, <<124928, 125124>>,
    <<125184, 125251>>, <<125259, 125259>>, <<126464, 126467>>,
    <<126469, 126495>>, <<126497, 126498>>, <<126500, 126500>>,
    <<126503, 126503>>, <<126505, 126514>>, <<126516, 126519>>,
    <<126521, 126521>>, <<126523, 126523>>, <<126530, 126530>>,
    <<126535, 126535>>, <<126537, 126537>>, <<126539, 126539>>,
    <<126541, 126543>>, <<126545, 126546>>, <<126548, 126548>>,
    <<126551, 126551>>, <<126553, 126553>>, <<126555, 126555>>,
    <<126557, 126557>>, <<126559, 126559>>, <<126561, 126562>>,
    <<126564, 126564>>, <<126567, 126570>>, <<126572, 126578>>,
    <<126580, 126583>>, <<126585, 126588>>, <<126590, 126590>>,
    <<126592, 126601>>, <<126603, 126619>>, <<126625, 126627>>,
    <<126629, 126633>>, <<126635, 126651>>, <<131072, 173791>>,
    <<173824, 177976>>, <<177984, 178205>>, <<178208, 183969>>,
    <<183984, 191456>>, <<194560, 195101>>, <<196608, 201546>> }

XidContinue ==
  { <<48, 57>>, <<65, 90>>, <<95, 95>>, <<97, 122>>, <<170, 170>>,
    <<181, 181>>, <<183, 183>>, <<186, 186>>, <<192, 214>>, <<216, 246>>,
    <<248, 705>>, <<710, 721>>, <<736, 740>>, <<748, 748>>, <<750, 750>>,
    <<768, 884>>, <<886, 887>>, <<891, 893>>, <<895, 895>>, <<902, 906>>,
    <<908, 908>>, <<910, 929>>, <<931, 1013>>, <<1015, 1153>>,
    <<1155, 1159>>, <<1162, 1327>>, <<1329, 1366>>, <<1369, 1369>>,
    <<1376, 1416>>, <<1425, 1469>>, <<1471, 1471>>, <<1473, 1474>>,
    <<1476, 1477>>, <<1479, 1479>>, <<1488, 1514>>, <<1519, 1522>>,
    <<1552, 1562>>, <<1568, 1641>>, <<1646, 1747>>, <<1749, 1756>>,
    <<1759, 1768>>, <<1770, 1788>>, <<1791, 1791>>, <<1808, 1866>>,
    <<1869, 1969>>, <<1984, 2037>>, <<2042, 2042>>, <<2045, 2045>>,
    <<2048, 2093>>, <<2112, 2139>>, <<2144, 2154>>, <<2160, 2183>>,
    <<2185, 2190>>, <<2200, 2273>>, <<2275, 2403>>, <<2406, 2415>>,
    <<2417, 2435>>, <<2437, 2444>>, <<2447, 2448>>, <<2451, 2472>>,
    <<2474, 2480>>, <<2482, 2482>>, <<2486, 2489>>, <<2492, 2500>>,
    <<2503, 2504>>, <<2507, 2510>>, <<2519, 2519>>, <<2524, 2525>>,
    <<2527, 2531>>, <<2534, 2545>>, <<2556, 2556>>, <<2558, 2558>>,
    <<2561, 2563>>, <<2565, 2570>>, <<2575, 2576>>, <<2579, 2600>>,
    <<2602, 2608>>, <<2610, 2611>>, <<2613, 2614>>, <<2616, 2617>>,
    <<2620, 2620>>, <<2622, 2626>>, <<2631, 2632>>, <<2635, 2637>>,
    <<2641, 2641>>, <<2649, 2652>>, <<2654, 2654>>, <<2662, 2677>>,
    <<2689, 2691>>, <<2693, 2701>>, <<2703, 2705>>, <<2707, 2728>>,
    <<2730, 2736>>, <<2738, 2739>>, <<2741, 2745>>, <<2748, 2757>>,
    <<2759, 2761>>, <<2763, 2765>>, <<2768, 2768>>, <<2784, 2787>>,
    <<2790, 2799>>, <<2809, 2815>>, <<2817, 2819>>, <<2821, 2828>>,
    <<2831, 2832>>, <<2835, 2856>>, <<2858, 2864>>, <<2866, 2867>>,
    <<2869, 2873>>, <<2876, 2884>>, <<2887, 2888>>, <<2891, 2893>>,
    <<2901, 2903>>, <<2908, 2909>>, <<2911, 2915>>, <<2918, 2927>>,
    <<2929, 2929>>, <<2946, 2947>>, <<2949, 2954>>, <<2958, 2960>>,
    <<2962, 2965>>, <<2969, 2970>>, <<2972, 2972>>, <<2974, 2975>>,
    <<2979, 2980>>, <<2984, 2986>>, <<2990, 3001>>, <<3006, 3010>>,
    <<3014, 3016>>, <<3018, 3021>>, <<3024, 3024>>, <<3031, 3031>>,
    <<3046, 3055>>, <<3072, 3084>>, <<3086, 3088>>, <<3090, 3112>>,
    <<3114, 3129>>, <<3132, 3140>>, <<3142, 3144>>, <<3146, 3149>>,
    <<3157, 3158>>, <<3160, 3162>>, <<3165, 3165>>, <<3168, 3171>>,
    <<3174, 3183>>, <<3200, 3203>>, <<3205, 3212>>, <<3214, 3216>>,
    <<3218, 3240>>, <<3242, 3251>>, <<3253, 3257>>, <<3260, 3268>>,
    <<3270, 3272>>, <<3274, 3277>>, <<3285, 3286>>, <<3293, 3294>>,
    <<3296, 3299>>, <<3302, 3311>>, <<3313, 3314>>, <<3328, 3340>>,
    <<3342, 3344>>, <<3346, 3396>>, <<3398, 3400>>, <<3402, 3406>>,
    <<3412, 3415>>, <<3423, 3427>>, <<3430, 3439>>, <<3450, 3455>>,
    <<3457, 3459>>, <<3461, 3478>>, <<3482, 3505>>, <<3507, 3515>>,
    <<3517, 3517>>, <<3520, 3526>>, <<3530, 3530>>, <<3535, 3540>>,
    <<3542, 3542>>, <<3544, 3551>>, <<3558, 3567>>, <<3570, 3571>>,
    <<3585, 3642>>, <<3648, 3662>>, <<3664, 3673>>, <<3713, 3714>>,
    <<3716, 3716>>, <<3718, 3722>>, <<3724, 3747>>, <<3749, 3749>>,
    <<3751, 3773>>, <<3776, 3780>>, <<3782, 3782>>, <<3784, 3789>>,
    <<3792, 3801>>, <<3804, 3807>>, <<3840, 3840>>, <<3864, 3865>>,
    <<3872, 3881>>, <<3893, 3893>>, <<3895, 3895>>, <<3897, 3897>>,
    <<3902, 3911>>, <<3913, 3948>>, <<3953, 3972>>, <<3974, 3991>>,
    <<3993, 4028>>, <<4038, 4038>>, <<4096, 4169>>, <<4176, 4253>>,
    <<4256, 4293>>, <<4295, 4295>>, <<4301, 4301>>, <<4304, 4346>>,
    <<4348, 4680>>, <<4682, 4685>>, <<4688, 4694>>, <<4696, 4696>>,
    <<4698, 4701>>, <<4704, 4744>>, <<4746, 4749>>, <<4752, 4784>>,
    <<4786, 4789>>, <<4792, 4798>>, <<4800, 4800>>, <<4802, 4805>>,
    <<4808, 4822>>, <<4824, 4880>>, <<4882, 4885>>, <<4888, 4954>>,
    <<4957, 4959>>, <<4969, 4977>>, <<4992, 5007>>, <<5024, 5109>>,
    <<5112, 5117>>, <<5121, 5740>>, <<5743, 5759>>, <<5761, 5786>>,
    <<5792, 5866>>, <<5870, 5880>>, <<5888, 5909>>, <<5919, 5940>>,
    <<5952, 5971>>, <<5984, 5996>>, <<5998, 6000>>, <<6002, 6003>>,
    <<6016, 6099>>, <<6103, 6103>>, <<6108, 6109>>, <<6112, 6121>>,
    <<6155, 6157>>, <<6159, 6169>>, <<6176, 6264>>, <<6272, 6314>>,
    <<6320, 6389>>, <<6400, 6430>>, <<6432, 6443>>, <<6448, 6459>>,
    <<6470, 6509>>, <<6512, 6516>>, <<6528, 6571>>, <<6576, 6601>>,
    <<6608, 6618>>, <<6656, 6683>>, <<6688, 6750>>, <<6752, 6780>>,
    <<6783, 6793>>, <<6800, 6809>>, <<6823, 6823>>, <<6832, 6845>>,
    <<6847, 6862>>, <<6912, 6988>>, <<6992, 7001>>, <<7019, 7027>>,
    <<7040, 7155>>, <<7168, 7223>>, <<7232, 7241>>, <<7245, 7293>>,
    <<7296, 7304>>, <<7312, 7354>>, <<7357, 7359>>, <<7376, 7378>>,
    <<7380, 7418>>, <<7424, 7957>>, <<7960, 7965>>, <<7968, 8005>>,
    <<8008, 8013>>, <<8016, 8023>>, <<8025, 8025>>, <<8027, 8027>>,
    <<8029, 8029>>, <<8031, 8061>>, <<8064, 8116>>, <<8118, 8124>>,
    <<8126, 8126>>, <<8130, 8132>>, <<8134, 8140>>, <<8144, 8147>>,
    <<8150, 8155>>, <<8160, 8172>>, <<8178, 8180>>, <<8182, 8188>>,
    <<8255, 8256>>, <<8276, 8276>>, <<8305, 8305>>, <<8319, 8319>>,
    <<8336, 8348>>, <<8400, 8412>>, <<8417, 8417>>, <<8421, 8432>>,
    <<8450, 8450>>, <<8455, 8455>>, <<8458, 8467>>, <<8469, 8469>>,
    <<8472, 8477>>, <<8484, 8484>>, <<8486, 8486>>, <<8488, 8488>>,
    <<8490, 8505>>, <<8508, 8511>>, <<8517, 8521>>, <<8526, 8526>>,
    <<8544, 8584>>, <<11264, 11492>>, <<11499, 11507>>, <<11520, 11557>>,
    <<11559, 11559>>, <<11565, 11565>>, <<11568, 11623>>, <<11631, 11631>>,
    <<11647, 11670>>, <<11680, 11686>>, <<11688, 11694>>, <<11696, 11702>>,
    <<11704, 11710>>, <<11712, 11718>>, <<11720, 11726>>, <<11728, 11734>>,
    <<11736, 11742>>, <<11744, 11775>>, <<12293, 12295>>, <<12321, 12335>>,
    <<12337, 12341>>, <<12344, 12348>>, <<12353, 12438>>, <<12441, 12442>>,
    <<12445, 12447>>, <<12449, 12538>>, <<12540, 12543>>, <<12549, 12591>>,
    <<12593, 12686>>, <<12704, 12735>>, <<12784, 12799>>, <<13312, 19903>>,
    <<19968, 42124>>, <<42192, 42237>>, <<42240, 42508>>, <<42512, 42539>>,
    <<42560, 42607>>, <<42612, 42621>>, <<42623, 42737>>, <<42775, 42783>>,
    <<42786, 42888>>, <<42891, 42954>>, <<42960, 42961>>, <<42963, 42963>>,
    <<42965, 42969>>, <<42994, 43047>>, <<43052, 43052>>, <<43072, 43123>>,
    <<43136, 43205>>, <<43216, 43225>>, <<43232, 43255>>, <<43259, 43259>>,
    <<43261, 43309>>, <<43312, 43347>>, <<43360, 43388>>, <<43392, 43456>>,
    <<43471, 43481>>, <<43488, 43518>>, <<43520, 43574>>, <<43584, 43597>>,
    <<43600, 43609>>, <<43616, 43638>>, <<43642, 43714>>, <<43739, 43741>>,
    <<43744, 43759>>, <<43762, 43766>>, <<43777, 43782>>, <<43785, 43790>>,
    <<43793, 43798>>, <<43808, 43814>>, <<43816, 43822>>, <<43824, 43866>>,
    <<43868, 43881>>, <<43888, 44010>>, <<44012, 44013>>, <<44016, 44025>>,
    <<44032, 55203>>, <<55216, 55238>>, <<55243, 55291>>, <<63744, 64109>>,
    <<64112, 64217>>, <<64256, 64262>>, <<64275, 64279>>, <<64285, 64296>>,
    <<64298, 64310>>, <<64312, 64316>>, <<64318, 64318>>, <<64320, 64321>>,
    <<64323, 64324>>, <<64326, 64433>>, <<64467, 64605>>, <<64612, 64829>>,
    <<64848, 64911>>, <<64914, 64967>>, <<65008, 65017>>, <<65024, 65039>>,
    <<65056, 65071>>, <<65075, 65076>>, <<65101, 65103>>, <<65137, 65137>>,
    <<65139, 65139>>, <<65143, 65143>>, <<65145, 65145>>, <<65147, 65147>>,
    <<65149, 65149>>, <<65151, 65276>>, <<65296, 65305>>, <<65313, 65338>>,
    <<65343, 65343>>, <<65345, 65370>>, <<65382, 65470>>, <<65474, 65479>>,
    <<65482, 65487>>, <<65490, 65495>>, <<65498, 65500>>, <<65536, 65547>>,
    <<65549, 65574>>, <<65576, 65594>>, <<65596, 65597>>, <<65599, 65613>>,
    <<65616, 65629>>, <<65664, 65786>>, <<65856, 65908>>, <<66045, 66045>>,
    <<66176, 66204>>, <<66208, 66256>>, <<66272, 66272>>, <<66304, 66335>>,
    <<66349, 66378>>, <<66384, 66426>>, <<66432, 66461>>, <<66464, 66499>>,
    <<66504, 66511>>, <<66513, 66517>>, <<66560, 66717>>, <<66720, 66729>>,
    <<66736, 66771>>, <<66776, 66811>>, <<66816, 66855>>, <<66864, 66915>>,
    <<66928, 66938>>, <<66940, 66954>>, <<66956, 66962>>, <<66964, 66965>>,
    <<66967, 66977>>, <<66979, 66993>>, <<66995, 67001>>, <<67003, 67004>>,
    <<67072, 67382>>, <<67392, 67413>>, <<67424, 67431>>, <<67456, 67461>>,
    <<67463, 67504>>, <<67506, 67514>>, <<67584, 67589>>, <<67592, 67592>>,
    <<67594, 67637>>, <<67639, 67640>>, <<67644, 67644>>, <<67647, 67669>>,
    <<67680, 67702>>, <<67712, 67742>>, <<67808, 67826>>, <<67828, 67829>>,
    <<67840, 67861>>, <<67872, 67897>>, <<67968, 68023>>, <<68030, 68031>>,
    <<68096, 68099>>, <<68101, 68102>>, <<68108, 68115>>, <<68117, 68119>>,
    <<68121, 68149>>, <<68152, 68154>>, <<68159, 68159>>, <<68192, 68220>>,
    <<68224, 68252>>, <<68288, 68295>>, <<68297, 68326>>, <<68352, 68405>>,
    <<68416, 68437>>, <<68448, 68466>>, <<68480, 68497>>, <<68608, 68680>>,
    <<68736, 68786>>, <<68800, 68850>>, <<68864, 68903>>, <<68912, 68921>>,
    <<69248, 69289>>, <<69291, 69292>>, <<69296, 69297>>, <<69376, 69404>>,
    <<69415, 69415>>, <<69424, 69456>>, <<69488, 69509>>, <<69552, 69572>>,
    <<69600, 69622>>, <<69632, 69702>>, <<69734, 69749>>, <<69759, 69818>>,
    <<69826, 69826>>, <<69840, 69864>>, <<69872, 69881>>, <<69888, 69940>>,
    <<69942, 69951>>, <<69956, 69959>>, <<69968, 70003>>, <<70006, 70006>>,
    <<70016, 70084>>, <<70089, 70092>>, <<70094, 70106>>, <<70108, 70108>>,
    <<70144, 70161>>, <<70163, 70199>>, <<70206, 70206>>, <<70272, 70278>>,
    <<70280, 70280>>, <<70282, 70285>>, <<70287, 70301>>, <<70303, 70312>>,
    <<70320, 70378>>, <<70384, 70393>>, <<70400, 70403>>, <<70405, 70412>>,
    <<70415, 70416>>, <<70419, 70440>>, <<70442, 70448>>, <<70450, 70451>>,
    <<70453, 70457>>, <<70459, 70468>>, <<70471, 70472>>, <<70475, 70477>>,
    <<70480, 70480>>, <<70487, 70487>>, <<70493, 70499>>, <<70502, 70508>>,
    <<70512, 70516>>, <<70656, 70730>>, <<70736, 70745>>, <<70750, 70753>>,
    <<70784, 70853>>, <<70855, 70855>>, <<70864, 70873>>, <<71040, 71093>>,
    <<71096, 71104>>, <<71128, 71133>>, <<71168, 71232>>, <<71236, 71236>>,
    <<71248, 71257>>, <<71296, 71352>>, <<71360, 71369>>, <<71424, 71450>>,
    <<71453, 71467>>, <<71472, 71481>>, <<71488, 71494>>, <<71680, 71738>>,
    <<71840, 71913>>, <<71935, 71942>>, <<71945, 71945>>, <<71948, 71955>>,
    <<71957, 71958>>, <<71960, 71989>>, <<71991, 71992>>, <<71995, 72003>>,
    <<72016, 72025>>, <<72096, 72103>>, <<72106, 72151>>, <<72154, 72161>>,
    <<72163, 72164>>, <<72192, 72254>>, <<72263, 72263>>, <<72272, 72345>>,
    <<72349, 72349>>, <<72368, 72440>>, <<72704, 72712>>, <<72714, 72758>>,
    <<72760, 72768>>, <<72784, 72793>>, <<72818, 72847>>, <<72850, 72871>>,
    <<72873, 72886>>, <<72960, 72966>>, <<72968, 72969>>, <<72971, 73014>>,
    <<73018, 73018>>, <<73020, 73021>>, <<73023, 73031>>, <<73040, 73049>>,
    <<73056, 73061>>, <<73063, 73064>>, <<73066, 73102>>, <<73104, 73105>>,
    <<73107, 73112>>, <<73120, 73129>>, <<73440, 73462>>, <<73648, 73648>>,
    <<73728, 74649>>, <<74752, 74862>>, <<74880, 75075>>, <<77712, 77808>>,
    <<77824, 78894>>, <<82944, 83526>>, <<92160, 92728>>, <<92736, 92766>>,
    <<92768, 92777>>, <<92784, 92862>>, <<92864, 92873>>, <<92880, 92909>>,
    <<92912, 92916>>, <<92928, 92982>>, <<92992, 92995>>, <<93008, 93017>>,
    <<93027, 93047>>, <<93053, 93071>>, <<93760, 93823>>, <<93952, 94026>>,
    <<94031, 94087>>, <<94095, 94111>>, <<94176, 94177>>, <<94179, 94180>>,
    <<94192, 94193>>, <<94208, 100343>>, <<100352, 101589>>,
    <<101632, 101640>>, <<110576, 110579>>, <<110581, 110587>>,
    <<110589, 110590>>, <<110592, 110882>>, <<110928, 110930>>,
    <<110948, 110951>>, <<110960, 111355>>, <<113664, 113770>>,
    <<113776, 113788>>, <<113792, 113800>>, <<113808, 113817>>,
    <<113821, 113822>>, <<118528, 118573>>, <<118576, 118598>>,
    <<119141, 119145>>, <<119149, 119154>>, <<119163, 119170>>,
    <<119173, 119179>>, <<119210, 119213>>, <<119362, 119364>>,
    <<119808, 119892>>, <<119894, 119964>>, <<119966, 119967>>,
    <<119970, 119970>>, <<119973, 119974>>, <<119977, 119980>>,
    <<119982, 119993>>, <<119995, 119995>>, <<119997, 120003>>,
    <<120005, 120069>>, <<120071, 120074>>, <<120077, 120084>>,
    <<120086, 120092>>, <<120094, 120121>>, <<120123, 120126>>,
    <<120128, 120132>>, <<120134, 120134>>, <<120138, 120144>>,
    <<120146, 120485>>, <<120488, 120512>>, <<120514, 120538>>,
    <<120540, 120570>>, <<120572, 120596>>, <<120598, 120628>>,
    <<120630, 120654>>, <<120656, 120686>>, <<120688, 120712>>,
    <<120714, 120744>>, <<120746, 120770>>, <<120772, 120779>>,
    <<120782, 120831>>, <<121344, 121398>>, <<121403, 121452>>,
    <<121461, 121461>>, <<121476, 121476>>, <<121499, 121503>>,
    <<121505, 121519>>, <<122624, 122654>>, <<122880, 122886>>,
    <<122888, 122904>>, <<122907, 122913>>, <<122915, 122916>>,
    <<122918, 122922>>, <<123136, 123180>>, <<123184, 123197>>,
    <<123200, 123209>>, <<123214, 123214>>, <<123536, 123566>>,
    <<123584, 123641>>, <<124896, 124902>>, <<124904, 124907>>,
    <<124909, 124910>>, <<124912, 124926>>, <<124928, 125124>>,
    <<125136, 125142>>, <<125184, 125259>>, <<125264, 125273>>,
    <<126464, 126467>>, <<126469, 126495>>, <<126497, 126498>>,
    <<126500, 126500>>, <<126503, 126503>>, <<126505, 126514>>,
    <<126516, 126519>>, <<126521, 126521>>, <<126523, 126523>>,
    <<126530, 126530>>, <<126535, 126535>>, <<126537, 126537>>,
    <<126539, 126539>>, <<126541, 126543>>, <<126545, 126546>>,
    <<126548, 126548>>, <<126551, 126551>>, <<126553, 126553>>,
    <<126555, 126555>>, <<126557, 126557>>, <<126559, 126559>>,
    <<126561, 126562>>, <<126564, 126564>>, <<126567, 126570>>,
    <<126572, 126578>>, <<126580, 126583>>, <<126585, 126588>>,
    <<126590, 126590>>, <<126592, 126601>>, <<126603, 126619>>,
    <<126625, 126627>>, <<126629, 126633>>, <<126635, 126651>>,
    <<130032, 130041>>, <<131072, 173791>>, <<173824, 177976>>,
    <<177984, 178205>>, <<178208, 183969>>, <<183984, 191456>>,
    <<194560, 195101>>, <<196608, 201546>>, <<917760, 917999>> }

(* name.isidentifier() *)
IsIdentifier(name) ==
  /\ name # <<>>
  /\ InRanges(name[1], XidStart)
  /\ \A k \in 2..Len(name) : InRanges(name[k], XidContinue)

(* the characters with another upper case, by the distance to it *)
SreUpperRuns ==
  { <<97, 122, -32>>, <<181, 181, 743>>, <<223, 223, -140>>,
    <<224, 246, -32>>, <<248, 254, -32>>, <<255, 255, 121>>,
    <<305, 305, -232>>, <<329, 329, 371>>, <<383, 383, -300>>,
    <<384, 384, 195>>, <<387, 387, -1>>, <<389, 389, -1>>, <<392, 392, -1>>,
    <<396, 396, -1>>, <<402, 402, -1>>, <<405, 405, 97>>, <<409, 409, -1>>,
    <<410, 410, 163>>, <<414, 414, 130>>, <<424, 424, -1>>, <<429, 429, -1>>,
    <<432, 432, -1>>, <<436, 436, -1>>, <<438, 438, -1>>, <<441, 441, -1>>,
    <<445, 445, -1>>, <<447, 447, 56>>, <<453, 453, -1>>, <<454, 454, -2>>,
    <<456, 456, -1>>, <<457, 457, -2>>, <<459, 459, -1>>, <<460, 460, -2>>,
    <<477, 477, -79>>, <<496, 496, -422>>, <<498, 498, -1>>,
    <<499, 499, -2>>, <<501, 501, -1>>, <<572, 572, -1>>,
    <<575, 576, 10815>>, <<578, 578, -1>>, <<592, 592, 10783>>,
    <<593, 593, 10780>>, <<594, 594, 10782>>, <<595, 595, -210>>,
    <<596, 596, -206>>, <<598, 599, -205>>, <<601, 601, -202>>,
    <<603, 603, -203>>, <<604, 604, 42319>>, <<608, 608, -205>>,
    <<609, 609, 42315>>, <<611, 611, -207>>, <<613, 613, 42280>>,
    <<614, 614, 42308>>, <<616, 616, -209>>, <<617, 617, -211>>,
    <<618, 618, 42308>>, <<619, 619, 10743>>, <<620, 620, 42305>>,
    <<623, 623, -211>>, <<625, 625, 10749>>, <<626, 626, -213>>,
    <<629, 629, -214>>, <<637, 637, 10727>>, <<640, 640, -218>>,
    <<642, 642, 42307>>, <<643, 643, -218>>, <<647, 647, 42282>>,
    <<648, 648, -218>>, <<649, 649, -69>>, <<650, 651, -217>>,
    <<652, 652, -71>>, <<658, 658, -219>>, <<669, 669, 42261>>,
    <<670, 670, 42258>>, <<837, 837, 84>>, <<881, 881, -1>>,
    <<883, 883, -1>>, <<887, 887, -1>>, <<891, 893, 130>>, <<912, 912, 9>>,
    <<940, 940, -38>>, <<941, 943, -37>>, <<944, 944, -11>>,
    <<945, 961, -32>>, <<962, 962, -31>>, <<963, 971, -32>>,
    <<972, 972, -64>>, <<973, 974, -63>>, <<976, 976, -62>>,
    <<977, 977, -57>>, <<981, 981, -47>>, <<982, 982, -54>>,
    <<983, 983, -8>>, <<1008, 1008, -86>>, <<1009, 1009, -80>>,
    <<1010, 1010, 7>>, <<1011, 1011, -116>>, <<1013, 1013, -96>>,
    <<1016, 1016, -1>>, <<1019, 1019, -1>>, <<1072, 1103, -32>>,
    <<1104, 1119, -80>>, <<1231, 1231, -15>>, <<1377, 1414, -48>>,
    <<1415, 1415, -82>>, <<4304, 4346, 3008>>, <<4349, 4351, 3008>>,
    <<5112, 5117, -8>>, <<7296, 7296, -6254>>, <<7297, 7297, -6253>>,
    <<7298, 7298, -6244>>, <<7299, 7300, -6242>>, <<7301, 7301, -6243>>,
    <<7302, 7302, -6236>>, <<7303, 7303, -6181>>, <<7304, 7304, 35266>>,
    <<7545, 7545, 35332>>, <<7549, 7549, 3814>>, <<7566, 7566, 35384>>,
    <<7830, 7830, -7758>>, <<7831, 7831, -7747>>, <<7832, 7832, -7745>>,
    <<7833, 7833, -7744>>, <<7834, 7834, -7769>>, <<7835, 7835, -59>>,
    <<7936, 7943, 8>>, <<7952, 7957, 8>>, <<7968, 7975, 8>>,
    <<7984, 7991, 8>>, <<8000, 8005, 8>>, <<8016, 8016, -7083>>,
    <<8017, 8017, 8>>, <<8018, 8018, -7085>>, <<8019, 8019, 8>>,
    <<8020, 8020, -7087>>, <<8021, 8021, 8>>, <<8022, 8022, -7089>>,
    <<8023, 8023, 8>>, <<8032, 8039, 8>>, <<8048, 8049, 74>>,
    <<8050, 8053, 86>>, <<8054, 8055, 100>>, <<8056, 8057, 128>>,
    <<8058, 8059, 112>>, <<8060, 8061, 126>>, <<8064, 8071, -120>>,
    <<8072, 8079, -128>>, <<8080, 8087, -104>>, <<8088, 8095, -112>>,
    <<8096, 8103, -56>>, <<8104, 8111, -64>>, <<8112, 8114, 8>>,
    <<8115, 8115, -7202>>, <<8116, 8116, -7214>>, <<8118, 8118, -7205>>,
    <<8119, 8119, -7206>>, <<8124, 8124, -7211>>, <<8126, 8126, -7205>>,
    <<8130, 8130, 8>>, <<8131, 8131, -7212>>, <<8132, 8132, -7227>>,
    <<8134, 8134, -7215>>, <<8135, 8135, -7216>>, <<8140, 8140, -7221>>,
    <<8144, 8145, 8>>, <<8146, 8146, -7225>>, <<8147, 8147, -7226>>,
    <<8150, 8150, -7229>>, <<8151, 8151, -7230>>, <<8160, 8161, 8>>,
    <<8162, 8162, -7229>>, <<8163, 8163, -7230>>, <<8164, 8164, -7235>>,
    <<8165, 8165, 7>>, <<8166, 8166, -7233>>, <<8167, 8167, -7234>>,
    <<8178, 8178, 8>>, <<8179, 8179, -7242>>, <<8180, 8180, -7269>>,
    <<8182, 8182, -7245>>, <<8183, 8183, -7246>>, <<8188, 8188, -7251>>,
    <<8526, 8526, -28>>, <<8560, 8575, -16>>, <<8580, 8580, -1>>,
    <<9424, 9449, -26>>, <<11312, 11359, -48>>, <<11361, 11361, -1>>,
    <<11365, 11365, -10795>>, <<11366, 11366, -10792>>, <<11379, 11379, -1>>,
    <<11382, 11382, -1>>, <<11500, 11500, -1>>, <<11502, 11502, -1>>,
    <<11507, 11507, -1>>, <<11520, 11557, -7264>>, <<11559, 11559, -7264>>,
    <<11565, 11565, -7264>>, <<42874, 42874, -1>>, <<42876, 42876, -1>>,
    <<42892, 42892, -1>>, <<42897, 42897, -1>>, <<42899, 42899, -1>>,
    <<42900, 42900, 48>>, <<42952, 42952, -1>>, <<42954, 42954, -1>>,
    <<42961, 42961, -1>>, <<42967, 42967, -1>>, <<42969, 42969, -1>>,
    <<42998, 42998, -1>>, <<43859, 43859, -928>>, <<43888, 43967, -38864>>,
    <<64256, 64256, -64186>>, <<64257, 64257, -64187>>,
    <<64258, 64258, -64188>>, <<64259, 64259, -64189>>,
    <<64260, 64260, -64190>>, <<64261, 64261, -64178>>,
    <<64262, 64262, -64179>>, <<64275, 64275, -62927>>,
    <<64276, 64276, -62928>>, <<64277, 64277, -62929>>,
    <<64278, 64278, -62920>>, <<64279, 64279, -62931>>,
    <<65345, 65370, -32>>, <<66600, 66639, -40>>, <<66776, 66811, -40>>,
    <<66967, 66977, -39>>, <<66979, 66993, -39>>, <<66995, 67001, -39>>,
    <<67003, 67004, -39>>, <<68800, 68850, -64>>, <<71872, 71903, -32>>,
    <<93792, 93823, -32>>, <<125218, 125251, -34>> }

SreUpperAlternate ==
  { <<257, 303, -1>>, <<307, 311, -1>>, <<314, 328, -1>>, <<331, 375, -1>>,
    <<378, 382, -1>>, <<417, 421, -1>>, <<462, 476, -1>>, <<479, 495, -1>>,
    <<505, 543, -1>>, <<547, 563, -1>>, <<583, 591, -1>>, <<985, 1007, -1>>,
    <<1121, 1153, -1>>, <<1163, 1215, -1>>, <<1218, 1230, -1>>,
    <<1233, 1327, -1>>, <<7681, 7829, -1>>, <<7841, 7935, -1>>,
    <<11368, 11372, -1>>, <<11393, 11491, -1>>, <<42561, 42605, -1>>,
    <<42625, 42651, -1>>, <<42787, 42799, -1>>, <<42803, 42863, -1>>,
    <<42879, 42887, -1>>, <<42903, 42921, -1>>, <<42933, 42947, -1>> }

(* the characters that have another lower or upper case *)
SreCased ==
  { <<65, 90>>, <<97, 122>>, <<181, 181>>, <<192, 214>>, <<216, 246>>,
    <<248, 311>>, <<313, 396>>, <<398, 410>>, <<412, 425>>, <<428, 441>>,
    <<444, 445>>, <<447, 447>>, <<452, 544>>, <<546, 563>>, <<570, 596>>,
    <<598, 599>>, <<601, 601>>, <<603, 604>>, <<608, 609>>, <<611, 611>>,
    <<613, 614>>, <<616, 620>>, <<623, 623>>, <<625, 626>>, <<629, 629>>,
    <<637, 637>>, <<640, 640>>, <<642, 643>>, <<647, 652>>, <<658, 658>>,
    <<669, 670>>, <<837, 837>>, <<880, 883>>, <<886, 887>>, <<891, 893>>,
    <<895, 895>>, <<902, 902>>, <<904, 906>>, <<908, 908>>, <<910, 929>>,
    <<931, 977>>, <<981, 1013>>, <<1015, 1019>>, <<1021, 1153>>,
    <<1162, 1327>>, <<1329, 1366>>, <<1377, 1415>>, <<4256, 4293>>,
    <<4295, 4295>>, <<4301, 4301>>, <<4304, 4346>>, <<4349, 4351>>,
    <<5024, 5109>>, <<5112, 5117>>, <<7296, 7304>>, <<7312, 7354>>,
    <<7357, 7359>>, <<7545, 7545>>, <<7549, 7549>>, <<7566, 7566>>,
    <<7680, 7835>>, <<7838, 7838>>, <<7840, 7957>>, <<7960, 7965>>,
    <<7968, 8005>>, <<8008, 8013>>, <<8016, 8023>>, <<8025, 8025>>,
    <<8027, 8027>>, <<8029, 8029>>, <<8031, 8061>>, <<8064, 8116>>,
    <<8118, 8124>>, <<8126, 8126>>, <<8130, 8132>>, <<8134, 8140>>,
    <<8144, 8147>>, <<8150, 8155>>, <<8160, 8172>>, <<8178, 8180>>,
    <<8182, 8188>>, <<8486, 8486>>, <<8490, 8491>>, <<8498, 8498>>,
    <<8526, 8526>>, <<8544, 8575>>, <<8579, 8580>>, <<9398, 9449>>,
    <<11264, 11376>>, <<11378, 11379>>, <<11381, 11382>>, <<11390, 11491>>,
    <<11499, 11502>>, <<11506, 11507>>, <<11520, 11557>>, <<11559, 11559>>,
    <<11565, 11565>>, <<42560, 42605>>, <<42624, 42651>>, <<42786, 42799>>,
    <<42802, 42863>>, <<42873, 42887>>, <<42891, 42893>>, <<42896, 42900>>,
    <<42902, 42926>>, <<42928, 42954>>, <<42960, 42961>>, <<42966, 42969>>,
    <<42997, 42998>>, <<43859, 43859>>, <<43888, 43967>>, <<64256, 64262>>,
    <<64275, 64279>>, <<65313, 65338>>, <<65345, 65370>>, <<66560, 66639>>,
    <<66736, 66771>>, <<66776, 66811>>, <<66928, 66938>>, <<66940, 66954>>,
    <<66956, 66962>>, <<66964, 66965>>, <<66967, 66977>>, <<66979, 66993>>,
    <<66995, 67001>>, <<67003, 67004>>, <<68736, 68786>>, <<68800, 68850>>,
    <<71840, 71903>>, <<93760, 93823>>, <<125184, 125251>> }

(* the lower-case characters that match further characters when case is   *)
(* ignored, each with those characters                                     *)
ExtraCases ==
  { <<105, {305}>>, <<115, {383}>>, <<181, {956}>>, <<305, {105}>>,
    <<383, {115}>>, <<837, {953, 8126}>>, <<912, {8147}>>, <<944, {8163}>>,
    <<946, {976}>>, <<949, {1013}>>, <<952, {977}>>, <<953, {837, 8126}>>,
    <<954, {1008}>>, <<956, {181}>>, <<960, {982}>>, <<961, {1009}>>,
    <<962, {963}>>, <<963, {962}>>, <<966, {981}>>, <<976, {946}>>,
    <<977, {952}>>, <<981, {966}>>, <<982, {960}>>, <<1008, {954}>>,
    <<1009, {961}>>, <<1013, {949}>>, <<1074, {7296}>>, <<1076, {7297}>>,
    <<1086, {7298}>>, <<1089, {7299}>>, <<1090, {7300, 7301}>>,
    <<1098, {7302}>>, <<1123, {7303}>>, <<7296, {1074}>>, <<7297, {1076}>>,
    <<7298, {1086}>>, <<7299, {1089}>>, <<7300, {1090, 7301}>>,
    <<7301, {1090, 7300}>>, <<7302, {1098}>>, <<7303, {1123}>>,
    <<7304, {42571}>>, <<7777, {7835}>>, <<7835, {7777}>>,
    <<8126, {837, 953}>>, <<8147, {912}>>, <<8163, {944}>>,
    <<42571, {7304}>>, <<64261, {64262}>>, <<64262, {64261}>> }

(* _sre.unicode_tolower: the first character of lower() *)
UniLower(c) == LowerChar(c)[1]

UniUpper(c) ==
  IF Shifted(c, SreUpperRuns) # c THEN Shifted(c, SreUpperRuns)
  ELSE ShiftedAlternate(c, SreUpperAlternate)

AsciiLow(c) == IF 65 <= c /\ c <= 90 THEN c + 32 ELSE c

(* the lower case of c under the folding "u" or "a", c itself under ""     *)
ReFold(fold, c) ==
  IF fold = "u" THEN UniLower(c) ELSE IF fold = "a" THEN AsciiLow(c) ELSE c

(* iscased() of the folding *)
ReIsCased(fold, c) ==
  IF fold = "u" THEN InRanges(c, SreCased) ELSE c \in AsciiLetters

(* a character from lo to hi is cased *)
ReAnyCased(fold, lo, hi) ==
  \E r \in (IF fold = "u" THEN SreCased ELSE {<<65, 90>>, <<97, 122>>}) :
    r[1] <= hi /\ lo <= r[2]

(* the characters equivalent to the lower-case character c *)
ReFixes(fold, c) ==
  IF fold = "u" /\ \E e \in ExtraCases : e[1] = c
    THEN (CHOOSE e \in ExtraCases : e[1] = c)[2]
    ELSE {}

(* every c with ReFold(fold, c) = y *)
RePreimages(fold, y) ==
  IF fold = "a" THEN {c \in {y, y - 32} : AsciiLow(c) = y}
  ELSE {c \in ({y} \cup {y - r[3] : r \in LowerRuns \cup LowerAlternate}
                   \cup (IF y = 105 THEN {304} ELSE {})) :
          c >= 0 /\ UniLower(c) = y}

(* int() of ASCII digits of any base up to 16 *)
RECURSIVE ReBaseVal(_, _)
ReBaseVal(s, base) ==
  IF s = <<>> THEN 0
  ELSE ReBaseVal(SubSeq(s, 1, Len(s) - 1), base) * base
       + (IF s[Len(s)] <= 57 THEN s[Len(s)] - 48
          ELSE IF s[Len(s)] <= 70 THEN s[Len(s)] - 55
          ELSE s[Len(s)] - 87)

(* the limbs of a number as a count: itself, or RE_HUGE beyond *)
ReCount(a) ==
  IF Len(a) > 2 \/ (Len(a) = 2 /\ a[2] * BASE + a[1] > RE_HUGE) THEN RE_HUGE
  ELSE IF Len(a) = 2 THEN a[2] * BASE + a[1]
  ELSE IF Len(a) = 1 THEN a[1]
  ELSE 0

BigMin(a, b) == IF BigGeq(a, b) THEN b ELSE a

BigMax(a, b) == IF BigGeq(a, b) THEN a ELSE b

(* ---------------------------------------------------------------------- *)
(* re.search, part 2: the parser of re/_parser.py.  A pattern is parsed   *)
(* into a sequence of items; the flags in force are resolved while        *)
(* parsing, as the compiler of re/_compiler.py resolves them.  The state  *)
(* of the parser is a record: i, the index of the next character; err,    *)
(* the exception raised ("" for none); late, whether the compiler raises  *)
(* re.error once the parser is done; g, the number of groups with group   *)
(* 0; names, the pairs of a group name and its number; open, the groups   *)
(* not closed yet; defs, the items of each closed group; lb, the number   *)
(* of groups at the start of the look-behind being parsed (-1 outside);   *)
(* gf, the global flags; refs, the group numbers conditions refer to;     *)
(* out, what the last step parsed.                                        *)
(* ---------------------------------------------------------------------- *)
ReStart ==
  [i |-> 1, err |-> "", late |-> FALSE, g |-> 1, names |-> {}, open |-> {},
   defs |-> <<>>, lb |-> -1, gf |-> {}, refs |-> {}, out |-> <<>>]

ReFail(st) == [st EXCEPT !.err = "error"]

ReAt(st, i, out) == [st EXCEPT !.i = i, !.out = out]

(* the token at p[i]: a character, a backslash with the character behind   *)
(* it, or nothing at the end                                               *)
ReTok(p, i) ==
  IF i > Len(p) THEN <<>>
  ELSE IF p[i] = 92 /\ i < Len(p) THEN <<p[i], p[i + 1]>>
  ELSE <<p[i]>>

(* p[i], or -1 beyond the end or at a backslash *)
ReChr(p, i) == IF i \in 1..Len(p) /\ p[i] # 92 THEN p[i] ELSE -1

(* the pattern ends in a backslash that escapes nothing, which the         *)
(* tokenizer rejects as soon as it looks ahead to it                       *)
RECURSIVE ReLoneEnd(_, _)
ReLoneEnd(p, i) ==
  IF i > Len(p) THEN FALSE
  ELSE IF p[i] = 92 THEN (i = Len(p) \/ ReLoneEnd(p, i + 2))
  ELSE ReLoneEnd(p, i + 1)

(* how many of the characters from p[i] on, n at most, are in chars *)
RECURSIVE ReRun(_, _, _, _)
ReRun(p, i, n, chars) ==
  IF n = 0 \/ ReChr(p, i) \notin chars THEN 0 ELSE 1 + ReRun(p, i + 1, n - 1, chars)

(* the flags the compiler starts from, and those of a group with flags *)
ReBase(gf) == IF 97 \in gf THEN gf ELSE gf \cup {117}

ReCombine(flags, add, del) ==
  ((IF add \cap ReTypeFlags # {} THEN flags \ ReTypeFlags ELSE flags) \cup add) \ del

(* fl = {-1}: outside of every group, where the global flags hold *)
ReFlags(st, fl) == IF fl = {-1} THEN ReBase(st.gf) ELSE fl

ReFoldOf(fl) == IF 105 \notin fl THEN "" ELSE IF 117 \in fl THEN "u" ELSE "a"

(* members of a set as parsed: a literal, a range, a category *)
ReCode(k, lo, hi) == [k |-> k, lo |-> lo, hi |-> hi]

ReRange(lo, hi) == ReCode("range", lo, hi)

(* a set as compiled: x, the character under the folding, is tested        *)
(* against the members; raw are the members as parsed                      *)
ReIn(neg, fold, items, raw) ==
  [op |-> "in", neg |-> neg, fold |-> fold, items |-> items, raw |-> raw]

(* LITERAL and NOT_LITERAL *)
ReLiteralFolded(neg, fold, lo, c) ==
  ReIn(neg, fold, {ReRange(y, y) : y \in {lo} \cup ReFixes(fold, lo)},
       <<ReCode("lit", c, 0)>>)

ReLiteral(c, neg, fl) ==
  IF ReFoldOf(fl) # "" /\ ReIsCased(ReFoldOf(fl), c)
    THEN ReLiteralFolded(neg, ReFoldOf(fl), ReFold(ReFoldOf(fl), c), c)
    ELSE ReIn(neg, "", {ReRange(c, c)}, <<ReCode("lit", c, 0)>>)

(* a category as compiled: hi = 1 for that of ASCII *)
ReCategoryOf(c, fl) == ReCode("cat", c, IF 117 \in fl THEN 0 ELSE 1)

ReCategory(c, fl) == ReIn(FALSE, "", {ReCategoryOf(c, fl)}, <<ReCode("cat", c, 0)>>)

(* one member of a set under a folding (_optimize_charset): the members    *)
(* within the first 65536 characters are folded, a range beyond is tested  *)
(* with the upper case as well, a literal beyond is kept                   *)
ReFoldedMember(m, fold, fl) ==
  IF m.k = "cat" THEN {ReCategoryOf(m.lo, fl)}
  ELSE IF m.k = "lit" THEN
    (IF m.lo >= 65536 THEN {ReRange(m.lo, m.lo)}
     ELSE {ReRange(y, y) :
             y \in {ReFold(fold, m.lo)} \cup ReFixes(fold, ReFold(fold, m.lo))})
  ELSE (IF m.lo < 65536
          THEN {ReCode("lowrange", m.lo, IF m.hi < 65536 THEN m.hi ELSE 65535)}
          ELSE {})
       \cup (IF m.hi >= 65536 THEN {ReCode("urange", m.lo, m.hi)} ELSE {})

RePlainMember(m, fl) ==
  IF m.k = "lit" THEN ReRange(m.lo, m.lo)
  ELSE IF m.k = "cat" THEN ReCategoryOf(m.lo, fl)
  ELSE m

ReHasCased(raw, fold) ==
  \E k \in 1..Len(raw) :
    /\ raw[k].k # "cat"
    /\ \/ raw[k].lo >= 65536
       \/ raw[k].hi >= 65536
       \/ ReAnyCased(fold, raw[k].lo, IF raw[k].k = "lit" THEN raw[k].lo ELSE raw[k].hi)

(* _uniq: the first of each of the members *)
ReUniq(raw) ==
  SelectSeq([k \in 1..Len(raw) |-> IF \E j \in 1..(k - 1) : raw[j] = raw[k]
                                    THEN <<>> ELSE <<raw[k]>>],
            LAMBDA e : e # <<>>)

ReUnwrap(seq) == [k \in 1..Len(seq) |-> seq[k][1]]

(* the set of the members raw, which are more than one literal *)
ReCharset(neg, raw, fl) ==
  IF ReFoldOf(fl) # "" /\ ReHasCased(raw, ReFoldOf(fl))
    THEN ReIn(neg, ReFoldOf(fl),
              UNION {ReFoldedMember(raw[k], ReFoldOf(fl), fl) : k \in 1..Len(raw)}, raw)
  ELSE ReIn(neg, "", {RePlainMember(raw[k], fl) : k \in 1..Len(raw)}, raw)

(* the item of the set with the members raw *)
ReSetNode(neg, raw, fl) ==
  IF Len(raw) = 1 /\ raw[1].k = "lit" THEN ReLiteral(raw[1].lo, neg, fl)
  ELSE ReCharset(neg, raw, fl)

(* the character an escape letter stands for *)
ReControl(c) ==
  IF c = 97 THEN 7 ELSE IF c = 98 THEN 8 ELSE IF c = 102 THEN 12
  ELSE IF c = 110 THEN 10 ELSE IF c = 114 THEN 13 ELSE IF c = 116 THEN 9
  ELSE IF c = 118 THEN 11 ELSE c

(* \xhh, \uhhhh, \Uhhhhhhhh: n digits exactly, and a code point chr() takes *)
ReHexValue(st, digits) ==
  IF Len(digits) = 8 /\ SubSeq(digits, 1, 2) # <<48, 48>> (* 00 *) THEN ReFail(st)
  ELSE IF ReBaseVal(SubSeq(digits, Len(digits) - (IF Len(digits) = 8 THEN 5 ELSE Len(digits) - 1),
                           Len(digits)), 16) > 1114111 THEN ReFail(st)
  ELSE ReAt(st, st.i + Len(digits),
            ReCode("lit", ReBaseVal(SubSeq(digits, Len(digits) - (IF Len(digits) = 8 THEN 5 ELSE Len(digits) - 1),
                                           Len(digits)), 16), 0))

ReHex(p, st, n) ==
  IF ReRun(p, st.i, n, HexDigits) # n THEN ReFail(st)
  ELSE ReHexValue(st, SubSeq(p, st.i, st.i + n - 1))

(* the index of the first token from i on that is the character c, 0 when  *)
(* there is none                                                           *)
RECURSIVE ReFind(_, _, _)
ReFind(p, i, c) ==
  IF i > Len(p) THEN 0
  ELSE IF p[i] = c THEN i
  ELSE ReFind(p, i + Len(ReTok(p, i)), c)

(* unicodedata.lookup: the names of the characters of Unicode 14.0.0 and  *)
(* their aliases, each as ";NAME=" and the six hex digits of its          *)
(* character.  The names whose characters add up to h modulo NameBuckets  *)
(* stand in the string h + 1.  The names of the Hangul syllables and of   *)
(* the unified ideographs are not in the table: they are computed.  A     *)
(* named sequence is not in it, as re takes none.                         *)
NameBuckets == 512

UnicodeNames ==
  <<";LATIN CAPITAL LETTER Z=00005A;LATIN CAPITAL LETTER E WITH DIAERESIS=0000CB" \o
      ";GREEK SMALL LETTER RHO=0003C1;HEBREW PUNCTUATION GERSHAYIM=0005F4" \o
      ";MALAYALAM NUMBER ONE THOUSAND=000D72;CANADIAN SYLLABICS KWI=001476" \o
      ";CANADIAN SYLLABICS MOO=0014A8;CANADIAN SYLLABICS SWA=001500;CANADIAN SYLLABICS YII=001529" \o
      ";CANADIAN SYLLABICS THO=001564;BATAK LETTER LA=001BDE" \o
      ";GREEK SMALL LETTER ALPHA WITH PSILI AND VARIA=001F02;ROMAN NUMERAL ONE THOUSAND C D=002180" \o
      ";LEFTWARDS ARROW WITH DOUBLE VERTICAL STROKE=0021FA;DIVISION SLASH=002215" \o
      ";CIRCLED NUMBER FIFTEEN=00246E;CIRCLED LATIN CAPITAL LETTER D=0024B9" \o
      ";MEDIUM FLATTENED RIGHT PARENTHESIS ORNAMENT=00276B" \o
      ";LEFTWARDS DOUBLE ARROW WITH VERTICAL STROKE=002902" \o
      ";RIGHTWARDS TWO-HEADED ARROW WITH TAIL WITH VERTICAL STROKE=002917;NORTH EAST BLACK ARROW=002B08" \o
      ";ETHIOPIC SYLLABLE CCHE=002DBD;HEXAGRAM FOR AFTER COMPLETION=004DFE;VAI SYLLABLE GA=00A56D" \o
      ";VAI SYLLABLE CE=00A5FF;LATIN SMALL LETTER THORN WITH STROKE=00A765;CHAM LETTER NHA=00AA11" \o
      ";TAI VIET LETTER LOW YO=00AAA4;CARIAN LETTER B=0102A9;OSAGE SMALL LETTER TSA=0104F2" \o
      ";OLD SOGDIAN LETTER TAW=010F1A;NEWA LETTER VOCALIC RR=011407;AHOM LETTER BHA=011718" \o
      ";AHOM DIGIT FIVE=011735;AHOM DIGIT NINE=011739;DOGRA LETTER BA=011820" \o
      ";DIVES AKURU LETTER DHA=01191E;DIVES AKURU INITIAL RA=011941;NANDINAGARI LETTER KHA=0119AF" \o
      ";CUNEIFORM SIGN GA GUNU=0120B6;BAMUM LETTER PHASE-B SHET NJAQ=016869" \o
      ";ZNAMENNY NEUME STATYA=01CF86;BYZANTINE MUSICAL SYMBOL OXEIA DIPLI=01D004" \o
      ";BYZANTINE MUSICAL SYMBOL KLASMA KATO=01D0F4" \o
      ";MATHEMATICAL SANS-SERIF BOLD ITALIC CAPITAL F=01D641" \o
      ";MATHEMATICAL SANS-SERIF BOLD SMALL XI=01D77D" \o
      ";SIGNWRITING MOVEMENT-FLOORPLANE TRIPLE STRAIGHT MOVEMENT=01D96F" \o
      ";SIGNWRITING MOUTH FROWN OPEN=01DA43;MENDE KIKAKUI SYLLABLE M124 GBI=01E8A6" \o
      ";OTTOMAN SIYAQ NUMBER SEVENTY=01ED10;ARABIC MATHEMATICAL LOOPED DAL=01EE83" \o
      ";ARABIC MATHEMATICAL LOOPED HAH=01EE87;DIGIT ONE COMMA=01F102;FILM PROJECTOR=01F4FD" \o
      ";BELL WITH CANCELLATION STROKE=01F515;NORTH WEST POINTING VINE LEAF=01F658" \o
      ";HEAVY SOUTH EAST POINTING BUD=01F667",
    ";LATIN SMALL LETTER ESH=000283;MODIFIER LETTER VERTICAL LINE=0002C8" \o
      ";GREEK SMALL LETTER TAU=0003C4;GREEK SMALL LETTER SHO=0003F8;ORIYA LETTER VOCALIC L=000B0C" \o
      ";THAI DIGIT FIVE=000E55;THAI DIGIT NINE=000E59;TIBETAN SUBJOINED LETTER DZHA=000FAC" \o
      ";CANADIAN SYLLABICS PWE=00143A;CANADIAN SYLLABICS TWA=001461;CANADIAN SYLLABICS NOO=0014C5" \o
      ";CANADIAN SYLLABICS LWI=0014DE;BUHID LETTER DA=001747;CANADIAN SYLLABICS RAY=0018C5" \o
      ";TAI THAM LETTER HIGH HA=001A49;BATAK LETTER MA=001BD4" \o
      ";VEDIC SIGN VISARGA ANUDATTA WITH TAIL=001CE8" \o
      ";LATIN CAPITAL LETTER T WITH CIRCUMFLEX BELOW=001E70;EQUIANGULAR TO=00225A" \o
      ";OCR BELT BUCKLE=002444;CIRCLED LATIN CAPITAL LETTER E=0024BA;RIGHTWARDS ARROW-TAIL=00291A" \o
      ";INTERSECTION WITH LOGICAL AND=002A44;ASTRAEA=002BD9;COPTIC SMALL LETTER MI=002C99" \o
      ";COPTIC SMALL LETTER UA=002CA9;YI RADICAL DDUR=00A4A4;VAI SYLLABLE HA=00A54C" \o
      ";VAI SYLLABLE DE=00A5F9;LATIN SMALL LETTER L WITH HIGH STROKE=00A749" \o
      ";LATIN SMALL LETTER CON=00A76F;HEBREW LETTER WIDE TAV=00FB28" \o
      ";ARABIC LETTER NGOEH FINAL FORM=00FB9B;ARABIC LETTER HAH INITIAL FORM=00FEA3" \o
      ";OLD PERSIAN NUMBER TEN=0103D3;SORA SOMPENG DIGIT ONE=0110F1" \o
      ";GRANTHA LETTER VEDIC ANUSVARA=01135E;NEWA GAP FILLER=01144E;AHOM LETTER CHA=01170B" \o
      ";DOGRA LETTER CA=01180F;CANADIAN SYLLABICS SPI=011ABD;MARCHEN SUBJOINED LETTER TSHA=011CA3" \o
      ";CUNEIFORM SIGN HA GUNU=01212B;CUNEIFORM SIGN PESH2 ASTERISK=012394" \o
      ";CUNEIFORM NUMERIC SIGN ELAMITE FORTY=012467;PAHAWH HMONG VOWEL KUB=016B06" \o
      ";PAHAWH HMONG VOWEL KAV=016B17;ZNAMENNY COMBINING MARK SKOBA=01CF2B" \o
      ";MUSICAL SYMBOL SIX-LINE STAFF=01D11B;MATHEMATICAL SANS-SERIF BOLD ITALIC CAPITAL G=01D642" \o
      ";MATHEMATICAL SANS-SERIF BOLD SMALL MU=01D77B;SIGNWRITING MOVEMENT-FLOORPLANE JAW=01DA69" \o
      ";ARABIC MATHEMATICAL DOUBLE-STRUCK DAL=01EEA3;ARABIC MATHEMATICAL DOUBLE-STRUCK HAH=01EEA7" \o
      ";ROLLER COASTER=01F3A2;CHART WITH UPWARDS TREND AND YEN SIGN=01F4B9;LOW BRIGHTNESS SYMBOL=01F505" \o
      ";INPUT SYMBOL FOR LATIN SMALL LETTERS=01F521;BALLOT BOX WITH BALLOT=01F5F3" \o
      ";DOWNWARDS HEAVY ARROW=01F847;PREGNANT WOMAN=01F930;MICROBE=01F9A0;TAG APOSTROPHE=0E0027",
    ";LATIN SMALL LETTER ETH=0000F0;LATIN SMALL LETTER PHI=000278" \o
      ";ARABIC LETTER TEH MARBUTA GOAL=0006C3;MALAYALAM VOWEL SIGN U=000D41" \o
      ";MYANMAR LETTER MON JHA=00105B;ETHIOPIC SYLLABLE CHEE=00132C;CANADIAN SYLLABICS TTE=001467" \o
      ";CANADIAN SYLLABICS MWI=0014AE;CANADIAN SYLLABICS TH-CREE THI=0015A8" \o
      ";RUNIC LETTER LONG-BRANCH-AR AE=0016C5;CANADIAN SYLLABICS SAY=0018BF;BATAK LETTER NA=001BC9" \o
      ";LATIN CAPITAL LETTER U WITH CIRCUMFLEX BELOW=001E76" \o
      ";GREEK CAPITAL LETTER OMEGA WITH PSILI=001F68;CIRCLED LATIN CAPITAL LETTER F=0024BB" \o
      ";DIVORCE SYMBOL=0026AE;LEFTWARDS ARROW ABOVE TILDE OPERATOR=002973" \o
      ";TILDE OPERATOR ABOVE LEFTWARDS ARROW=002B49;PLUTO FORM TWO=002BD3" \o
      ";GLAGOLITIC CAPITAL LETTER UKU=002C16;COPTIC SMALL LETTER NI=002C9B" \o
      ";PARENTHESIZED HANGUL KIYEOK A=00320E;CIRCLED IDEOGRAPH MOON=00328A" \o
      ";CIRCLED IDEOGRAPH WOOD=00328D;SQUARE KARORII=00330D;YI RADICAL SHAT=00A4C0" \o
      ";VAI SYLLABLE EE=00A500;VAI DIGIT EIGHT=00A628;CHAM LETTER PHA=00AA1C" \o
      ";ETHIOPIC SYLLABLE DDHE=00AB0D;ARABIC LETTER KAF INITIAL FORM=00FEDB" \o
      ";HALFWIDTH HANGUL LETTER IEUNG=00FFB7;CARIAN LETTER D=0102A2" \o
      ";PSALTER PAHLAVI LETTER DALETH=010B83;MODI LETTER DDA=01161A;AHOM LETTER DHA=011714" \o
      ";DOGRA LETTER DA=01181B;WARANG CITI SMALL LETTER SSUU=0118DD;NANDINAGARI LETTER NGA=0119B2" \o
      ";BHAIKSUKI VOWEL SIGN I=011C30;TAMIL PUNCTUATION END OF TEXT=011FFF" \o
      ";CUNEIFORM SIGN BAHAR2 TIMES NI=012485;MATHEMATICAL SANS-SERIF BOLD ITALIC CAPITAL H=01D643" \o
      ";MATHEMATICAL SANS-SERIF BOLD SMALL NU=01D77C;SIGNWRITING HAND-CUP NO THUMB=01D871" \o
      ";MENDE KIKAKUI SYLLABLE M130 HAN=01E872;MENDE KIKAKUI SYLLABLE M190 GEE=01E886" \o
      ";ARABIC MATHEMATICAL LOOPED FEH=01EE90;WEDDING=01F492" \o
      ";LOWER LEFT BLOCK DIAGONAL UPPER LEFT TO LOWER CENTRE=01FB40",
    ";COMBINING DOUBLE TILDE=000360;GREEK SMALL LETTER PSI=0003C8" \o
      ";ARABIC LETTER YEH WITH SMALL V=0006CE;SYRIAC LETTER PERSIAN DHALATH=00072F" \o
      ";SAMARITAN VOWEL SIGN E=00081D;DEVANAGARI SIGN VIRAMA=00094D;GUJARATI SIGN AVAGRAHA=000ABD" \o
      ";TIBETAN SYMBOL RDO RJE=000FC5;CANADIAN SYLLABICS POO=001434" \o
      ";CANADIAN SYLLABICS Y-CREE PWAA=001448;CANADIAN SYLLABICS TYA=001573" \o
      ";RUNIC TVIMADUR SYMBOL=0016EF;CANADIAN SYLLABICS TAY=0018B7;CANADIAN SYLLABICS NWI=0018C6" \o
      ";LATIN CAPITAL LETTER H WITH DIAERESIS=001E26" \o
      ";GREEK SMALL LETTER OMEGA WITH PSILI AND VARIA=001F62;CIRCLED LATIN CAPITAL LETTER G=0024BC" \o
      ";BOX DRAWINGS LIGHT UP AND LEFT=002518;HEAVY ASTERISK=002731" \o
      ";SQUARE LEFT OPEN BOX OPERATOR=002ACD;GLAGOLITIC SMALL LETTER TROKUTASTI A=002C5D" \o
      ";COPTIC SMALL LETTER CRYPTOGRAMMIC NI=002CBD;COPTIC CAPITAL LETTER OLD COPTIC HORI=002CCC" \o
      ";RIGHT RAISED OMISSION BRACKET=002E0D;YI SYLLABLE BBE=00A06A;YI SYLLABLE DDA=00A13F" \o
      ";VAI SYLLABLE BI=00A52C;VAI SYLLABLE JA=00A567;VAI SYLLABLE FE=00A5F1" \o
      ";MEETEI MAYEK LETTER UN=00ABCE;HANGUL JONGSEONG SIOS-KAPYEOUNPIEUP=00D7EB;DASHED LOW LINE=00FE4D" \o
      ";ARABIC LETTER SHEEN FINAL FORM=00FEB6;ARABIC LETTER FEH INITIAL FORM=00FED3" \o
      ";CARIAN LETTER E=0102BA;DESERET SMALL LETTER SHORT OO=010433" \o
      ";OLD TURKIC LETTER YENISEI ENY=010C2B;OLD SOGDIAN LETTER WAW=010F07" \o
      ";OLD SOGDIAN LETTER FINAL SADHE=010F16;DIVES AKURU LETTER GHA=01190F" \o
      ";CUNEIFORM SIGN USHUMX=012358;CUNEIFORM NUMERIC SIGN ONE EIGHTH ASH=01245F" \o
      ";BAMUM LETTER PHASE-A TITA MFON=016806;PAHAWH HMONG VOWEL KWB=016B18" \o
      ";BYZANTINE MUSICAL SYMBOL KRATIMA NEO=01D083;MUSICAL SYMBOL SINGLE BARLINE=01D100" \o
      ";MUSICAL SYMBOL TEMPUS IMPERFECTUM CUM PROLATIONE IMPERFECTA DIMINUTION-1=01D1CC" \o
      ";MATHEMATICAL SANS-SERIF BOLD ITALIC CAPITAL I=01D644" \o
      ";OTTOMAN SIYAQ ALTERNATE NUMBER EIGHT=01ED35;ARABIC MATHEMATICAL DOUBLE-STRUCK FEH=01EEB0" \o
      ";PLAYING CARD EIGHT OF DIAMONDS=01F0C8;NECKTIE=01F454" \o
      ";LEFTWARDS FRONT-TILTED SHADOWED WHITE ARROW=01F8AA",
    ";LATIN CAPITAL LETTER I WITH DIAERESIS=0000CF;CYRILLIC CAPITAL LETTER KOPPA=000480" \o
      ";CYRILLIC CAPITAL LETTER ABKHASIAN CHE WITH DESCENDER=0004BE;DEVANAGARI DIGIT SEVEN=00096D" \o
      ";MYANMAR SHAN DIGIT SIX=001096;CANADIAN SYLLABICS SWE=0014F6;CANADIAN SYLLABICS QOO=001582" \o
      ";BUHID LETTER GA=001744;TAI THAM LETTER HIGH KA=001A20;BALINESE PANTI LANTANG=001B7D" \o
      ";SUNDANESE SIGN PAMAAEH=001BAA;BATAK LETTER PA=001BC7" \o
      ";GEORGIAN MTAVRULI CAPITAL LETTER LABIAL SIGN=001CBF" \o
      ";LATIN SMALL LETTER I WITH DIAERESIS AND ACUTE=001E2F;GREATER-THAN OR EQUIVALENT TO=002273" \o
      ";CIRCLED LATIN CAPITAL LETTER H=0024BD;INVERSE BULLET=0025D8;COPTIC SMALL LETTER PI=002CA1" \o
      ";ETHIOPIC SYLLABLE CCHI=002DBA;KANGXI RADICAL CLOTHES=002F90;CIRCLED IDEOGRAPH COPY=0032A2" \o
      ";SQUARE CM CUBED=0033A4;YI RADICAL GGUO=00A4A6;VAI SYLLABLE CI=00A53F;VAI SYLLABLE KA=00A56A" \o
      ";VAI SYLLABLE GE=00A606;CYRILLIC CAPITAL LETTER DJERV=00A648;HANGUL JUNGSEONG I-YAE=00D7BE" \o
      ";HALFWIDTH HANGUL LETTER RIEUL-KIYEOK=00FFAA;BRAHMI LETTER A=011005;NEWA LETTER DDA=01141C" \o
      ";TIRHUTA VOWEL SIGN VOCALIC RR=0114B6;MODI LETTER BHA=011625;MODI DIGIT FIVE=011655" \o
      ";MODI DIGIT NINE=011659;CUNEIFORM SIGN GISH TIMES GISH CROSSING GISH=0124CB" \o
      ";PAHAWH HMONG SIGN XYEEM NTXIV=016B3C;PAHAWH HMONG SIGN XAUS=016B44" \o
      ";PAHAWH HMONG SIGN NTUJ=016B6B" \o
      ";MUSICAL SYMBOL TEMPUS IMPERFECTUM CUM PROLATIONE IMPERFECTA DIMINUTION-2=01D1CD" \o
      ";MATHEMATICAL SANS-SERIF BOLD ITALIC CAPITAL J=01D645" \o
      ";MATHEMATICAL BOLD ITALIC KAPPA SYMBOL=01D752;MENDE KIKAKUI SYLLABLE M072 MBE=01E898" \o
      ";ADLAM DIGIT SIX=01E956;ARABIC MATHEMATICAL LOOPED HEH=01EE84" \o
      ";ALCHEMICAL SYMBOL FOR BATH OF VAPOURS=01F76C" \o
      ";UPWARDS TRIANGLE-HEADED ARROW WITH VERY HEAVY SHAFT=01F831;FACE HOLDING BACK TEARS=01F979",
    ";COMBINING LEFT HALF RING BELOW=00031C;COMBINING DOUBLE BREVE=00035D" \o
      ";CYRILLIC CAPITAL LIGATURE A IE=0004D4;ARABIC DAMMATAN=00064C;LAO DIGIT THREE=000ED3" \o
      ";MYANMAR LETTER MON NGA=00105A;ETHIOPIC SYLLABLE GGEE=00131C;CANADIAN SYLLABICS PWI=00143C" \o
      ";CANADIAN SYLLABICS TWE=001457;CANADIAN SYLLABICS ROO=001549;CANADIAN SYLLABICS TTH=00156F" \o
      ";BUHID LETTER HA=001751;TAI THAM HORA DIGIT ONE=001A81;TAI THAM THAM DIGIT ONE=001A91" \o
      ";GREEK CAPITAL LETTER IOTA WITH DASIA AND PERISPOMENI=001F3F" \o
      ";GREEK CAPITAL LETTER IOTA WITH MACRON=001FD9;DOWNWARDS WHITE ARROW=0021E9;SQUARE LOZENGE=002311" \o
      ";CIRCLED LATIN CAPITAL LETTER I=0024BE;DIAMOND WITH BOTTOM HALF BLACK=002B19" \o
      ";BLACK VERTICAL ELLIPSE=002B2E;ANTICLOCKWISE TRIANGLE-HEADED BOTTOM U-SHAPED ARROW=002B8D" \o
      ";GLAGOLITIC CAPITAL LETTER OTU=002C19;ETHIOPIC SYLLABLE DDOA=002D8D" \o
      ";CIRCLED IDEOGRAPH FOUR=003283;SQUARE DM CUBED=003379;VAI SYLLABLE DI=00A539" \o
      ";VAI SYLLABLE LA=00A55E;VAI SYLLABLE HE=00A5E4;VAI SYMBOL DO-O=00A61E" \o
      ";LATIN CAPITAL LETTER CLOSED INSULAR G=00A7D0" \o
      ";LATIN SMALL LETTER L WITH DOUBLE MIDDLE TILDE=00AB38" \o
      ";ARABIC LIGATURE YEH WITH HAMZA ABOVE WITH JEEM ISOLATED FORM=00FC00" \o
      ";ARABIC LETTER HEH INITIAL FORM=00FEEB;GREEK ONE QUARTER SIGN=01018B;CARIAN LETTER G=0102C0" \o
      ";OLD SOGDIAN LETTER NUN=010F0E;KHUDAWADI VOWEL SIGN U=0112E3;MODI LETTER CHA=011614" \o
      ";AHOM LETTER GHA=011717;DOGRA LETTER GA=01180C;NANDINAGARI LETTER PHA=0119C3" \o
      ";NANDINAGARI LETTER LLA=0119CF;PAU CIN HAU GLOTTAL STOP FINAL=011AF8" \o
      ";CUNEIFORM SIGN LAGAB TIMES KU3=0121D1;CUNEIFORM SIGN LU2 TIMES LAGAB=01220A" \o
      ";CUNEIFORM SIGN LAK-617 TIMES U2=012509;PAHAWH HMONG VOWEL KEV=016B09" \o
      ";MEDEFAIDRIN DIGIT FOUR=016E84;MIAO SIGN REFORMED ASPIRATION=016F53" \o
      ";ZNAMENNY COMBINING MARK LOMKA=01CF27;MUSICAL SYMBOL COMBINING FLIP=01D187" \o
      ";MUSICAL SYMBOL TEMPUS IMPERFECTUM CUM PROLATIONE IMPERFECTA DIMINUTION-3=01D1CE" \o
      ";MATHEMATICAL SANS-SERIF BOLD ITALIC CAPITAL K=01D646;MATHEMATICAL BOLD CAPITAL BETA=01D6A9" \o
      ";ARABIC MATHEMATICAL TAILED YEH=01EE49;GRINNING FACE WITH ONE LARGE AND ONE SMALL EYE=01F92A" \o
      ";CRICKET=01F997;RACCOON=01F99D;UPPER LEFT BLOCK DIAGONAL LOWER LEFT TO UPPER CENTRE=01FB5B" \o
      ";TAG DIGIT THREE=0E0033",
    ";ARABIC LETTER BEH WITH INVERTED SMALL V BELOW=000755" \o
      ";ARABIC LETTER FARSI YEH WITH EXTENDED ARABIC-INDIC DIGIT THREE ABOVE=000776" \o
      ";MYANMAR SIGN DOT BELOW=001037;ETHIOPIC PREFACE COLON=001366;CANADIAN SYLLABICS TTI=001468" \o
      ";CANADIAN SYLLABICS KWO=00147A;CANADIAN SYLLABICS SOO=0014F2;CANADIAN SYLLABICS YWA=001539" \o
      ";CANADIAN SYLLABICS WAY=0018B3;CANADIAN SYLLABICS CARRIER GAA=0018EF" \o
      ";COMBINING LIGHT CENTRALIZATION STROKE BELOW=001AB9;BATAK LETTER RA=001BD2" \o
      ";COMBINING OGONEK ABOVE=001DCE;CIRCLED LATIN CAPITAL LETTER J=0024BF" \o
      ";BLACK RIGHT-POINTING TRIANGLE=0025B6;CIRCLE WITH ALL BUT UPPER LEFT QUADRANT BLACK=0025D5" \o
      ";WHITE FLORETTE=002740;LARGE DOWN TACK=0027D9;SQUARED SQUARE=0029C8" \o
      ";GLAGOLITIC SMALL LETTER DZELO=002C37;PUNCTUS ELEVATUS MARK=002E4E;CIRCLED IDEOGRAPH KOTO=003247" \o
      ";HEXAGRAM FOR INNOCENCE=004DD8;HEXAGRAM FOR THE CLINGING FIRE=004DDD;YI SYLLABLE CHA=00A363" \o
      ";VAI SYLLABLE MA=00A56E;CHAM LETTER THA=00AA14;CHAM DIGIT FOUR=00AA54" \o
      ";ETHIOPIC SYLLABLE DDHI=00AB0A;ARABIC LETTER NYEH MEDIAL FORM=00FB79" \o
      ";MODIFIER LETTER SMALL L WITH RETROFLEX HOOK AND BELT=01079D;MANICHAEAN LETTER XAPH=010AD1" \o
      ";MANICHAEAN LETTER AYIN=010AD9;NEWA LETTER BHA=011428;NEWA DIGIT FIVE=011455" \o
      ";NEWA DIGIT NINE=011459;MODI LETTER DHA=011620;DOGRA LETTER HA=01182A" \o
      ";CUNEIFORM SIGN MA GUNU=012222;CUNEIFORM SIGN NINDA2 TIMES AN=012253" \o
      ";CUNEIFORM SIGN BAHAR2 TIMES ZA=012486;BAMUM LETTER PHASE-E PA PLURAL=0169DA" \o
      ";BAMUM LETTER PHASE-E FU REMEDY=0169F5;MIAO LETTER GHA=016F28" \o
      ";ZNAMENNY NEUME STRELA POLUPOVODNAYA=01CF95;MATHEMATICAL SANS-SERIF BOLD ITALIC CAPITAL L=01D647" \o
      ";MENDE KIKAKUI SYLLABLE M089 DEE=01E841;MENDE KIKAKUI SYLLABLE M078 FEE=01E85D" \o
      ";MENDE KIKAKUI SYLLABLE M070 GBO=01E8AC;MENDE KIKAKUI SYLLABLE M129 NDA=01E8AF" \o
      ";ARTIST PALETTE=01F3A8;PERSON WITH BLOND HAIR=01F471;UPWARDS SQUARED ARROW=01F839",
    ";LATIN CAPITAL LETTER O WITH OGONEK AND MACRON=0001EC" \o
      ";GREEK UPSILON WITH DIAERESIS AND HOOK SYMBOL=0003D4;GREEK REVERSED LUNATE EPSILON SYMBOL=0003F6" \o
      ";CYRILLIC CAPITAL LETTER IE WITH BREVE=0004D6;ARABIC LETTER U=0006C7" \o
      ";SAMARITAN VOWEL SIGN I=00082A;DEVANAGARI LETTER LLLA=000934;GUJARATI VOWEL SIGN II=000AC0" \o
      ";ORIYA LETTER VOCALIC R=000B0B;THAI CHARACTER CHO CHAN=000E08" \o
      ";MYANMAR CONSONANT SIGN SHAN MEDIAL WA=001082;ETHIOPIC SYLLABLE HHEE=001214" \o
      ";ETHIOPIC SYLLABLE PHAA=001333;CANADIAN SYLLABICS TOO=001451;CANADIAN SYLLABICS LWO=0014E2" \o
      ";CANADIAN SYLLABICS TYE=001570;CANADIAN SYLLABICS RWI=0018CF" \o
      ";BALINESE VOWEL SIGN SUKU ILUT=001B39;BALINESE PAMADA=001B5B;BATAK LETTER SA=001BD8" \o
      ";EULER CONSTANT=002107;NEITHER APPROXIMATELY NOR ACTUALLY EQUAL TO=002247;DIVISION TIMES=0022C7" \o
      ";APL FUNCTIONAL SYMBOL QUOTE UNDERBAR=002358;CIRCLED LATIN CAPITAL LETTER K=0024C0" \o
      ";BOX DRAWINGS UP SINGLE AND HORIZONTAL DOUBLE=002567" \o
      ";BOX DRAWINGS UP DOUBLE AND HORIZONTAL SINGLE=002568;DOTTED SOLIDUS=002E4A" \o
      ";KANGXI RADICAL BRISTLE=002F3A;REVERSED DOUBLE PRIME QUOTATION MARK=00301D" \o
      ";CIRCLED IDEOGRAPH REST=0032A1;SQUARE KARATTO=00330C;YI SYLLABLE BBI=00A058" \o
      ";YI SYLLABLE DDE=00A149;VAI SYLLABLE FI=00A531;VAI SYLLABLE AN=00A54A;VAI SYLLABLE NA=00A56F" \o
      ";VAI SYLLABLE JE=00A600;CYRILLIC CAPITAL LETTER DZELO=00A642;LATIN SMALL LETTER DUM=00A771" \o
      ";ARABIC LETTER TTEH MEDIAL FORM=00FB69;HALFWIDTH HANGUL LETTER MIEUM=00FFB1" \o
      ";AEGEAN NUMBER NINETY THOUSAND=010133;PHAISTOS DISC SIGN BOW=0101DA;CARIAN LETTER I=0102B9" \o
      ";MANICHAEAN LETTER RESH=010AE1;MANICHAEAN LETTER SHIN=010AE2;OLD SOGDIAN NUMBER TWO=010F1E" \o
      ";SORA SOMPENG LETTER AH=0110E2;NEWA LETTER CHA=011415;DOGRA LETTER AI=011807" \o
      ";DIVES AKURU LETTER KHA=01190D;CANADIAN SYLLABICS SPO=011ABE;TAMIL LAND SIGN=011FE6" \o
      ";CUNEIFORM SIGN LAGAB TIMES HAL=0121C9;CUNEIFORM SIGN NINDA2 TIMES GI=012392" \o
      ";MIAO LETTER HHA=016F44;BYZANTINE MUSICAL SYMBOL ETERON PARAKALESMA=01D060" \o
      ";BYZANTINE MUSICAL SYMBOL EKSTREPTON=01D064;MUSICAL SYMBOL TWO-LINE STAFF=01D117" \o
      ";MATHEMATICAL SANS-SERIF BOLD ITALIC CAPITAL M=01D648;SIGNWRITING HAND-CIRCLE INDEX=01D801" \o
      ";SIGNWRITING HAND-FLAT HEEL THUMB SIDE=01D85E;SIGNWRITING TENSE CHEEKS HIGH=01DA2D" \o
      ";MENDE KIKAKUI SYLLABLE M065 KEE=01E803;ARABIC MATHEMATICAL LOOPED AIN=01EE8F" \o
      ";ARABIC MATHEMATICAL LOOPED SAD=01EE91;ARABIC MATHEMATICAL LOOPED QAF=01EE92" \o
      ";MAHJONG TILE WEST WIND=01F002;BALLOON=01F388;LEOPARD=01F406;CAT FACE=01F431" \o
      ";WOMANS CLOTHES=01F45A;CLOCK FACE EIGHT OCLOCK=01F557;CLAMSHELL MOBILE PHONE=01F581" \o
      ";ALCHEMICAL SYMBOL FOR REGULUS=01F732;DOWNWARD FACING NOTCHED HOOK WITH DOT=01F90B" \o
      ";UPPER AND LOWER TRIANGULAR HALF BLOCK=01FB9A",
    ";LATIN SMALL LETTER EZH=000292;CYRILLIC CAPITAL LETTER IE WITH GRAVE=000400" \o
      ";ARABIC LETTER FARSI YEH WITH THREE DOTS ABOVE=00063F" \o
      ";ARABIC LETTER DAL WITH DOT BELOW AND SMALL TAH=00068B" \o
      ";ARABIC LETTER DAL WITH INVERTED SMALL V BELOW=00075A" \o
      ";ARABIC LETTER ALEF WITH ATTACHED FATHA=000870" \o
      ";ARABIC LETTER HAH WITH INVERTED SMALL V BELOW=00088A;DEVANAGARI VOWEL SIGN CANDRA O=000949" \o
      ";ETHIOPIC SYLLABLE QHAA=001253;CANADIAN SYLLABICS MWO=0014B2;CANADIAN SYLLABICS SWI=0014F8" \o
      ";CANADIAN SYLLABICS TH-CREE THO=0015AA;BUHID LETTER KA=001743;CANADIAN SYLLABICS YAY=0018C4" \o
      ";BALINESE LETTER CA LACA=001B19;GREEK SMALL LETTER UPSILON WITH PERISPOMENI=001FE6" \o
      ";DIVIDES=002223;SYMBOL FOR DEVICE CONTROL TWO=002412;CIRCLED LATIN CAPITAL LETTER L=0024C1" \o
      ";BOX DRAWINGS HEAVY UP AND LEFT=00251B;RIGHT HALF BLACK CIRCLE=0025D7;BLACK CLUB SUIT=002663" \o
      ";QUATERNION INTEGRAL OPERATOR=002A16;SOUTH EAST BLACK ARROW=002B0A;ETHIOPIC SYLLABLE CHOA=002D90" \o
      ";COMBINING CYRILLIC LETTER ZHE=002DE4;CIRCLED HANGUL PHIEUPH=00326C;VAI SYLLABLE GI=00A545" \o
      ";VAI SYLLABLE KE=00A603;REJANG LETTER A=00A946;HANGUL CHOSEONG PHIEUPH-HIEUH=00A97A" \o
      ";ARABIC LIGATURE YEH WITH HAMZA ABOVE WITH MEEM ISOLATED FORM=00FC02" \o
      ";ARABIC LETTER ALEF WITH MADDA ABOVE FINAL FORM=00FE82;ARABIC LETTER SAD INITIAL FORM=00FEBB" \o
      ";ARABIC LETTER AIN INITIAL FORM=00FECB;ARABIC LETTER QAF INITIAL FORM=00FED7" \o
      ";OLD PERMIC LETTER YERI=010370;OLD SOGDIAN LETTER FINAL ALEPH=010F01;BRAHMI LETTER E=01100F" \o
      ";NEWA LETTER DHA=011422;AHOM LETTER JHA=011719;DOGRA LETTER JA=011811" \o
      ";NANDINAGARI LETTER SHA=0119CB;BHAIKSUKI VOWEL SIGN O=011C3A" \o
      ";CUNEIFORM SIGN NINDA2 TIMES HI=012525;BAMUM LETTER PHASE-A GHEUAERAE=01681C" \o
      ";MEDEFAIDRIN NUMBER TEN=016E8A;BYZANTINE MUSICAL SYMBOL APOSTROFOS=01D011" \o
      ";MATHEMATICAL SANS-SERIF BOLD ITALIC CAPITAL N=01D649;SIGNWRITING HAND-FIST RING UP=01D8AE" \o
      ";SIGNWRITING MOVEMENT-FLOORPLANE CURVE HITTING FLOOR LARGE=01D9C7" \o
      ";MENDE KIKAKUI SYLLABLE M157 JEE=01E84E;MENDE KIKAKUI SYLLABLE M123 NDI=01E8AE" \o
      ";MENDE KIKAKUI SYLLABLE M152 NJA=01E8B5;ARABIC MATHEMATICAL DOUBLE-STRUCK AIN=01EEAF" \o
      ";ARABIC MATHEMATICAL DOUBLE-STRUCK SAD=01EEB1;ARABIC MATHEMATICAL DOUBLE-STRUCK QAF=01EEB2" \o
      ";AMPHORA=01F3FA;CLOCK FACE FOUR-THIRTY=01F55F;SOUTH WEST POINTING VINE LEAF=01F659" \o
      ";LEFT HALF CIRCLE WITH TWO DOTS=01F905;GOGGLES=01F97D",
    ";CYRILLIC SMALL LETTER SHORT U=00045E;ARABIC FATHATAN=00064B;TAMIL LETTER AA=000B86" \o
      ";SINHALA LETTER AAYANNA=000D86;MYANMAR SIGN WESTERN PWO KAREN TONE-1=001069" \o
      ";HANGUL JUNGSEONG ARAEA=00119E;CANADIAN SYLLABICS TWI=001459" \o
      ";CANADIAN SYLLABICS CARRIER CHA=001666;BUHID LETTER LA=00174E;CANADIAN SYLLABICS NWO=0018CA" \o
      ";TAI THAM LETTER HIGH PA=001A38;INVISIBLE PLUS=002064;SUBSCRIPT FIVE=002085" \o
      ";SUBSCRIPT NINE=002089;SQUARE IMAGE OF=00228F;APL FUNCTIONAL SYMBOL DOWNWARDS VANE=002356" \o
      ";CIRCLED LATIN CAPITAL LETTER M=0024C2;LATIN CAPITAL LETTER Z WITH DESCENDER=002C6B" \o
      ";COPTIC SYMBOL STAUROS=002CE7;SQUARE MAIKURO=003343;YI SYLLABLE GGA=00A21C" \o
      ";YI RADICAL CUOP=00A4BD;VAI SYLLABLE HI=00A526;VAI SYLLABLE PA=00A550;VAI SYLLABLE BO=00A5C3" \o
      ";VAI SYLLABLE LE=00A5F7;VAI DIGIT THREE=00A623" \o
      ";PRESENTATION FORM FOR VERTICAL LEFT TORTOISE SHELL BRACKET=00FE39" \o
      ";HALFWIDTH HANGUL LETTER NIEUN=00FFA4;HALFWIDTH BLACK SQUARE=00FFED;ROMAN SESTERTIUS SIGN=010198" \o
      ";CARIAN LETTER K=0102BC;OLD PERMIC LETTER ZHOI=010355;MANICHAEAN LETTER YODH=010ACF" \o
      ";PSALTER PAHLAVI LETTER SAMEKH=010B8D;HANIFI ROHINGYA MARK NA KHONNA=010D23" \o
      ";MODI LETTER GHA=011611;MONGOLIAN BIRGA WITH ORNAMENT=011660;AHOM LETTER KHA=011701" \o
      ";DOGRA LETTER KA=01180A;DIVES AKURU LETTER NGA=011910;NANDINAGARI LETTER NNA=0119BC" \o
      ";NANDINAGARI LETTER THA=0119BE;ZANABAZAR SQUARE SIGN VISARGA=011A39" \o
      ";CUNEIFORM SIGN LAGAB TIMES DAR=0121C2;PAHAWH HMONG VOWEL KIV=016B03" \o
      ";MEDEFAIDRIN DIGIT ZERO=016E80;MIAO TONE ABOVE=016F91" \o
      ";MATHEMATICAL SANS-SERIF BOLD ITALIC CAPITAL O=01D64A" \o
      ";MATHEMATICAL SANS-SERIF BOLD ITALIC SMALL CHI=01D7C0" \o
      ";SIGNWRITING HAND-CIRCLE INDEX MIDDLE CROSSED=01D81B;MENDE KIKAKUI SYLLABLE M084 LEE=01E839" \o
      ";MENDE KIKAKUI SYLLABLE M052 HEN=01E874;MENDE KIKAKUI SYLLABLE M145 MBI=01E893" \o
      ";MENDE KIKAKUI SYLLABLE M119 NDE=01E8B2;ARABIC MATHEMATICAL LOOPED LAM=01EE8B" \o
      ";MAHJONG TILE ONE OF CHARACTERS=01F007;DOG FACE=01F436;BOWL OF HYGIEIA=01F54F" \o
      ";ALCHEMICAL SYMBOL FOR VITRIOL=01F716;WHITE LOZENGE CONTAINING BLACK SMALL LOZENGE=01F7A0" \o
      ";RIGHTWARDS BOTTOM SHADED WHITE ARROW=01F8A1",
    ";COPYRIGHT SIGN=0000A9;LATIN CAPITAL LETTER O WITH DIAERESIS=0000D6;NKO DIGIT EIGHT=0007C8" \o
      ";SAMARITAN MARK NEQUDAA=00082D;DEVANAGARI STRESS SIGN UDATTA=000951;TAMIL DIGIT ONE=000BE7" \o
      ";TIBETAN SUBJOINED LETTER TSHA=000FAA;MYANMAR SIGN WESTERN PWO KAREN TONE-2=00106A" \o
      ";MYANMAR LETTER SHAN ZA=001079;MYANMAR SHAN DIGIT TWO=001092;HANGUL JUNGSEONG EO-EU=00117C" \o
      ";HANGUL JUNGSEONG O-YAE=0011A7;ETHIOPIC SYLLABLE SHAA=00123B;CANADIAN SYLLABICS WOO=001414" \o
      ";CANADIAN SYLLABICS YWE=00152F;BUHID LETTER MA=00174B;KHMER LETTER BA=001794" \o
      ";KHMER SIGN KHAN=0017D4;KHMER DIGIT ONE=0017E1;CYRILLIC SMALL LETTER THREE-LEGGED TE=001C85" \o
      ";LATIN SMALL LETTER O WITH TILDE AND DIAERESIS=001E4F" \o
      ";GREEK CAPITAL LETTER IOTA WITH PSILI AND OXIA=001F3C;BETWEEN=00226C" \o
      ";CIRCLED LATIN CAPITAL LETTER N=0024C3;MINUS SIGN IN TRIANGLE=002A3A" \o
      ";RIBBON ARROW DOWN LEFT=002BB0;RIBBON ARROW LEFT DOWN=002BB6;ETHIOPIC SYLLABLE CCHO=002DBE" \o
      ";YI SYLLABLE BIE=00A01C;YI SYLLABLE CHE=00A36F;VAI SYLLABLE CO=00A5D7;VAI SYLLABLE ME=00A608" \o
      ";LATIN SMALL LETTER K WITH STROKE AND DIAGONAL STROKE=00A745" \o
      ";LATIN CAPITAL LETTER SALTILLO=00A78B;CHAM LETTER PPA=00AA1B;CHAM DIGIT ZERO=00AA50" \o
      ";HANGUL JUNGSEONG YO-AE=00D7B3;HANGUL JUNGSEONG EU-EO=00D7BA" \o
      ";ARABIC LIGATURE NOON WITH ALEF MAKSURA ISOLATED FORM=00FC4F" \o
      ";ARABIC LIGATURE QALA USED AS KORANIC STOP SIGN ISOLATED FORM=00FDF1" \o
      ";ARABIC LETTER LAM INITIAL FORM=00FEDF;GREEK ACROPHONIC THESPIAN TWO=01015C" \o
      ";PHAISTOS DISC SIGN SAW=0101DF;CARIAN LETTER L=0102A3;KHAROSHTHI NUMBER ONE HUNDRED=010A46" \o
      ";KHAROSHTHI PUNCTUATION LINES=010A58;MANICHAEAN LETTER TETH=010ACE;CHAKMA LETTER U=011105" \o
      ";DOGRA LETTER LA=011825;CUNEIFORM SIGN MUSH TIMES KUR=012234" \o
      ";CUNEIFORM SIGN NINDA2 TIMES NE=012258;CUNEIFORM SIGN LAK-648 TIMES GA=01250F" \o
      ";PAHAWH HMONG SIGN CIM NRES TOS=016B77" \o
      ";ZNAMENNY COMBINING MARK POVYSHE S KHOKHLOM ON RIGHT=01CF16" \o
      ";ZNAMENNY NEUME STRELA DVOECHELNOKRYZHEVAYA=01CF9C;BYZANTINE MUSICAL SYMBOL SYNAGMA NEO=01D065" \o
      ";MUSICAL SYMBOL COMBINING DOIT=01D185;MATHEMATICAL SANS-SERIF BOLD ITALIC CAPITAL P=01D64B" \o
      ";MENDE KIKAKUI SYLLABLE M081 PEE=01E88F;ADLAM DIGIT TWO=01E952" \o
      ";OTTOMAN SIYAQ ALTERNATE NUMBER THREE=01ED30;ARABIC MATHEMATICAL DOUBLE-STRUCK LAM=01EEAB" \o
      ";PLAYING CARD THREE OF DIAMONDS=01F0C3;COOKING=01F373;SPOUTING WHALE=01F433;BATHTUB=01F6C1" \o
      ";GORILLA=01F98D",
    ";LATIN SMALL LETTER D WITH TAIL=000256;GUJARATI VOWEL SIGN AU=000ACC;TAMIL LETTER CA=000B9A" \o
      ";TIBETAN SIGN YAR TSHES=000F3E;TIBETAN SUBJOINED LETTER TTHA=000F9B" \o
      ";MYANMAR SIGN WESTERN PWO KAREN TONE-3=00106B;ETHIOPIC SYLLABLE THAA=001323" \o
      ";CANADIAN SYLLABICS PWO=001440;CANADIAN SYLLABICS CARRIER DEE=001453" \o
      ";CANADIAN SYLLABICS TYI=001571;CANADIAN SYLLABICS BLACKFOOT A=0015B3;BUHID LETTER NA=001748" \o
      ";KHMER LETTER CA=001785;CANADIAN SYLLABICS NOY=0018BB;BATAK LETTER WA=001BCB" \o
      ";VULGAR FRACTION THREE EIGHTHS=00215C;CIRCLED LATIN CAPITAL LETTER O=0024C4" \o
      ";BOX DRAWINGS LIGHT VERTICAL AND RIGHT=00251C;LATIN SMALL LETTER TURNED R WITH TAIL=002C79" \o
      ";YI SYLLABLE NBA=00A07F;YI SYLLABLE DDI=00A138;YI SYLLABLE CIE=00A2B4;VAI SYLLABLE JI=00A540" \o
      ";VAI SYLLABLE RA=00A55F;VAI SYLLABLE DO=00A5D1;VAI SYLLABLE EN=00A5E2;VAI SYLLABLE NE=00A609" \o
      ";CHAM PUNCTUATION DANDA=00AA5D;FULLWIDTH LEFT SQUARE BRACKET=00FF3B" \o
      ";HALFWIDTH HANGUL LETTER RIEUL=00FFA9;GREEK OBOL SIGN=01017C;CARIAN LETTER M=0102AA" \o
      ";PHOENICIAN LETTER SADE=010911;OLD HUNGARIAN CAPITAL LETTER A=010C80;KAITHI LETTER A=011083" \o
      ";SORA SOMPENG LETTER EH=0110E7;NEWA LETTER GHA=011411;AHOM LETTER NGA=011702" \o
      ";DOGRA LETTER MA=011822;PAU CIN HAU SANDHI TONE=011AEC;CUNEIFORM SIGN LAK-617 TIMES LA=012506" \o
      ";MIAO LETTER LHA=016F18;MATHEMATICAL SANS-SERIF BOLD ITALIC CAPITAL Q=01D64C" \o
      ";TOTO LETTER BREATHY AE=01E2AC;MENDE KIKAKUI SYLLABLE M008 MAN=01E815" \o
      ";MENDE KIKAKUI SYLLABLE M103 BOO=01E820;INDIC SIYAQ NUMBER SIX=01EC76" \o
      ";SQUARED FIVE POINT ONE=01F1A0;SQUARED TWENTY-TWO POINT TWO=01F1A2;T-SHIRT=01F455" \o
      ";BANKNOTE WITH YEN SIGN=01F4B4;SPEAKER=01F508;TAG DOLLAR SIGN=0E0024",
    ";ARABIC SMALL HIGH ROUNDED ZERO=0006DF;GURMUKHI VOWEL SIGN AA=000A3E" \o
      ";THAI CHARACTER CHO CHOE=000E0C;TIBETAN SUBJOINED LETTER KSSA=000FB9" \o
      ";MYANMAR SIGN WESTERN PWO KAREN TONE-4=00106C;CANADIAN SYLLABICS TTO=001469" \o
      ";CANADIAN SYLLABICS YOO=00152B;KHMER LETTER DA=00178A;LIMBU LETTER BA=001912" \o
      ";LIMBU DIGIT ONE=001947;TAI THAM LETTER HIGH SA=001A48" \o
      ";GREEK SMALL LETTER OMICRON WITH DASIA=001F41;TRADE MARK SIGN=002122;WREATH PRODUCT=002240" \o
      ";CIRCLED LATIN CAPITAL LETTER P=0024C5;BLACK RIGHT-POINTING PENTAGON=002B53" \o
      ";THREE-D TOP-LIGHTED LEFTWARDS EQUILATERAL ARROWHEAD=002B98" \o
      ";BLACK MEDIUM RIGHT-POINTING TRIANGLE CENTRED=002BC8;COPTIC SMALL LETTER RO=002CA3" \o
      ";CJK RADICAL C-SIMPLIFIED TOOTH=002EEE;KANGXI RADICAL MORNING=002FA0" \o
      ";PARENTHESIZED HANGUL TIKEUT A=003210;PARENTHESIZED IDEOGRAPH REACH=003243" \o
      ";SQUARE KM CUBED=0033A6;YI SYLLABLE DIE=00A105;YI RADICAL SHOP=00A4C2;VAI SYLLABLE KI=00A543" \o
      ";VAI SYLLABLE SA=00A562;BAMUM LETTER EE=00A6A4;HANGUL CHOSEONG RIEUL-KHIEUKH=00A96E" \o
      ";JAVANESE CONSONANT SIGN KERET=00A9BD;ETHIOPIC SYLLABLE DDHO=00AB0E" \o
      ";ARABIC LIGATURE GHAIN WITH JEEM ISOLATED FORM=00FC2B" \o
      ";PRESENTATION FORM FOR VERTICAL COLON=00FE13;ARABIC LETTER NOON MEDIAL FORM=00FEE8" \o
      ";CARIAN LETTER N=0102B5;OLD PERMIC LETTER VOOI=01035E;PHOENICIAN LETTER LAMD=01090B" \o
      ";MEROITIC CURSIVE NUMBER FOUR HUNDRED=0109D5;BRAHMI LETTER I=011007" \o
      ";MAHAJANI LIGATURE SHRI=011176;SIDDHAM LETTER TWO-CIRCLE ALTERNATE I=0115D9" \o
      ";MODI LETTER JHA=011616;DOGRA LETTER NA=01181D;DIVES AKURU LETTER PHA=011921" \o
      ";DIVES AKURU LETTER LLA=01192E;TAMIL TRADITIONAL NUMBER SIGN=011FE9" \o
      ";CUNEIFORM SIGN LAGAB TIMES GAR=0121C5;CUNEIFORM SIGN SHA3 TIMES SHU2=0122B3" \o
      ";CUNEIFORM SIGN LAGAB TIMES ZU OVER ZU=0124D4;BAMUM LETTER PHASE-E FA=0169BB" \o
      ";MIAO LETTER MHA=016F05;MIAO LETTER NGA=016F23" \o
      ";MATHEMATICAL SANS-SERIF BOLD ITALIC CAPITAL R=01D64D" \o
      ";SIGNWRITING MOVEMENT-WALLPLANE CHECK MEDIUM=01D940;NYIAKENG PUACHUE HMONG SIGN FOR THING=01E138" \o
      ";ARABIC MATHEMATICAL LOOPED TAH=01EE88;CHERRY BLOSSOM=01F338;GAME DIE=01F3B2;RECEIPT=01F9FE" \o
      ";POURING LIQUID=01FAD7;RIGHT OPEN SQUARED DOT=01FBBC",
    ";NKO COMBINING DOUBLE DOT ABOVE=0007F3;SAMARITAN VOWEL SIGN O=00082B" \o
      ";DEVANAGARI LETTER NNNA=000929;MALAYALAM SIGN VISARGA=000D03;SINHALA LETTER AEYANNA=000D87" \o
      ";TIBETAN SYMBOL PHUR PA=000FC8;MYANMAR SIGN WESTERN PWO KAREN TONE-5=00106D" \o
      ";HANGUL CHOSEONG IEUNG-PHIEUPH=00114B;ETHIOPIC SYLLABLE DDWA=0012FF" \o
      ";ETHIOPIC SYLLABLE GWAA=001313;CANADIAN SYLLABICS CARRIER GHA=0015C9" \o
      ";CANADIAN SYLLABICS CARRIER CHE=001663;BUHID LETTER PA=001749;MONGOLIAN MANCHU COMMA=001808" \o
      ";CANADIAN SYLLABICS POY=0018B4;CANADIAN SYLLABICS RWO=0018D1;LIMBU LETTER CA=001906" \o
      ";TAI THAM LETTER HIGH TA=001A32;BATAK LETTER YA=001BDB;VEDIC SIGN UPADHMANIYA=001CF6" \o
      ";LATIN LETTER SMALL CAPITAL REVERSED N=001D0E;CADA UNA=002106" \o
      ";CIRCLED LATIN CAPITAL LETTER Q=0024C6;FISHEYE=0025C9;STAFF OF HERMES=00269A" \o
      ";UNMARRIED PARTNERSHIP SYMBOL=0026AF;OPEN CENTRE TEARDROP-SPOKED ASTERISK=00273C;ADMETOS=002BE5" \o
      ";COMBINING CYRILLIC LETTER TSE=002DF0;KANGXI RADICAL PRIVATE=002F1B;SQUARE M OVER S=0033A7" \o
      ";HEXAGRAM FOR INFLUENCE=004DDE;YI SYLLABLE BAP=00A021;YI SYLLABLE BBO=00A067" \o
      ";YI SYLLABLE NDA=00A159;YI SYLLABLE GGE=00A228;VAI SYLLABLE LI=00A537;VAI SYLLABLE TA=00A55A" \o
      ";VAI SYLLABLE FO=00A5C9;VAI SYLLABLE PE=00A5E8;VAI SYLLABLE NG=00A60B" \o
      ";ETHIOPIC SYLLABLE DZAA=00AB13;LATIN SMALL LETTER U BAR WITH SHORT RIGHT LEG=00AB4F" \o
      ";HANGUL JONGSEONG SIOS-CHIEUCH=00D7F0;ARABIC LETTER PEH INITIAL FORM=00FB58" \o
      ";ARABIC LETTER TAH INITIAL FORM=00FEC3;HALFWIDTH HANGUL LETTER PIEUP=00FFB2" \o
      ";CARIAN LETTER O=0102AB;MANICHAEAN LETTER QOPH=010ADE;MODI LETTER KHA=01160F" \o
      ";TAKRI LETTER AA=011681;WARANG CITI CAPITAL LETTER ANG=0118AA;CUNEIFORM SIGN TA GUNU=0122EF" \o
      ";MIAO LETTER NHA=016F11;MATHEMATICAL SANS-SERIF BOLD ITALIC CAPITAL S=01D64E" \o
      ";MATHEMATICAL BOLD ITALIC THETA SYMBOL=01D751" \o
      ";SIGNWRITING HAND-FLAT SPLIT INDEX THUMB SIDE=01D861" \o
      ";SIGNWRITING FACE DIRECTION POSITION NOSE UP OR DOWN=01DA08" \o
      ";MENDE KIKAKUI SYLLABLE M162 SEE=01E831;ARABIC MATHEMATICAL DOUBLE-STRUCK TAH=01EEA8" \o
      ";CYCLONE=01F300;DELIVERY TRUCK=01F69A;ALCHEMICAL SYMBOL FOR TARTAR-2=01F740",
    ";CYRILLIC CAPITAL LETTER ABKHASIAN DZE=0004E0;CYRILLIC CAPITAL LETTER I WITH MACRON=0004E2" \o
      ";CYRILLIC CAPITAL LETTER DZZHE=00052A;SINHALA LETTER FAYANNA=000DC6;LAO DIGIT SEVEN=000ED7" \o
      ";CANADIAN SYLLABICS SWO=0014FC;CANADIAN SYLLABICS YWI=001531" \o
      ";CANADIAN SYLLABICS CARRIER GEE=0015F2;CANADIAN SYLLABICS CARRIER DLA=00162D" \o
      ";LIMBU LETTER DA=00190D;CIRCLED LATIN CAPITAL LETTER R=0024C7" \o
      ";CIRCLED NUMBER THIRTY ON BLACK SQUARE=00324A;SQUARE MM CUBED=0033A3;YI SYLLABLE CAP=00A2B9" \o
      ";VAI SYLLABLE MI=00A546;VAI SYLLABLE GO=00A5DD;VAI SYMBOL BANG=00A617;BAMUM LETTER KA=00A6A1" \o
      ";HANGUL CHOSEONG PIEUP-KHIEUKH=00A973;HEBREW LIGATURE YIDDISH YOD YOD PATAH=00FB1F" \o
      ";HALFWIDTH WHITE CIRCLE=00FFEE;PHAISTOS DISC SIGN PEDESTRIAN=0101D0;CARIAN LETTER P=0102B7" \o
      ";CAUCASIAN ALBANIAN LETTER CHAT=010556;MEROITIC CURSIVE NUMBER ONE THOUSAND=0109DB" \o
      ";NEWA LETTER JHA=011417;TAKRI LETTER BA=0116A0;TAKRI DIGIT ONE=0116C1;AHOM LETTER PHA=011707" \o
      ";AHOM LETTER LLA=011746;DOGRA LETTER PA=01181E;WARANG CITI CAPITAL LETTER ODD=0118B1" \o
      ";BHAIKSUKI VOWEL SIGN U=011C32" \o
      ";CUNEIFORM SIGN ASH OVER ASH TUG2 OVER TUG2 TUG2 OVER TUG2 PAP=01203B" \o
      ";CUNEIFORM SIGN LAGAB TIMES TAG=0121E2;CYPRO-MINOAN SIGN CM001=012F90" \o
      ";CYPRO-MINOAN SIGN CM010=012F98;CYPRO-MINOAN SIGN CM100=012FE5" \o
      ";DUPLOYAN AFFIX ATTACHED E HOOK=01BC7A;MATHEMATICAL SANS-SERIF BOLD ITALIC CAPITAL T=01D64F" \o
      ";MATHEMATICAL SANS-SERIF BOLD CAPITAL UPSILON=01D76A" \o
      ";SIGNWRITING HAND-FIST INDEX THUMB CURVE THUMB UNDER=01D8EA;SIGNWRITING FULL STOP=01DA88" \o
      ";MENDE KIKAKUI SYLLABLE M053 HIN=01E871;MENDE KIKAKUI SYLLABLE M092 KPA=01E8A0" \o
      ";ARABIC MATHEMATICAL LOOPED REH=01EE93;DOLPHIN=01F42C;CLOCK FACE THREE OCLOCK=01F552" \o
      ";EMPTY DOCUMENT=01F5CB;HEAVY NORTH WEST POINTING BUD=01F664;UPWARDS ROCKET=01F66D" \o
      ";SMOKING SYMBOL=01F6AC;TAG DIGIT SEVEN=0E0037",
    ";QUOTATION MARK=000022;COMBINING MACRON BELOW=000331;COMBINING ZIGZAG ABOVE=00035B" \o
      ";MANDAIC LETTER USHENNA=000845;ETHIOPIC SYLLABLE PHEE=001334" \o
      ";CANADIAN SYLLABICS CARRIER HEE=001436;CANADIAN SYLLABICS TWO=00145D" \o
      ";CANADIAN SYLLABICS BLACKFOOT E=0015B0;BUHID LETTER RA=00174D" \o
      ";TAI THAM CONSONANT SIGN LOW PA=001A5A;LATIN SMALL LETTER ALPHA WITH RETROFLEX HOOK=001D90" \o
      ";MODIFIER LETTER SMALL REVERSED OPEN E=001D9F;GREEK SMALL LETTER EPSILON WITH DASIA=001F11" \o
      ";UPWARDS HARPOON WITH BARB RIGHTWARDS=0021BE;RIGHTWARDS HARPOON WITH BARB UPWARDS=0021C0" \o
      ";LEFTWARDS ARROW TO BAR=0021E4;CIRCLED LATIN CAPITAL LETTER S=0024C8" \o
      ";UPWARDS TRIANGLE-HEADED ARROW=002B61;ETHIOPIC SYLLABLE GYAA=002DDB" \o
      ";COMBINING CYRILLIC LETTER YAT=002DFA;YI SYLLABLE DAP=00A10A;YI SYLLABLE HLA=00A1A0" \o
      ";YI SYLLABLE GIE=00A1E0;YI SYLLABLE MGA=00A234;YI RADICAL HXIT=00A499;YI RADICAL JJUT=00A4AA" \o
      ";VAI SYLLABLE IN=00A525;VAI SYLLABLE NI=00A547;VAI SYLLABLE VA=00A559;VAI SYLLABLE BU=00A59D" \o
      ";VAI SYLLABLE HO=00A5BD;VAI SYLLABLE RE=00A5F8;BAMUM LETTER LA=00A6AA" \o
      ";LATIN SMALL LETTER LUM=00A772;ARABIC LETTER OE ISOLATED FORM=00FBD9" \o
      ";ARABIC LIGATURE GHAIN WITH MEEM ISOLATED FORM=00FC2C;CARIAN LETTER Q=0102A8" \o
      ";PHOENICIAN LETTER GAML=010902;OLD NORTH ARABIAN LETTER GHAIN=010A96" \o
      ";OLD HUNGARIAN CAPITAL LETTER E=010C89;BRAHMI PUNCTUATION DOUBLE DOT=01104A" \o
      ";KAITHI LETTER E=011089;SORA SOMPENG LETTER IH=0110E4;NEWA LETTER KHA=01140F" \o
      ";MODI LETTER NGA=011612;TAKRI LETTER CA=01168F;DOGRA LETTER II=011803" \o
      ";DIVES AKURU LETTER SHA=01192A;CUNEIFORM SIGN MUSH OVER MUSH=012236" \o
      ";CUNEIFORM SIGN UR CROSSING UR=012329;CUNEIFORM SIGN LAK-449 TIMES U2 PLUS BA=0124F6" \o
      ";CYPRO-MINOAN SIGN CM002=012F91;CYPRO-MINOAN SIGN CM011=012F99;CYPRO-MINOAN SIGN CM101=012FE6" \o
      ";CYPRO-MINOAN SIGN CM110=012FEE;PAHAWH HMONG VOWEL KOV=016B13;MIAO LETTER QGA=016F22" \o
      ";BYZANTINE MUSICAL SYMBOL FANEROSIS DIFONIAS=01D0B0" \o
      ";MATHEMATICAL SANS-SERIF BOLD ITALIC CAPITAL U=01D650" \o
      ";MATHEMATICAL SANS-SERIF BOLD ITALIC SMALL ETA=01D7B0" \o
      ";LATIN SMALL LETTER TURNED Y WITH BELT=01DF06;MENDE KIKAKUI SYLLABLE M091 TEE=01E847" \o
      ";MENDE KIKAKUI SYLLABLE M038 NAN=01E864;ARABIC MATHEMATICAL DOUBLE-STRUCK REH=01EEB3" \o
      ";PIG FACE=01F437;ALCHEMICAL SYMBOL FOR STRATUM SUPER STRATUM=01F75C",
    ";LATIN CAPITAL LETTER U WITH DIAERESIS=0000DC" \o
      ";LATIN SMALL LETTER U WITH DIAERESIS AND ACUTE=0001D8;LATIN SMALL LETTER B WITH HOOK=000253" \o
      ";LATIN SMALL LETTER L WITH BELT=00026C;ARMENIAN EMPHASIS MARK=00055B" \o
      ";ORIYA SIGN CANDRABINDU=000B01;TAMIL LETTER HA=000BB9;SINHALA LETTER HAYANNA=000DC4" \o
      ";HANGUL JUNGSEONG EU-EU=001196;ETHIOPIC SYLLABLE QHEE=001254;ETHIOPIC SYLLABLE CHWA=00132F" \o
      ";ETHIOPIC SYLLABLE BWEE=001386;CANADIAN SYLLABICS WEST-CREE L=0014EB;BUHID LETTER SA=001750" \o
      ";KHMER LETTER HA=0017A0;KHMER SIGN TOANDAKHIAT=0017CD;CANADIAN SYLLABICS SOY=0018BE" \o
      ";NEW TAI LUE DIGIT EIGHT=0019D8;KHMER SYMBOL PRAM KOET=0019E5" \o
      ";CIRCLED LATIN CAPITAL LETTER T=0024C9;BOX DRAWINGS HEAVY VERTICAL AND RIGHT=002523" \o
      ";BLACK TWO-WAY LEFT WAY TRAFFIC=0026D6;DINGBAT NEGATIVE CIRCLED SANS-SERIF DIGIT ONE=00278A" \o
      ";FORKING=002ADC;ETHIOPIC SYLLABLE CCHU=002DB9;COMBINING CYRILLIC LETTER LITTLE YUS=002DFD" \o
      ";HANGUL LETTER A=00314F;CIRCLED HANGUL THIEUTH=00326B;SQUARE V OVER M=0033DE" \o
      ";YI SYLLABLE HMA=00A09A;YI SYLLABLE NGA=00A262;YI SYLLABLE HIE=00A270;VAI SYLLABLE WA=00A54E" \o
      ";VAI SYLLABLE CU=00A5B0;VAI SYLLABLE SE=00A5FB;VAI SYMBOL DANG=00A61A;BAMUM LETTER MA=00A6E3" \o
      ";MODIFIER LETTER EXTRA-HIGH DOTTED LEFT-STEM TONE BAR=00A70D;LATIN SMALL LETTER MUM=00A773" \o
      ";CHAM LETTER MUE=00AA1F;CHAM LETTER SSA=00AA26;HANGUL JUNGSEONG YU-AE=00D7B7" \o
      ";ARABIC LETTER NG ISOLATED FORM=00FBD3;GREEK YEAR SIGN=010179;CARIAN LETTER R=0102A5" \o
      ";OLD PERSIAN SIGN XSHAAYATHIYA=0103CB;NEWA LETTER LHA=01142F;MODI ABBREVIATION SIGN=011643" \o
      ";TAKRI LETTER DA=01169B;DOGRA LETTER RA=011824;DIVES AKURU LETTER NNA=01191A" \o
      ";DIVES AKURU LETTER THA=01191C;DIVES AKURU DIGIT FOUR=011954" \o
      ";CUNEIFORM SIGN IDIM OVER IDIM SQUARED=012144;CUNEIFORM SIGN ZA TENU=01235E" \o
      ";CYPRO-MINOAN SIGN CM012=012F9A;CYPRO-MINOAN SIGN CM021=012FA0;CYPRO-MINOAN SIGN CM030=012FA8" \o
      ";CYPRO-MINOAN SIGN CM102=012FE7;BAMUM LETTER PHASE-B MA=01688C;BAMUM LETTER PHASE-F EE=016A06" \o
      ";MRO DIGIT EIGHT=016A68;TANGSA LETTER LONG UEX=016A91;PAHAWH HMONG SIGN CIM TSOV ROG=016B45" \o
      ";ZNAMENNY COMBINING MARK MALO POVYSHE ON LEFT=01CF06" \o
      ";BYZANTINE MUSICAL SYMBOL OYRANISMA ARCHAION=01D02C;MUSICAL SYMBOL FLAT UP=01D12C" \o
      ";MUSICAL SYMBOL HALF PEDAL MARK=01D1B0;MATHEMATICAL SANS-SERIF BOLD ITALIC CAPITAL V=01D651" \o
      ";SIGNWRITING HAND-FIST MIDDLE THUMB ANGLED OUT INDEX CROSSED=01D841" \o
      ";MENDE KIKAKUI SYLLABLE M122 MBU=01E895;MENDE KIKAKUI SYLLABLE M108 KPE=01E8A3" \o
      ";ADLAM CAPITAL LETTER BA=01E904;ARABIC MATHEMATICAL LOOPED TEH=01EE95" \o
      ";PLAYING CARD QUEEN OF DIAMONDS=01F0CD;HAIRCUT=01F487;STRAIGHT RULER=01F4CF" \o
      ";RAISED HAND WITH PART BETWEEN MIDDLE AND RING FINGERS=01F596;ICE CUBE=01F9CA" \o
      ";BLOCK SEXTANT-1=01FB00",
    ";UNIT SEPARATOR=00001F;LATIN SMALL LETTER C WITH HOOK=000188" \o
      ";LATIN SMALL LETTER U WITH DIAERESIS AND CARON=0001DA" \o
      ";GREEK CAPITAL LETTER ALPHA WITH TONOS=000386;ARABIC-INDIC DIGIT FIVE=000665" \o
      ";ARABIC-INDIC DIGIT NINE=000669;NKO DIGIT THREE=0007C3;TAMIL LETTER EE=000B8F" \o
      ";TAMIL LETTER AI=000B90;SINHALA LETTER EEYANNA=000D92;SINHALA LETTER AIYANNA=000D93" \o
      ";ETHIOPIC SYLLABLE KWAA=0012B3;ETHIOPIC SYLLABLE ZHAA=0012E3" \o
      ";CANADIAN SYLLABICS FINAL ACUTE=00141F;CANADIAN SYLLABICS WEST-CREE M=0014BC" \o
      ";CANADIAN SYLLABICS TYO=001572;CANADIAN SYLLABICS CARRIER GHE=0015C6" \o
      ";CANADIAN SYLLABICS CARRIER KHA=0015FA;CANADIAN SYLLABICS CARRIER JEE=001618" \o
      ";CANADIAN SYLLABICS CARRIER CHI=001665;BUHID LETTER TA=001746;LIMBU LETTER GA=001903" \o
      ";TAI THAM SIGN MAI YAMOK=001AA7;LATIN LETTER SMALL CAPITAL REVERSED R=001D19" \o
      ";GREEK SMALL LETTER ALPHA WITH OXIA AND YPOGEGRAMMENI=001FB4;BLACK LEFTWARDS BULLET=00204C" \o
      ";DOES NOT DIVIDE=002224;CIRCLED LATIN CAPITAL LETTER U=0024CA;CIRCLED CROSSING LANES=0026D2" \o
      ";LONG RIGHT TACK=0027DD;LINE INTEGRATION WITH SEMICIRCULAR PATH AROUND POLE=002A13" \o
      ";THREE-D RIGHT-LIGHTED UPWARDS EQUILATERAL ARROWHEAD=002B99" \o
      ";KANGXI RADICAL HALF TREE TRUNK=002F59;YI SYLLABLE BAT=00A01E;YI SYLLABLE BEP=00A02B" \o
      ";YI SYLLABLE FAP=00A0D4;YI SYLLABLE DDO=00A146;YI SYLLABLE NDE=00A160;YI SYLLABLE HNA=00A172" \o
      ";YI SYLLABLE GGI=00A216;YI RADICAL HXOP=00A4BF;VAI SYLLABLE PI=00A52A;VAI SYLLABLE DU=00A5AA" \o
      ";VAI SYLLABLE JO=00A5D8;VAI SYLLABLE TE=00A5F3;BAMUM LETTER NA=00A6DB" \o
      ";LATIN SMALL LETTER NUM=00A774;CHAM LETTER NUE=00AA17" \o
      ";LATIN SMALL LETTER BLACKLETTER O WITH STROKE=00AB3E" \o
      ";ARABIC LIGATURE UIGHUR KIRGHIZ YEH WITH HAMZA ABOVE WITH ALEF MAKSURA INITIAL FORM=00FBFB" \o
      ";ARABIC LETTER TEH INITIAL FORM=00FE97;LYCIAN LETTER A=010280;CARIAN LETTER S=0102B0" \o
      ";INSCRIPTIONAL PARTHIAN LETTER LAMEDH=010B4B;OLD HUNGARIAN CAPITAL LETTER SHORT ER=010CA3" \o
      ";KHOJKI LETTER A=011200;NEWA LETTER NGA=011412;NEWA LETTER MHA=01142A;DOGRA LETTER SA=011829" \o
      ";NANDINAGARI LETTER RRA=0119D0;CUNEIFORM SIGN DU GUNU=01207C" \o
      ";CUNEIFORM SIGN GA2 TIMES DIM TIMES SHE=0120C5;CUNEIFORM SIGN LU2 TIMES KAD3 PLUS ASH=012207" \o
      ";CUNEIFORM SIGN TE GUNU=0122FD;CUNEIFORM SIGN UD GUNU=012319" \o
      ";CUNEIFORM NUMERIC SIGN ONE THIRD DISH=01245A;CUNEIFORM SIGN EZEN SHESHIG TIMES LAL=0124B1" \o
      ";CYPRO-MINOAN SIGN CM004=012F92;CYPRO-MINOAN SIGN CM013=012F9C;CYPRO-MINOAN SIGN CM040=012FB0" \o
      ";CYPRO-MINOAN SIGN CM103=012FE8;CYPRO-MINOAN SIGN CM112=012FEF;CYPRO-MINOAN SIGN CM301=012FF1" \o
      ";BAMUM LETTER PHASE-C NDEUAEREE=016894;BYZANTINE MUSICAL SYMBOL VAREIA EKFONITIKON=01D005" \o
      ";MATHEMATICAL SANS-SERIF BOLD ITALIC CAPITAL W=01D652" \o
      ";SIGNWRITING MOVEMENT-FLOORPLANE HUMP HITTING CEILING LARGE DOUBLE=01D9BA" \o
      ";SIGNWRITING MOVEMENT-FLOORPLANE LOOP HITTING CEILING LARGE DOUBLE=01D9C0;WANCHO LETTER A=01E2C1" \o
      ";MENDE KIKAKUI SYLLABLE M126 WEE=01E80B;MENDE KIKAKUI SYLLABLE M117 NEN=01E866" \o
      ";MENDE KIKAKUI SYLLABLE M174 MBO=01E89A;MENDE KIKAKUI SYLLABLE M132 KPI=01E89F" \o
      ";MENDE KIKAKUI COMBINING NUMBER TEN THOUSANDS=01E8D4;ADLAM SMALL LETTER SINNYIIYHE=01E927" \o
      ";INDIC SIYAQ NUMBER TWO=01EC72;ARABIC MATHEMATICAL DOUBLE-STRUCK TEH=01EEB5" \o
      ";SQUARED THREE D=01F19B;SQUARED EIGHT K=01F19F;OPEN HANDS SIGN=01F450" \o
      ";VERTICAL TRAFFIC LIGHT=01F6A6;BLOCK SEXTANT-2=01FB01",
    ";LATIN SMALL LETTER D WITH HOOK=000257;LATIN SMALL LETTER TURNED R WITH HOOK=00027B" \o
      ";LATIN LETTER SMALL CAPITAL INVERTED R=000281;GREEK SMALL LETTER FINAL SIGMA=0003C2" \o
      ";ARABIC FOOTNOTE MARKER=000602;THAANA LETTER DAVIYANI=000791" \o
      ";ARABIC LETTER YEH WITH TWO DOTS BELOW AND HAMZA ABOVE=0008A8;GURMUKHI TIPPI=000A70" \o
      ";TAMIL LETTER JA=000B9C;THAI CHARACTER KHO KHAI=000E02;HANGUL JONGSEONG CIEUC=0011BD" \o
      ";ETHIOPIC SYLLABLE SHEE=00123C;ETHIOPIC SYLLABLE KXAA=0012BB" \o
      ";CANADIAN SYLLABICS CARRIER JJA=001621;CANADIAN SYLLABICS CARRIER DLE=00162A" \o
      ";CANADIAN SYLLABICS CARRIER LHA=001633;LIMBU LETTER HA=00191C;TAI THAM LETTER HIGH YA=001A40" \o
      ";LATIN CAPITAL LETTER W WITH DIAERESIS=001E84" \o
      ";GREEK CAPITAL LETTER ETA WITH PROSGEGRAMMENI=001FCC" \o
      ";GREEK CAPITAL LETTER IOTA WITH VRACHY=001FD8;CIRCLED LATIN CAPITAL LETTER V=0024CB" \o
      ";BOX DRAWINGS DOWN LIGHT AND HORIZONTAL HEAVY=00252F" \o
      ";BOX DRAWINGS DOWN HEAVY AND HORIZONTAL LIGHT=002530;BLACK RECTANGLE=0025AC;SPARKLE=002747" \o
      ";LOWER LEFT SEMICIRCULAR ANTICLOCKWISE ARROW=00293F;RIGHT FISH TAIL=00297D" \o
      ";RIGHT ARC GREATER-THAN BRACKET=002994;ROTATED LIGHT FOUR POINTED BLACK CUSP=002BCD" \o
      ";GLAGOLITIC SMALL LETTER FRITU=002C47;SQUARE SIRINGU=003321;SQUARE MEETORU=00334D" \o
      ";SQUARE ERA NAME SYOUWA=00337C;YI SYLLABLE GAP=00A1E5;YI SYLLABLE CAT=00A2B6" \o
      ";YI SYLLABLE CEP=00A2C3;YI SYLLABLE JIE=00A3E6;YI RADICAL NYIP=00A493;VAI SYLLABLE YA=00A569" \o
      ";VAI SYLLABLE KO=00A5DB;VAI DIGIT SEVEN=00A627;MODIFIER LETTER CHINESE TONE YIN PING=00A700" \o
      ";ETHIOPIC SYLLABLE DDHU=00AB09;HANGUL JUNGSEONG I-YEO=00D7BF;LYCIAN LETTER B=010282" \o
      ";CARIAN LETTER T=0102AD;LYDIAN LETTER A=010920;BRAHMI LETTER O=011011;NEWA LETTER NHA=011424" \o
      ";NEWA ABBREVIATION SIGN=01144F;MODI LETTER PHA=011623;MODI LETTER LLA=01162F" \o
      ";AHOM LETTER THA=01170C;AHOM DIGIT FOUR=011734;AHOM LETTER NNA=011745;DOGRA LETTER TA=011819" \o
      ";WARANG CITI CAPITAL LETTER HAR=0118BC;CUNEIFORM SIGN LAGAB TIMES GUD=0121C6" \o
      ";CUNEIFORM SIGN TI TENU=0122FF;CYPRO-MINOAN SIGN CM005=012F93;CYPRO-MINOAN SIGN CM023=012FA1" \o
      ";CYPRO-MINOAN SIGN CM041=012FB1;CYPRO-MINOAN SIGN CM050=012FB6;CYPRO-MINOAN SIGN CM104=012FE9" \o
      ";CYPRO-MINOAN SIGN CM302=012FF2;BAMUM LETTER PHASE-F KA=016A03;PAHAWH HMONG SIGN XYOO=016B64" \o
      ";MIAO LETTER SHA=016F33;DUPLOYAN AFFIX ATTACHED I HOOK=01BC7B" \o
      ";MATHEMATICAL SANS-SERIF BOLD ITALIC CAPITAL X=01D653" \o
      ";SIGNWRITING HAND-FIST THUMB UNDER INDEX BENT=01D808" \o
      ";SIGNWRITING HAND-ANGLE INDEX RING LITTLE OUT=01D8C2;MENDE KIKAKUI SYLLABLE M007 MIN=01E814" \o
      ";MENDE KIKAKUI SYLLABLE M180 DOO=01E842;MENDE KIKAKUI SYLLABLE M133 FOO=01E85F" \o
      ";MENDE KIKAKUI SYLLABLE M148 GBU=01E8A8;MENDE KIKAKUI SYLLABLE M064 NDO=01E8B4" \o
      ";MENDE KIKAKUI SYLLABLE M173 VEE=01E8BC;OTTOMAN SIYAQ ALTERNATE NUMBER TWO THOUSAND=01ED3A" \o
      ";ARABIC MATHEMATICAL LOOPED ZAH=01EE9A;DIGIT SIX COMMA=01F107;RAINBOW=01F308;VOLCANO=01F30B" \o
      ";BOWLING=01F3B3;BRIDE WITH VEIL=01F470;DESKTOP WINDOW=01F5D4" \o
      ";SMILING FACE WITH OPEN MOUTH AND TIGHTLY-CLOSED EYES=01F606" \o
      ";EXTREMELY HEAVY FIVE SPOKED ASTERISK=01F7B4;BLOCK SEXTANT-3=01FB03",
    ";LATIN SMALL LETTER U WITH DIAERESIS AND GRAVE=0001DC;SAMARITAN VOWEL SIGN U=000827" \o
      ";DEVANAGARI LETTER TTHA=000920;TAMIL LETTER KA=000B95;THAI CHARACTER PHINTHU=000E3A" \o
      ";THAI DIGIT FOUR=000E54;HANGUL CHOSEONG FILLER=00115F;ETHIOPIC SYLLABLE THEE=001324" \o
      ";CANADIAN SYLLABICS NASKAPI S-W=00150B;CANADIAN SYLLABICS BLACKFOOT I=0015B1" \o
      ";CANADIAN SYLLABICS CARRIER LEE=001625;KHMER LETTER KA=001780" \o
      ";LATIN CAPITAL LETTER X WITH DIAERESIS=001E8C;SEGMENT=002313" \o
      ";CIRCLED LATIN CAPITAL LETTER W=0024CC;HEAVY EXCLAMATION MARK SYMBOL=002757" \o
      ";GLAGOLITIC SMALL LETTER RITSI=002C43;ETHIOPIC SYLLABLE GGWA=002D93" \o
      ";ETHIOPIC SYLLABLE KYAA=002DCB;CJK RADICAL J-SIMPLIFIED TOOTH=002EED;YI SYLLABLE BBU=00A06E" \o
      ";YI SYLLABLE NBI=00A078;YI SYLLABLE DAT=00A107;YI SYLLABLE DEP=00A113;YI SYLLABLE HLE=00A1A9" \o
      ";YI SYLLABLE KIE=00A1FD;YI SYLLABLE MGE=00A23E;YI SYLLABLE HAP=00A274;VAI SYLLABLE RI=00A538" \o
      ";VAI SYLLABLE ZA=00A564;VAI SYLLABLE FU=00A5A2;VAI SYLLABLE LO=00A5CF;VAI SYLLABLE VE=00A5F2" \o
      ";BAMUM LETTER PA=00A6AB;ARABIC LETTER VEH INITIAL FORM=00FB6C" \o
      ";ARABIC LIGATURE SHEEN WITH KHAH ISOLATED FORM=00FD0B;ARABIC LETTER ZAH INITIAL FORM=00FEC7" \o
      ";CARIAN LETTER U=0102B2;DESERET CAPITAL LETTER LONG AH=010403;LYDIAN LETTER B=010921" \o
      ";MEROITIC CURSIVE NUMBER TEN THOUSAND=0109E4;OLD HUNGARIAN CAPITAL LETTER I=010C90" \o
      ";KAITHI LETTER I=011085;SORA SOMPENG DIGIT SIX=0110F6;TAKRI LETTER GA=01168C" \o
      ";AHOM SIGN RULAI=01173E;DOGRA LETTER AU=011809;NANDINAGARI LETTER SSA=0119CC" \o
      ";BHAIKSUKI DANDA=011C41;CYPRO-MINOAN SIGN CM006=012F94;CYPRO-MINOAN SIGN CM015=012F9D" \o
      ";CYPRO-MINOAN SIGN CM024=012FA2;CYPRO-MINOAN SIGN CM033=012FA9;CYPRO-MINOAN SIGN CM051=012FB7" \o
      ";CYPRO-MINOAN SIGN CM060=012FBF;CYPRO-MINOAN SIGN CM105=012FEA;CYPRO-MINOAN SIGN CM114=012FF0" \o
      ";BAMUM LETTER PHASE-B LOM NTEUM=01685B;BAMUM LETTER PHASE-E MA=0169FB" \o
      ";BAMUM LETTER PHASE-F LA=016A0A;MIAO LETTER PLA=016F03;MIAO LETTER VFA=016F09" \o
      ";MIAO LETTER NNA=016F14;MIAO LETTER BRI=016F45;DUPLOYAN AFFIX LOW DOT=01BC94" \o
      ";MUSICAL SYMBOL COMBINING STEM=01D165;GREEK VOCAL NOTATION SYMBOL-10=01D209" \o
      ";MAYAN NUMERAL EIGHTEEN=01D2F2;MATHEMATICAL SANS-SERIF BOLD ITALIC CAPITAL Y=01D654" \o
      ";SIGNWRITING HAND-FIST INDEX MIDDLE CONJOINED=01D815" \o
      ";SIGNWRITING HAND-ANGLE INDEX THUMB IN=01D8F3;MENDE KIKAKUI SYLLABLE M042 HOO=01E86D" \o
      ";OTTOMAN SIYAQ ALTERNATE NUMBER SEVEN=01ED34;ARABIC MATHEMATICAL DOUBLE-STRUCK ZAH=01EEBA" \o
      ";PLAYING CARD SEVEN OF DIAMONDS=01F0C7;MAMMOTH=01F9A3;BLOCK SEXTANT-4=01FB07",
    ";LATIN CAPITAL LETTER Y WITH DIAERESIS=000178;LATIN SMALL LETTER F WITH HOOK=000192" \o
      ";GREEK CAPITAL LETTER OMEGA WITH TONOS=00038F" \o
      ";CYRILLIC CAPITAL LETTER SCHWA WITH DIAERESIS=0004DA" \o
      ";ARABIC LETTER REH WITH DOT BELOW AND DOT ABOVE=000696;SAMARITAN LETTER GAMAN=000802" \o
      ";SAMARITAN LETTER LABAT=00080B;GURMUKHI VOWEL SIGN EE=000A47;GURMUKHI VOWEL SIGN AI=000A48" \o
      ";TAMIL LETTER LA=000BB2;ETHIOPIC SYLLABLE FWEE=00138A;CANADIAN SYLLABICS FINAL GRAVE=001420" \o
      ";CANADIAN SYLLABICS WEST-CREE P=00144A;CANADIAN SYLLABICS YWO=001535" \o
      ";CANADIAN SYLLABICS CARRIER KKA=001600;CANADIAN SYLLABICS CARRIER MEE=00160B" \o
      ";BUHID LETTER WA=00174F;KHMER LETTER LA=0017A1;LIMBU LETTER JA=001908" \o
      ";KHMER SYMBOL BUON KOET=0019E4" \o
      ";GREEK SMALL LETTER ETA WITH DASIA AND PERISPOMENI AND YPOGEGRAMMENI=001F97" \o
      ";GREEK SMALL LETTER OMEGA WITH OXIA AND YPOGEGRAMMENI=001FF4" \o
      ";VULGAR FRACTION SEVEN EIGHTHS=00215E;CIRCLED LATIN CAPITAL LETTER X=0024CD;LOZENGE=0025CA" \o
      ";SALTIRE=002613;BOTTOM HALF RIGHT PARENTHESIS=002E5C;HANGUL LETTER E=003154" \o
      ";SQUARE KUROONE=00331B;YI SYLLABLE LIE=00A1BD;YI SYLLABLE NGE=00A26C;YI SYLLABLE CHO=00A36B" \o
      ";YI RADICAL SHUR=00A4BA;VAI SYLLABLE SI=00A53B;VAI SYLLABLE GU=00A5B6;VAI SYLLABLE MO=00A5DE" \o
      ";VAI SYLLABLE WE=00A5E6;LATIN CAPITAL LETTER TRESILLO=00A72A" \o
      ";LATIN SMALL LETTER SCRIPT R WITH RING=00AB4C" \o
      ";PRESENTATION FORM FOR VERTICAL RIGHT CORNER BRACKET=00FE42;AEGEAN NUMBER THIRTY THOUSAND=01012D" \o
      ";GREEK ACROPHONIC ATTIC FIVE THOUSAND TALENTS=01014E;LYCIAN LETTER D=010285" \o
      ";OLD PERMIC LETTER YERU=010368;OLD PERMIC LETTER TSIU=01036D" \o
      ";COMBINING OLD PERMIC LETTER AN=010376;OLD PERSIAN NUMBER TWO=0103D2;LYDIAN LETTER C=010939" \o
      ";MANICHAEAN LETTER XOPH=010ADF;NEWA LETTER PHA=011426;TAKRI LETTER HA=0116A9" \o
      ";DOGRA LETTER VA=011826;DIVES AKURU DIGIT ZERO=011950;NANDINAGARI LETTER NYA=0119B7" \o
      ";CUNEIFORM SIGN LAGAB TIMES KIN=0121D0;CUNEIFORM SIGN SI GUNU=0122DC" \o
      ";CUNEIFORM SIGN EZEN SHESHIG TIMES ASH=0124AD;CYPRO-MINOAN SIGN CM007=012F95" \o
      ";CYPRO-MINOAN SIGN CM025=012FA3;CYPRO-MINOAN SIGN CM034=012FAA;CYPRO-MINOAN SIGN CM052=012FB8" \o
      ";CYPRO-MINOAN SIGN CM061=012FC0;CYPRO-MINOAN SIGN CM070=012FC8;BAMUM LETTER PHASE-E NA=0169F6" \o
      ";BAMUM LETTER PHASE-F MA=016A32;GREEK VOCAL NOTATION SYMBOL-11=01D20A" \o
      ";GREEK VOCAL NOTATION SYMBOL-20=01D213;GREEK INSTRUMENTAL NOTATION SYMBOL-1=01D21D" \o
      ";MATHEMATICAL SANS-SERIF BOLD ITALIC CAPITAL Z=01D655;MENDE KIKAKUI SYLLABLE M143 WEI=01E810" \o
      ";MENDE KIKAKUI SYLLABLE M196 SIA=01E835;MENDE KIKAKUI SYLLABLE M109 YEE=01E856" \o
      ";MENDE KIKAKUI SYLLABLE M197 FUA=01E861;ADLAM CAPITAL LETTER FA=01E90A;CONFOUNDED FACE=01F616" \o
      ";ALCHEMICAL SYMBOL FOR REGULUS OF IRON=01F71F;ALCHEMICAL SYMBOL FOR IRON-COPPER ORE=01F721" \o
      ";VAMPIRE=01F9DB;BLOCK SEXTANT-5=01FB0F",
    ";LATIN SMALL LETTER G WITH HOOK=000260;MODIFIER LETTER LEFT HALF RING=0002BF" \o
      ";TAMIL LETTER MA=000BAE;SINHALA LETTER MAYANNA=000DB8;HANGUL CHOSEONG IEUNG-THIEUTH=00114A" \o
      ";HANGUL JONGSEONG KIYEOK-HIEUH=0011FE;ETHIOPIC SYLLABLE HHWA=001217" \o
      ";ETHIOPIC SYLLABLE GWEE=001314;CANADIAN SYLLABICS NASKAPI WAA=00141B" \o
      ";CANADIAN SYLLABICS CARRIER GHI=0015C8;CANADIAN SYLLABICS CARRIER KHE=0015F7" \o
      ";CANADIAN SYLLABICS CARRIER NEE=001605;LIMBU LETTER KA=001901" \o
      ";BALINESE LETTER RA REPA TEDUNG=001B0C;COMBINING MACRON-ACUTE=001DC4" \o
      ";COMBINING ACUTE-MACRON=001DC7;DOUBLE LOW LINE=002017;SUPERSCRIPT LEFT PARENTHESIS=00207D" \o
      ";CORRESPONDS TO=002258;VERY MUCH GREATER-THAN=0022D9;LEFT SQUARE BRACKET EXTENSION=0023A2" \o
      ";BLACK CIRCLE FOR RECORD=0023FA;CIRCLED LATIN CAPITAL LETTER Y=0024CE;CROSSED SWORDS=002694" \o
      ";LESS-THAN OR SLANTED EQUAL TO WITH DOT INSIDE=002A7F" \o
      ";SLANTED EQUAL TO OR LESS-THAN WITH DOT INSIDE=002A97;DOUBLE STROKE NOT SIGN=002AEC" \o
      ";LEFT RIGHT WHITE ARROW=002B04;APOLLON=002BE4;ETHIOPIC SYLLABLE PHOA=002D91" \o
      ";ETHIOPIC SYLLABLE SSAA=002DA3;CIRCLED NUMBER TWENTY ON BLACK SQUARE=003249" \o
      ";SQUARE SAIKURU=00331F;IDEOGRAPHIC TELEGRAPH SYMBOL FOR HOUR ELEVEN=003363" \o
      ";YI SYLLABLE BIP=00A019;YI SYLLABLE BAX=00A01F;YI SYLLABLE MIE=00A0B3;YI SYLLABLE FAT=00A0D1" \o
      ";YI SYLLABLE NDI=00A153;YI SYLLABLE HNE=00A17A;VAI SYLLABLE TI=00A533;VAI SYLLABLE HU=00A597" \o
      ";VAI SYLLABLE ON=00A5BB;VAI SYLLABLE NO=00A5DF;LATIN SMALL LETTER RUM=00A775" \o
      ";ETHIOPIC SYLLABLE DZEE=00AB14;HANGUL JONGSEONG TIKEUT-CIEUC=00D7D2;LYCIAN LETTER E=010281" \o
      ";CAUCASIAN ALBANIAN LETTER SHAK=010550;MODIFIER LETTER BILABIAL CLICK=0107B5" \o
      ";LYDIAN LETTER D=010923;OLD SOUTH ARABIAN LETTER SADHE=010A6E" \o
      ";OLD HUNGARIAN SMALL LETTER AMB=010CC3;OLD HUNGARIAN SMALL LETTER ECH=010CE9" \o
      ";SORA SOMPENG LETTER OH=0110E6;KHOJKI LETTER E=011204;MODI LETTER SHA=01162B" \o
      ";TAKRI LETTER AI=011687;AHOM NUMBER TEN=01173A;NANDINAGARI LETTER TTA=0119B8" \o
      ";BHAIKSUKI NUMBER EIGHT=011C61;CUNEIFORM SIGN SHA3 TIMES GISH=0122B1" \o
      ";CYPRO-MINOAN SIGN CM008=012F96;CYPRO-MINOAN SIGN CM017=012F9E;CYPRO-MINOAN SIGN CM026=012FA4" \o
      ";CYPRO-MINOAN SIGN CM035=012FAB;CYPRO-MINOAN SIGN CM044=012FB2;CYPRO-MINOAN SIGN CM053=012FB9" \o
      ";CYPRO-MINOAN SIGN CM062=012FC1;CYPRO-MINOAN SIGN CM071=012FC9;CYPRO-MINOAN SIGN CM080=012FD2" \o
      ";CYPRO-MINOAN SIGN CM107=012FEB;BAMUM LETTER PHASE-C YU MUOMAE=0168A2" \o
      ";PAHAWH HMONG VOWEL KUV=016B07;MIAO LETTER DZA=016F38;MIAO TONE BELOW=016F92" \o
      ";DUPLOYAN LETTER LONG I=01BC4F;GREEK VOCAL NOTATION SYMBOL-12=01D20B" \o
      ";GREEK VOCAL NOTATION SYMBOL-21=01D214;GREEK INSTRUMENTAL NOTATION SYMBOL-2=01D21E" \o
      ";MATHEMATICAL ITALIC SMALL BETA=01D6FD;WANCHO LETTER E=01E2DB" \o
      ";MENDE KIKAKUI SYLLABLE M059 MEN=01E817;ADLAM CAPITAL LETTER GA=01E918" \o
      ";ARABIC MATHEMATICAL DAD=01EE19;ARABIC MATHEMATICAL LOOPED YEH=01EE89" \o
      ";BLACK CHESS EQUIHOPPER=01FA49;BLOCK SEXTANT-6=01FB1E",
    ";LATIN SMALL LETTER LAMBDA WITH STROKE=00019B;LATIN SMALL LETTER C WITH CURL=000255" \o
      ";LATIN SMALL LETTER H WITH HOOK=000266;SAMARITAN LETTER DALAT=000803" \o
      ";SAMARITAN MARK EPENTHETIC YUT=00081B;ARABIC LETTER ALEF WITH ATTACHED KASRA=000874" \o
      ";ARABIC LETTER TEH WITH SMALL TEH ABOVE=0008B8;ORIYA LETTER AA=000B06;TAMIL LETTER NA=000BA8" \o
      ";ETHIOPIC SYLLABLE NYAA=00129B;ETHIOPIC SYLLABLE TSAA=00133B" \o
      ";CANADIAN SYLLABICS WEST-CREE R=001551;CANADIAN SYLLABICS CARRIER JJE=00161E" \o
      ";CANADIAN SYLLABICS CARRIER DLI=00162C;CANADIAN SYLLABICS CARRIER LHE=001630" \o
      ";BUHID LETTER YA=00174C;CANADIAN SYLLABICS YOY=0018C3;LIMBU LETTER LA=001917" \o
      ";TAI THAM LETTER LOW CHA=001A2B;DOUBLE-STRUCK SMALL PI=00213C;CIRCLED DIVISION SLASH=002298" \o
      ";CIRCLED LATIN CAPITAL LETTER Z=0024CF;WEDGE-TAILED RIGHTWARDS ARROW=0027BC" \o
      ";NORTH WEST BLACK ARROW=002B09;SQUARE MANSYON=003347;SQUARE MIKURON=003348" \o
      ";IDEOGRAPHIC TELEGRAPH SYMBOL FOR DAY SIXTEEN=0033EF;YI SYLLABLE NIE=00A182" \o
      ";YI SYLLABLE GAT=00A1E2;YI SYLLABLE GEP=00A1F1;YI SYLLABLE KAP=00A202;YI SYLLABLE CIP=00A2B1" \o
      ";YI SYLLABLE CAX=00A2B7;YI SYLLABLE SHA=00A3AD;YI RADICAL HXUO=00A49F;VAI SYLLABLE OO=00A571" \o
      ";VAI SYLLABLE YE=00A602;BAMUM LETTER KI=00A6E5;LATIN SMALL LETTER ANGLICANA W=00A7C3" \o
      ";SYLOTI NAGRI LETTER BO=00A81B;LATIN SMALL LETTER OPEN O WITH STROKE=00AB3F" \o
      ";ARABIC LETTER VE ISOLATED FORM=00FBDE" \o
      ";ARABIC LIGATURE MEEM WITH KHAH WITH JEEM INITIAL FORM=00FD8E" \o
      ";ARABIC LIGATURE MEEM WITH JEEM WITH KHAH INITIAL FORM=00FD92" \o
      ";ARABIC LETTER YEH INITIAL FORM=00FEF3;FULLWIDTH GRAVE ACCENT=00FF40;CARIAN LETTER X=0102B4" \o
      ";NABATAEAN LETTER ZAYIN=010889;LYDIAN LETTER E=010924;KHAROSHTHI LETTER DDHA=010A1D" \o
      ";OLD UYGHUR LETTER BETH=010F71;NEWA LETTER RHA=01142D;MODI LETTER NNA=01161C" \o
      ";MODI LETTER THA=01161E;MODI DIGIT FOUR=011654;TAKRI LETTER JA=011691;AHOM DIGIT ZERO=011730" \o
      ";CYPRO-MINOAN SIGN CM009=012F97;CYPRO-MINOAN SIGN CM027=012FA5;CYPRO-MINOAN SIGN CM036=012FAC" \o
      ";CYPRO-MINOAN SIGN CM054=012FBA;CYPRO-MINOAN SIGN CM063=012FC2;CYPRO-MINOAN SIGN CM072=012FCA" \o
      ";CYPRO-MINOAN SIGN CM081=012FD3;CYPRO-MINOAN SIGN CM090=012FDC;CYPRO-MINOAN SIGN CM108=012FEC" \o
      ";ZNAMENNY COMBINING MARK TSATA ON LEFT=01CF02;BYZANTINE MUSICAL SYMBOL NANA=01D040" \o
      ";GREEK VOCAL NOTATION SYMBOL-13=01D20C;GREEK VOCAL NOTATION SYMBOL-22=01D215" \o
      ";MATHEMATICAL BOLD CAPITAL IOTA=01D6B0;MATHEMATICAL SANS-SERIF BOLD ITALIC SMALL PHI=01D7BF" \o
      ";SIGNWRITING HAND-HINGE LITTLE=01D88A" \o
      ";SIGNWRITING MOVEMENT-FLOORPLANE CURVE HITTING FLOOR SMALL=01D9C6" \o
      ";SIGNWRITING DYNAMIC EVERY OTHER TIME=01D9FD;MENDE KIKAKUI SYLLABLE M160 JOO=01E850" \o
      ";MENDE KIKAKUI SYLLABLE M037 NIN=01E863;MENDE KIKAKUI SYLLABLE M125 NDU=01E8B0" \o
      ";ADLAM CAPITAL LETTER HA=01E916;ARABIC MATHEMATICAL DOUBLE-STRUCK YEH=01EEA9;CUSTARD=01F36E" \o
      ";PENGUIN=01F427;ON WITH EXCLAMATION MARK WITH LEFT RIGHT ARROW ABOVE=01F51B" \o
      ";SPIRAL NOTE PAD=01F5D2;HEAVY SOUTH WEST POINTING BUD=01F665;OVERHEATED FACE=01F975" \o
      ";LAB COAT=01F97C;COMPASS=01F9ED;TAG NUMBER SIGN=0E0023",
    ";LATIN SMALL LETTER D WITH CURL=000221;ARABIC KASRATAN=00064D;ORIYA LETTER BA=000B2C" \o
      ";ORIYA DIGIT ONE=000B67;THAI DIGIT ZERO=000E50;HANGUL CHOSEONG IEUNG-PANSIOS=001146" \o
      ";ETHIOPIC SYLLABLE QWAA=00124B;CANADIAN SYLLABICS CARRIER PEE=0015EB" \o
      ";CANADIAN SYLLABICS CARRIER CHO=001662;RUNIC LETTER SHORT-TWIG-SOL S=0016CC" \o
      ";LIMBU LETTER MA=001914;NEW TAI LUE DIGIT THREE=0019D3;TAI THAM HORA DIGIT SIX=001A86" \o
      ";TAI THAM THAM DIGIT SIX=001A96;BATAK VOWEL SIGN KARO I=001BEB;VEDIC TONE CANDRA ABOVE=001CF4" \o
      ";MODIFIER LETTER SMALL BARRED O=001DB1;COMBINING BREVE-MACRON=001DCB" \o
      ";COMBINING MACRON-BREVE=001DCC;SQUARE ORIGINAL OF OR EQUAL TO=002292" \o
      ";PITCHFORK WITH TEE TOP=002ADA;ETHIOPIC SYLLABLE GGWE=002D96;ETHIOPIC SYLLABLE GYEE=002DDC" \o
      ";YI SYLLABLE BBY=00A074;YI SYLLABLE DIP=00A103;YI SYLLABLE DAX=00A108;YI SYLLABLE DDU=00A14D" \o
      ";YI SYLLABLE HLI=00A199;YI SYLLABLE LAP=00A1C2;YI SYLLABLE GGO=00A224;YI SYLLABLE HAT=00A271" \o
      ";YI SYLLABLE HEP=00A27F;YI SYLLABLE JJI=00A41A;VAI SYLLABLE VI=00A532;VAI SYLLABLE JU=00A5B1" \o
      ";VAI SYLLABLE PO=00A5C1;VAI SYLLABLE ZE=00A5FD;BAMUM LETTER LI=00A6DC" \o
      ";LATIN SMALL LETTER TUM=00A777;SYLOTI NAGRI LETTER CO=00A80C;TAI VIET LETTER HIGH BO=00AA9B" \o
      ";ARABIC SYMBOL THREE DOTS ABOVE=00FBB6;LYCIAN LETTER G=010284;PHOENICIAN LETTER DELT=010903" \o
      ";LYDIAN LETTER F=010931;MEROITIC CURSIVE NUMBER EIGHT=0109C7;OLD UYGHUR LETTER KAPH=010F77" \o
      ";NEWA LETTER SHA=011431;MONGOLIAN ROTATED BIRGA WITH DOUBLE ORNAMENT=011666" \o
      ";TAKRI LETTER KA=01168A;DOGRA LETTER YA=011823;DIVES AKURU SIGN NUKTA=011943" \o
      ";CUNEIFORM SIGN LAK-617 TIMES TE=012508;CUNEIFORM SIGN LAK-617 TIMES UD=01250A" \o
      ";CYPRO-MINOAN SIGN CM019=012F9F;CYPRO-MINOAN SIGN CM028=012FA6;CYPRO-MINOAN SIGN CM037=012FAD" \o
      ";CYPRO-MINOAN SIGN CM046=012FB3;CYPRO-MINOAN SIGN CM055=012FBB;CYPRO-MINOAN SIGN CM064=012FC3" \o
      ";CYPRO-MINOAN SIGN CM073=012FCB;CYPRO-MINOAN SIGN CM082=012FD4;CYPRO-MINOAN SIGN CM091=012FDD" \o
      ";CYPRO-MINOAN SIGN CM109=012FED;MRO DIGIT THREE=016A63;PAHAWH HMONG VOWEL KWV=016B19" \o
      ";MIAO LETTER ARCHAIC NGA=016F25;ZNAMENNY COMBINING MARK RAVNO=01CF22" \o
      ";ZNAMENNY NEUME STATYA S ROGOM=01CF8D;GREEK VOCAL NOTATION SYMBOL-14=01D20D" \o
      ";GREEK VOCAL NOTATION SYMBOL-23=01D216;GREEK VOCAL NOTATION SYMBOL-50=01D218" \o
      ";GREEK INSTRUMENTAL NOTATION SYMBOL-4=01D21F;MATHEMATICAL ITALIC CAPITAL PI=01D6F1" \o
      ";ETHIOPIC SYLLABLE HHYA=01E7E0;STADIUM=01F3DF;CLOCK FACE SEVEN OCLOCK=01F556;MINIBUS=01F690",
    ";COMBINING GREEK YPOGEGRAMMENI=000345;COMBINING LATIN SMALL LETTER A=000363" \o
      ";CYRILLIC SMALL LIGATURE EN GHE=0004A5;THAANA LETTER JAVIYANI=000796;ORIYA LETTER CA=000B1A" \o
      ";TAMIL LETTER PA=000BAA;SINHALA SIGN VISARGAYA=000D83;TIBETAN SIGN INVERTED MCHU CAN=000F8C" \o
      ";HANGUL CHOSEONG PIEUP-PHIEUPH=00112A;HANGUL CHOSEONG PHIEUPH-PIEUP=001156" \o
      ";HANGUL JUNGSEONG YEO-O=00117D;CANADIAN SYLLABICS CARRIER KKE=0015FD" \o
      ";MONGOLIAN LETTER ALI GALI TTHA=00188D;LIMBU LETTER NA=00190F;COMBINING GRAVE-MACRON=001DC5" \o
      ";COMBINING MACRON-GRAVE=001DC6;COMBINING ANTICLOCKWISE RING OVERLAY=0020DA;IMAGE OF=0022B7" \o
      ";APL FUNCTIONAL SYMBOL QUAD DOWN CARET=00234C;OCR BRANCH BANK IDENTIFICATION=002446" \o
      ";ETHIOPIC SYLLABLE SHOA=002D84;HANGUL LETTER I=003163;YI SYLLABLE IEP=00A007" \o
      ";YI SYLLABLE PIE=00A03D;YI SYLLABLE HMI=00A093;YI SYLLABLE MAP=00A0B8;YI RADICAL NYOP=00A4A7" \o
      ";VAI SYLLABLE WI=00A528;VAI SYLLABLE KU=00A5B4;BAMUM LETTER MI=00A6CE" \o
      ";SYLOTI NAGRI LETTER DO=00A816;TAI VIET LETTER HIGH CO=00AA8B;HANGUL JUNGSEONG O-YEO=00D7B0" \o
      ";HANGUL JUNGSEONG YO-EO=00D7B4;ARABIC LIGATURE SHEEN WITH JEEM ISOLATED FORM=00FD09" \o
      ";PHAISTOS DISC SIGN PLUMED HEAD=0101D1;LYCIAN LETTER H=01029B" \o
      ";MODIFIER LETTER SMALL DOTLESS J WITH STROKE AND HOOK=010798;LYDIAN LETTER G=010922" \o
      ";INSCRIPTIONAL PARTHIAN LETTER DALETH=010B43;OLD HUNGARIAN SMALL LETTER AND=010CC8" \o
      ";RUMI DIGIT FIVE=010E64;RUMI DIGIT NINE=010E68;CHORASMIAN LETTER BETH=010FB2" \o
      ";BRAHMI LETTER U=011009;NEWA LETTER NNA=01141E;NEWA LETTER THA=011420;NEWA DIGIT FOUR=011454" \o
      ";TAKRI LETTER LA=0116A5;WARANG CITI CAPITAL LETTER ENN=0118B0;TAMIL SIGN VELI=011FE3" \o
      ";CYPRO-MINOAN SIGN CM029=012FA7;CYPRO-MINOAN SIGN CM038=012FAE;CYPRO-MINOAN SIGN CM047=012FB4" \o
      ";CYPRO-MINOAN SIGN CM056=012FBC;CYPRO-MINOAN SIGN CM074=012FCC;CYPRO-MINOAN SIGN CM083=012FD5" \o
      ";CYPRO-MINOAN SIGN CM092=012FDE;GREEK VOCAL NOTATION SYMBOL-15=01D20E" \o
      ";GREEK VOCAL NOTATION SYMBOL-24=01D217;GREEK VOCAL NOTATION SYMBOL-51=01D219" \o
      ";GREEK INSTRUMENTAL NOTATION SYMBOL-5=01D220;TETRAGRAM FOR INCREASE=01D312" \o
      ";SIGNWRITING MOVEMENT-FLOORPLANE LOOP HITTING CEILING LARGE SINGLE=01D9BE" \o
      ";MENDE KIKAKUI SYLLABLE M102 POO=01E891;ADLAM VOWEL LENGTHENER=01E945;DIGIT TWO COMMA=01F103" \o
      ";FACTORY=01F3ED;COW FACE=01F42E;HEAVY EIGHT POINTED BLACK STAR=01F7CF;TAG EQUALS SIGN=0E003D",
    ";LATIN SMALL LETTER K WITH HOOK=000199;LATIN SMALL LETTER R WITH TAIL=00027D" \o
      ";ORIYA LETTER DA=000B26;TAMIL LETTER II=000B88;TAMIL YEAR SIGN=000BF5" \o
      ";SINHALA LETTER IIYANNA=000D8A;THAI CHARACTER SARA UEE=000E37;ETHIOPIC SYLLABLE KWEE=0012B4" \o
      ";ETHIOPIC SYLLABLE ZHEE=0012E4;CANADIAN SYLLABICS BLACKFOOT O=0015B2" \o
      ";CANADIAN SYLLABICS CARRIER REE=0015CD;CANADIAN SYLLABICS CARRIER KHI=0015F9" \o
      ";CANADIAN SYLLABICS CARRIER SHA=001659;KHMER LETTER CO=001787;KHMER LETTER QA=0017A2" \o
      ";LIMBU EXCLAMATION MARK=001944;COMBINING LATIN SMALL LETTER B=001DE8" \o
      ";GREEK SMALL LETTER ETA WITH PSILI AND OXIA AND YPOGEGRAMMENI=001F94" \o
      ";SUPERSCRIPT PLUS SIGN=00207A;SYMBOL FOR SUBSTITUTE=00241A;MUSIC FLAT SIGN=00266D" \o
      ";LESS-THAN CLOSED BY CURVE ABOVE SLANTED EQUAL=002AA8;ETHIOPIC SYLLABLE THOA=002D8F" \o
      ";ETHIOPIC SYLLABLE QYAA=002DC3;PARENTHESIZED IDEOGRAPH LABOR=003238;SQUARE MB SMALL=0033D4" \o
      ";YI SYLLABLE BIT=00A016;YI SYLLABLE BEX=00A029;YI SYLLABLE NBO=00A083;YI SYLLABLE FIP=00A0D0" \o
      ";YI SYLLABLE FAX=00A0D2;YI SYLLABLE HNI=00A16A;YI SYLLABLE NAP=00A186;YI SYLLABLE QIE=00A402" \o
      ";LISU LETTER CHA=00A4DB;VAI SYLLABLE LU=00A5A8;VAI SYLLABLE RO=00A5D0;BAMUM LETTER NI=00A6CF" \o
      ";MODIFIER LETTER MID DOTTED LEFT-STEM TONE BAR=00A70F" \o
      ";MODIFIER LETTER CAPITAL H WITH STROKE=00A7F8;TAI VIET LETTER HIGH DO=00AA93" \o
      ";ARABIC LIGATURE MEEM WITH KHAH WITH MEEM INITIAL FORM=00FD8F;SMALL EXCLAMATION MARK=00FE57" \o
      ";LYCIAN LETTER I=010286;CAUCASIAN ALBANIAN LETTER CAYN=010560" \o
      ";MEROITIC CURSIVE LOGOGRAM IMN=0109BF;OLD HUNGARIAN CAPITAL LETTER O=010C9B" \o
      ";OLD SOGDIAN NUMBER ONE HUNDRED=010F25;CHORASMIAN LETTER KAPH=010FBB;KAITHI LETTER O=01108B" \o
      ";SORA SOMPENG DIGIT TWO=0110F2;KHOJKI LETTER I=011202;TAKRI LETTER MA=0116A2" \o
      ";BHAIKSUKI SIGN VISARGA=011C3E;CUNEIFORM SIGN LAGAB TIMES U2 PLUS ASH=0121E8" \o
      ";CUNEIFORM SIGN LAK-648 TIMES NI=012512;CYPRO-MINOAN SIGN CM039=012FAF" \o
      ";CYPRO-MINOAN SIGN CM066=012FC4;CYPRO-MINOAN SIGN CM075=012FCD;CYPRO-MINOAN SIGN CM084=012FD6" \o
      ";BAMUM LETTER PHASE-E KI=0169FE;MIAO LETTER ZHA=016F35;GREEK VOCAL NOTATION SYMBOL-16=01D20F" \o
      ";GREEK VOCAL NOTATION SYMBOL-52=01D21A;LATIN SMALL LETTER TURNED T WITH CURL=01DF0D" \o
      ";TOTO LETTER BREATHY EO=01E2A9;WANCHO LETTER I=01E2DC;WANCHO TONE KOI=01E2EE" \o
      ";ETHIOPIC SYLLABLE HHWE=01E7EB;MENDE KIKAKUI SYLLABLE M179 KUA=01E807" \o
      ";MENDE KIKAKUI SYLLABLE M193 HON=01E875;BUILDING CONSTRUCTION=01F3D7" \o
      ";SOFT SHELL FLOPPY DISK=01F5AC;OVERLAP=01F5D7" \o
      ";SMILING FACE WITH OPEN MOUTH AND SMILING EYES=01F604;WIDE-HEADED UPWARDS BARB ARROW=01F869",
    ";PARTIAL LINE UP=00008C;COMBINING LATIN SMALL LETTER C=000368" \o
      ";GREEK SMALL LETTER PAMPHYLIAN DIGAMMA=000377;CYRILLIC CAPITAL LETTER U WITH MACRON=0004EE" \o
      ";ARABIC SIGN RAHMATULLAH ALAYHE=000612;NKO DIGIT SEVEN=0007C7;TAMIL LETTER RA=000BB0" \o
      ";MALAYALAM VOWEL SIGN VOCALIC L=000D62;SINHALA LETTER RAYANNA=000DBB" \o
      ";HANGUL JONGSEONG IEUNG-KIYEOK=0011EC;ETHIOPIC SYLLABLE KXEE=0012BC" \o
      ";CANADIAN SYLLABICS CARRIER THA=0015E1;CANADIAN SYLLABICS CARRIER JJI=001620" \o
      ";CANADIAN SYLLABICS CARRIER LHI=001632;CANADIAN SYLLABICS CARRIER SEE=001651" \o
      ";RUNIC LETTER SHORT-TWIG-OSS O=0016AD;KHMER LETTER DO=00178C;LIMBU LETTER PA=001910" \o
      ";UPWARDS ARROW FROM BAR=0021A5;METRICAL LONG OVER TWO SHORTS=0023D4" \o
      ";METRICAL TWO SHORTS OVER LONG=0023D5;DESCENDING NODE=00260B;WHITE SCISSORS=002704" \o
      ";CJK RADICAL HEAD=002EE1;IDEOGRAPHIC DESCRIPTION CHARACTER SURROUND FROM LOWER LEFT=002FFA" \o
      ";PARENTHESIZED IDEOGRAPH EIGHT=003227;YI SYLLABLE GIP=00A1DD;YI SYLLABLE GAX=00A1E3" \o
      ";YI SYLLABLE GET=00A1EE;YI SYLLABLE KAT=00A1FF;YI SYLLABLE KEP=00A20D;YI SYLLABLE CIT=00A2AE" \o
      ";YI SYLLABLE CEX=00A2C1;YI SYLLABLE CHU=00A372;YI SYLLABLE SHE=00A3B8;VAI SYLLABLE YI=00A542" \o
      ";VAI SYLLABLE MU=00A5B7;VAI SYLLABLE SO=00A5D3;BAMUM LETTER WA=00A6DA" \o
      ";HANGUL JONGSEONG RIEUL-PIEUP-PHIEUPH=00D7DA;HANGUL JONGSEONG PIEUP-RIEUL-PHIEUPH=00D7E4" \o
      ";LYCIAN LETTER J=01028A;CAUCASIAN ALBANIAN LETTER DYAN=010541;LYDIAN LETTER I=010926" \o
      ";GRANTHA SIGN COMBINING ANUSVARA ABOVE=011300;MODI DIGIT ZERO=011650;TAKRI LETTER NA=01169D" \o
      ";DIVES AKURU LETTER SSA=01192B;CUNEIFORM SIGN GISH TIMES TAK4=012114" \o
      ";CYPRO-MINOAN SIGN CM049=012FB5;CYPRO-MINOAN SIGN CM058=012FBD;CYPRO-MINOAN SIGN CM067=012FC5" \o
      ";CYPRO-MINOAN SIGN CM076=012FCF;CYPRO-MINOAN SIGN CM085=012FD7;CYPRO-MINOAN SIGN CM094=012FDF" \o
      ";MIAO TONE RIGHT=016F8F;GREEK VOCAL NOTATION SYMBOL-17=01D210" \o
      ";GREEK VOCAL NOTATION SYMBOL-53=01D21B;GREEK INSTRUMENTAL NOTATION SYMBOL-7=01D221" \o
      ";MENDE KIKAKUI SYLLABLE M054 LOO=01E83B;OFFICE BUILDING=01F3E2;DROPLET=01F4A7" \o
      ";LIGHT THREE POINTED BLACK STAR=01F7C0;SPOOL OF THREAD=01F9F5",
    ";LATIN SMALL LETTER M WITH HOOK=000271;COMBINING LATIN SMALL LETTER D=000369" \o
      ";SYRIAC HARKLEAN OBELUS=00070B;ARABIC SMALL HIGH WORD AS-SAJDA=0008DB;TAMIL LETTER SA=000BB8" \o
      ";THAI CHARACTER LO CHULA=000E2C;ETHIOPIC SYLLABLE MWEE=001382" \o
      ";CANADIAN SYLLABICS NUNAVIK HAA=00157A;CANADIAN SYLLABICS CARRIER GHO=0015C5" \o
      ";KHMER LETTER SA=00179F;COMBINING ZIGZAG BELOW=001DCF;SUBSCRIPT FOUR=002084" \o
      ";MEDIUM RIGHT-POINTING ANGLE BRACKET ORNAMENT=00276D" \o
      ";LEFTWARDS TWO-HEADED ARROW WITH TRIANGLE ARROWHEADS=002BEC;GLAGOLITIC SMALL LETTER SLOVO=002C44" \o
      ";ETHIOPIC SYLLABLE GGWI=002D94;ETHIOPIC SYLLABLE KYEE=002DCC;YI SYLLABLE BOP=00A028" \o
      ";YI SYLLABLE PAP=00A042;YI SYLLABLE DIT=00A100;YI SYLLABLE DEX=00A111;YI SYLLABLE NDO=00A15D" \o
      ";YI SYLLABLE LAT=00A1BF;YI SYLLABLE LEP=00A1CD;YI SYLLABLE HXA=00A250;YI SYLLABLE HAX=00A272" \o
      ";YI SYLLABLE SIE=00A30E;YI SYLLABLE NRA=00A396;YI SYLLABLE NJI=00A433;VAI SYLLABLE ZI=00A53D" \o
      ";VAI SYLLABLE UN=00A596;VAI SYLLABLE NU=00A5B8;VAI SYLLABLE TO=00A5CB;BAMUM LETTER PI=00A6DD" \o
      ";SYLOTI NAGRI LETTER GO=00A809;PHAGS-PA LETTER SMALL A=00A856" \o
      ";COMBINING DEVANAGARI DIGIT ONE=00A8E1;TAI VIET LETTER HIGH FO=00AAA1" \o
      ";ARABIC LIGATURE SHEEN WITH MEEM ISOLATED FORM=00FD0C;BYTE ORDER MARK=00FEFF" \o
      ";AEGEAN NUMBER TWENTY THOUSAND=01012C;LYCIAN LETTER K=01028B" \o
      ";MANICHAEAN PUNCTUATION DOUBLE DOT WITHIN DOT=010AF2;OLD HUNGARIAN SMALL LETTER ENC=010CC5" \o
      ";SORA SOMPENG LETTER UH=0110E5;DIVES AKURU LETTER NYA=011915;CUNEIFORM SIGN UN GUNU=012327" \o
      ";CUNEIFORM SIGN DUG TIMES ERIN2=012492;CUNEIFORM SIGN LAK-648 TIMES UD=012515" \o
      ";CYPRO-MINOAN SIGN CM059=012FBE;CYPRO-MINOAN SIGN CM068=012FC6;CYPRO-MINOAN SIGN CM086=012FD8" \o
      ";CYPRO-MINOAN SIGN CM095=012FE0;BAMUM LETTER PHASE-B MBA MAELEE=01685C" \o
      ";BAMUM LETTER PHASE-B NYI NTEUM=01686D;BAMUM LETTER PHASE-D NI=01695B" \o
      ";BAMUM LETTER PHASE-E MI=0169EE;BAMUM LETTER PHASE-F LI=016A2D;MRO LETTER KHAI=016A48" \o
      ";PAHAWH HMONG NUMBER TRILLIONS=016B61;GREEK VOCAL NOTATION SYMBOL-18=01D211" \o
      ";GREEK VOCAL NOTATION SYMBOL-54=01D21C;GREEK INSTRUMENTAL NOTATION SYMBOL-8=01D222" \o
      ";TALLY MARK FIVE=01D378;SIGNWRITING MOVEMENT-DIAGONAL TOWARDS LARGE=01D95B" \o
      ";ETHIOPIC SYLLABLE HHYE=01E7E5;ARABIC MATHEMATICAL BEH=01EE01" \o
      ";MAHJONG TILE SIX OF CHARACTERS=01F00C;BATTERY=01F50B" \o
      ";BLACK LEFT-POINTING ISOSCELES RIGHT TRIANGLE=01F780;VERY HEAVY GREEK CROSS=01F7A6" \o
      ";COCONUT=01F965;LOBSTER=01F99E",
    ";COMBINING LATIN SMALL LETTER E=000364;ARABIC LETTER FEH WITH DOT MOVED BELOW=0006A2" \o
      ";GURMUKHI VOWEL SIGN II=000A40;ORIYA LETTER GA=000B17;TAMIL LETTER TA=000BA4" \o
      ";TAMIL DIGIT SIX=000BEC;HANGUL JONGSEONG HIEUH=0011C2;ETHIOPIC SYLLABLE SZAA=001223" \o
      ";CANADIAN SYLLABICS CARRIER KKI=0015FF;CANADIAN SYLLABICS CARRIER DLO=001629" \o
      ";CANADIAN SYLLABICS CARRIER DZA=00164D;KHMER LETTER TA=00178F;KHMER DIGIT SIX=0017E6" \o
      ";CANADIAN SYLLABICS CARRIER GWA=0018F0;LIMBU LETTER RA=001916" \o
      ";BALINESE MUSICAL SYMBOL LEFT-HAND CLOSED PLAK=001B7A;DOUBLE-STRUCK ITALIC CAPITAL D=002145" \o
      ";UPWARDS WHITE ARROW ON PEDESTAL WITH HORIZONTAL BAR=0021EC;SYMBOL FOR BELL=002407" \o
      ";DOWNWARDS ARROW TO BAR=002913;DOUBLE NESTED LESS-THAN WITH UNDERBAR=002AA3" \o
      ";CJK RADICAL JADE=002EA9;PARENTHESIZED IDEOGRAPH METAL=00322E;LIMITED LIABILITY SIGN=0032CF" \o
      ";YI SYLLABLE IET=00A004;YI SYLLABLE MAT=00A0B5;YI SYLLABLE TIE=00A11F;YI SYLLABLE COP=00A2C0" \o
      ";BAMUM LETTER YA=00A6C2;BAMUM LETTER KO=00A6DF;SYLOTI NAGRI LETTER HO=00A822" \o
      ";TAI VIET LETTER HIGH GO=00AA87;ARABIC LETTER RNOON FINAL FORM=00FBA1" \o
      ";PRESENTATION FORM FOR VERTICAL RIGHT SQUARE BRACKET=00FE48;FULLWIDTH RIGHT CURLY BRACKET=00FF5D" \o
      ";GREEK ACROPHONIC THESPIAN ONE HUNDRED=01016A;LYCIAN LETTER L=01028D" \o
      ";IMPERIAL ARAMAIC LETTER LAMEDH=01084B;LYDIAN LETTER K=010928;NEWA DIGIT ZERO=011450" \o
      ";TAKRI LETTER PA=01169E;WARANG CITI CAPITAL LETTER SII=0118BE;DIVES AKURU LETTER TTA=011916" \o
      ";BHAIKSUKI NUMBER THREE=011C5C;TAMIL FRACTION THREE QUARTERS=011FD3" \o
      ";CUNEIFORM SIGN HUB2 TIMES LISH=01213C;CUNEIFORM NUMERIC SIGN THREE ASH TENU=01244B" \o
      ";CYPRO-MINOAN SIGN CM069=012FC7;CYPRO-MINOAN SIGN CM078=012FD0;CYPRO-MINOAN SIGN CM087=012FD9" \o
      ";CYPRO-MINOAN SIGN CM096=012FE1;MIAO LETTER LYA=016F17;GREEK VOCAL NOTATION SYMBOL-19=01D212" \o
      ";SQUARED LATIN CAPITAL LETTER A=01F130;RIGHTWARDS ARROW WITH EQUILATERAL ARROWHEAD=01F816" \o
      ";FOX FACE=01F98A",
    ";HORIZONTAL TABULATION=000009;GREEK PI SYMBOL=0003D6;BENGALI CURRENCY DENOMINATOR SIXTEEN=0009F9" \o
      ";ORIYA LETTER HA=000B39;TAMIL LETTER AU=000B94;SINHALA LETTER AUYANNA=000D96" \o
      ";TIBETAN DIGIT HALF FIVE=000F2E;TIBETAN DIGIT HALF NINE=000F32;ETHIOPIC SYLLABLE PHWA=001337" \o
      ";ETHIOPIC SYLLABLE TZAA=001343;CANADIAN SYLLABICS FINAL TOP HALF RING=001422" \o
      ";CANADIAN SYLLABICS BLACKFOOT S=001508;CANADIAN SYLLABICS WEST-CREE Y=001540" \o
      ";CANADIAN SYLLABICS CARRIER HWA=0015DB;CANADIAN SYLLABICS CARRIER SHE=001656" \o
      ";CANADIAN SYLLABICS CARRIER CHU=001661;OGHAM LETTER OR=001696" \o
      ";RUNIC LETTER NAUDIZ NYD NAUD N=0016BE;LIMBU LETTER SA=00191B;TAI THAM HORA DIGIT TWO=001A82" \o
      ";TAI THAM THAM DIGIT TWO=001A92;BATAK VOWEL SIGN KARO O=001BED" \o
      ";COMBINING LATIN SMALL LETTER F=001DEB;GREEK SMALL LETTER OMICRON WITH VARIA=001F78" \o
      ";DOUBLE HIGH-REVERSED-9 QUOTATION MARK=00201F;NEW SHEQEL SIGN=0020AA" \o
      ";LEFT RIGHT ARROW WITH DOUBLE VERTICAL STROKE=0021FC" \o
      ";LEFT RIGHT DOUBLE ARROW WITH VERTICAL STROKE=002904;ETHIOPIC SYLLABLE SSEE=002DA4" \o
      ";IDEOGRAPHIC DESCRIPTION CHARACTER SURROUND FROM UPPER LEFT=002FF8" \o
      ";PARENTHESIZED IDEOGRAPH EARTH=00322F;HEXAGRAM FOR GREAT POSSESSION=004DCD" \o
      ";YI SYLLABLE BIX=00A017;YI SYLLABLE FIT=00A0CD;YI SYLLABLE DOP=00A110;YI SYLLABLE NEP=00A190" \o
      ";YI SYLLABLE HLO=00A1A6;YI SYLLABLE GGU=00A22C;YI SYLLABLE MGO=00A23B;YI SYLLABLE ZHA=00A348" \o
      ";YI SYLLABLE RAP=00A3C9;YI SYLLABLE JIP=00A3E3;YI SYLLABLE JJO=00A425;LISU LETTER GHA=00A4ED" \o
      ";VAI SYLLABLE PU=00A59B;VAI SYLLABLE VO=00A5CA;BAMUM LETTER FU=00A6D8" \o
      ";LATIN CAPITAL LETTER TURNED INSULAR G=00A77E;TAI VIET LETTER HIGH HO=00AAAD" \o
      ";ARABIC LIGATURE SHEEN WITH HAH WITH MEEM INITIAL FORM=00FD68" \o
      ";LINEAR B IDEOGRAM B107F SHE-GOAT=010088;LYCIAN LETTER M=01028E;LYDIAN LETTER L=010929" \o
      ";TAKRI LETTER II=011683;AHOM LETTER NYA=011710" \o
      ";CUNEIFORM SIGN IGI OVER IGI SHIR OVER SHIR UD OVER UD=012149" \o
      ";CUNEIFORM SIGN LU2 TIMES ESH2 PLUS LAL=01238A;CUNEIFORM SIGN EZEN SHESHIG TIMES MES=0124B3" \o
      ";CUNEIFORM SIGN LAK-449 TIMES GU=0124F2;CYPRO-MINOAN SIGN CM079=012FD1" \o
      ";CYPRO-MINOAN SIGN CM088=012FDA;CYPRO-MINOAN SIGN CM097=012FE2" \o
      ";BAMUM LETTER PHASE-A PON MFON PIPAEMBA=016803;BAMUM LETTER PHASE-E YOQ COVER=0169E3" \o
      ";BAMUM LETTER PHASE-F NI=016A24;MIAO LETTER SSA=016F34;ZNAMENNY NEUME CHASHKA=01CF6F" \o
      ";MUSICAL SYMBOL FOUR-STRING FRETBOARD=01D11D;MATHEMATICAL BOLD CAPITAL ZETA=01D6AD" \o
      ";NYIAKENG PUACHUE HMONG SIGN FOR INVERTEBRATE=01E13B;ETHIOPIC SYLLABLE HHWI=01E7E9" \o
      ";MENDE KIKAKUI SYLLABLE M076 KOO=01E805;ARABIC MATHEMATICAL DAL=01EE03" \o
      ";ARABIC MATHEMATICAL HAH=01EE07;SQUARED LATIN CAPITAL LETTER B=01F131;CLOUD WITH RAIN=01F327" \o
      ";PLUNGER=01FAA0",
    ";LATIN SMALL LETTER P WITH HOOK=0001A5;THAANA LETTER PAVIYANI=000795;ORIYA LETTER AI=000B10" \o
      ";TAMIL LETTER VA=000BB5;SINHALA LETTER VAYANNA=000DC0;LAO SEMIVOWEL SIGN NYO=000EBD" \o
      ";TIBETAN SIGN RDEL DKAR RDEL NAG=000F1F;TIBETAN SIGN RDEL NAG RDEL DKAR=000FCE" \o
      ";HANGUL JUNGSEONG YA-YO=001179;HANGUL JUNGSEONG YEO-U=00117E;HANGUL JUNGSEONG YO-YA=001184" \o
      ";HANGUL JUNGSEONG YU-EO=00118F;ETHIOPIC SYLLABLE QHWA=001258;ETHIOPIC SYLLABLE XWAA=00128B" \o
      ";ETHIOPIC SYLLABLE NYEE=00129C;ETHIOPIC SYLLABLE TSEE=00133C;ETHIOPIC SYLLABLE PWEE=00138E" \o
      ";CANADIAN SYLLABICS CARRIER WEE=0015D3;CANADIAN SYLLABICS CARRIER THE=0015DE" \o
      ";CANADIAN SYLLABICS CARRIER TLA=00163F;LIMBU LETTER TA=00190B;LIMBU DIGIT SIX=00194C" \o
      ";TAI THAM LETTER LOW KHA=001A25;GREEK LETTER SMALL CAPITAL RHO=001D29" \o
      ";COMBINING LATIN SMALL LETTER G=001DDA;EM SPACE=002003;SCRUPLE=002108;SEXTILE=0026B9" \o
      ";LONG RIGHTWARDS DOUBLE ARROW FROM BAR=0027FE;LEFT BARB DOWN RIGHT BARB DOWN HARPOON=002950" \o
      ";SHORT LEFT TACK=002ADE;SOUTH WEST BLACK ARROW=002B0B" \o
      ";LATIN CAPITAL LETTER L WITH DOUBLE BAR=002C60;HANGUL LETTER O=003157;YI SYLLABLE HMO=00A0A1" \o
      ";YI SYLLABLE VIE=00A0E8;YI SYLLABLE GIT=00A1DA;YI SYLLABLE GEX=00A1EF;YI SYLLABLE KIP=00A1FB" \o
      ";YI SYLLABLE KAX=00A200;YI SYLLABLE KET=00A20A;YI SYLLABLE NGO=00A269;YI SYLLABLE CIX=00A2AF" \o
      ";YI SYLLABLE SAP=00A313;YI SYLLABLE CHY=00A378;LISU LETTER HHA=00A4E8;VAI SYLLABLE WO=00A5BF" \o
      ";BAMUM LETTER SI=00A6B7;BAMUM LETTER MO=00A6E6;LATIN CAPITAL LETTER GLOTTAL A=00A7BA" \o
      ";SYLOTI NAGRI LETTER JO=00A80E;HANGUL JUNGSEONG U-YEO=00D7B5" \o
      ";ARABIC LIGATURE MEEM WITH JEEM WITH MEEM INITIAL FORM=00FD8D;LYCIAN LETTER N=01028F" \o
      ";PHOENICIAN LETTER SEMK=01090E;LYDIAN LETTER M=01092A;MEROITIC CURSIVE NUMBER THREE=0109C2" \o
      ";KHAROSHTHI DIGIT THREE=010A42;OLD SOUTH ARABIAN LETTER GIMEL=010A74" \o
      ";OLD HUNGARIAN SMALL LETTER OEE=010CDF;CHORASMIAN LETTER HETH=010FB9;TAKRI LETTER RA=0116A4" \o
      ";AHOM LETTER TTA=011741;CANADIAN SYLLABICS NATTILIK HA=011AB4" \o
      ";CUNEIFORM SIGN LAGAB TIMES KUL=0121D2;CYPRO-MINOAN SIGN CM089=012FDB" \o
      ";CYPRO-MINOAN SIGN CM098=012FE3;BAMUM LETTER PHASE-D FEUFEUAET=016914" \o
      ";BAMUM LETTER PHASE-E PI=0169F7;BAMUM LETTER PHASE-F WA=016A2C;MRO LETTER MAEM=016A4E" \o
      ";MIAO LETTER NYA=016F2C;MIAO LETTER TSA=016F37;BYZANTINE MUSICAL SYMBOL APLI=01D085" \o
      ";MATHEMATICAL BOLD ITALIC CAPITAL LAMDA=01D726" \o
      ";MATHEMATICAL SANS-SERIF BOLD ITALIC SMALL RHO=01D7BA" \o
      ";SIGNWRITING MOVEMENT-FLOORPLANE PEAKS LARGE=01D980;SIGNWRITING SEMICOLON=01DA89" \o
      ";MENDE KIKAKUI SYLLABLE M094 MON=01E818;MENDE KIKAKUI SYLLABLE M104 TOO=01E849" \o
      ";ARABIC MATHEMATICAL KAF=01EE0A;ARABIC MATHEMATICAL LOOPED WAW=01EE85" \o
      ";SQUARED LATIN CAPITAL LETTER C=01F132;FRONT-FACING BABY CHICK=01F425" \o
      ";HOLLOW QUILT SQUARE ORNAMENT IN BLACK SQUARE=01F669;ROWBOAT=01F6A3" \o
      ";ALCHEMICAL SYMBOL FOR CINNABAR=01F713;ALCHEMICAL SYMBOL FOR IRON ORE=01F71C",
    ";LATIN SMALL LETTER L WITH CURL=000234;LATIN SMALL LETTER Q WITH HOOK=0002A0" \o
      ";MODIFIER LETTER MACRON=0002C9;COMBINING LATIN SMALL LETTER H=00036A;NKO DOROME SIGN=0007FE" \o
      ";BENGALI LETTER RA WITH MIDDLE DIAGONAL=0009F0;GUJARATI VOWEL SIGN UU=000AC2" \o
      ";ORIYA LETTER JA=000B1C;THAI CHARACTER SARA AI MAIMALAI=000E44" \o
      ";HANGUL JONGSEONG MIEUM-KIYEOK=0011DA;ETHIOPIC SYLLABLE QWEE=00124C" \o
      ";CANADIAN SYLLABICS CARRIER KHO=0015F6;CANADIAN SYLLABICS CARRIER JWA=0018F2" \o
      ";COMBINING LEFT PARENTHESIS ABOVE LEFT=001AC1;BALINESE LETTER DA MADU=001B25" \o
      ";VEDIC SIGN JIHVAMULIYA=001CF5;LATIN SMALL LETTER SCHWA WITH RETROFLEX HOOK=001D95" \o
      ";COMBINING DOUBLE INVERTED BREVE BELOW=001DFC;GREEK SMALL LETTER UPSILON WITH DASIA=001F51" \o
      ";EN SPACE=002002;SUBSCRIPT ZERO=002080;APL FUNCTIONAL SYMBOL UP TACK OVERBAR=002351" \o
      ";DENTISTRY SYMBOL LIGHT VERTICAL AND TOP LEFT=0023CB;CIRCLED NUMBER SIXTEEN=00246F" \o
      ";NEPTUNE=002646;YI SYLLABLE BOT=00A025;YI SYLLABLE PAT=00A03F;YI SYLLABLE NBU=00A087" \o
      ";YI SYLLABLE FOP=00A0D7;YI SYLLABLE DIX=00A101;YI SYLLABLE TAP=00A124;YI SYLLABLE LIP=00A1BA" \o
      ";YI SYLLABLE LAX=00A1C0;YI SYLLABLE HXE=00A25B;YI SYLLABLE HIT=00A26E;YI SYLLABLE HEX=00A27D" \o
      ";YI SYLLABLE RRA=00A37D;YI SYLLABLE NRE=00A39D;YI RADICAL NZUP=00A4B4;VAI SYLLABLE RU=00A5A9" \o
      ";BAMUM LETTER TI=00A6E4;SYLOTI NAGRI LETTER KO=00A807;SAURASHTRA LETTER DDHA=00A89F" \o
      ";GREEK ZERO SIGN=01018A;CAUCASIAN ALBANIAN LETTER INYA=01053F;LYDIAN LETTER N=01092B" \o
      ";INSCRIPTIONAL PARTHIAN LETTER SAMEKH=010B4E;OLD HUNGARIAN CAPITAL LETTER U=010CAA" \o
      ";OLD UYGHUR LETTER LESH=010F81;KAITHI LETTER U=011087;KHOJKI LETTER O=011206" \o
      ";NEWA SIGN NUKTA=011446;TAKRI LETTER SA=0116A8;CUNEIFORM SIGN LAGAB TIMES LUL=0121D7" \o
      ";CYPRO-MINOAN SIGN CM099=012FE4;BAMUM LETTER PHASE-E KO=0169F9;MIAO LETTER TTA=016F0E" \o
      ";DUPLOYAN AFFIX HIGH LONG GRAVE=01BC83;MATHEMATICAL ITALIC CAPITAL XI=01D6EF" \o
      ";MATHEMATICAL SANS-SERIF BOLD ITALIC SMALL TAU=01D7BD" \o
      ";SIGNWRITING MOVEMENT-FLOORPLANE HUMP HITTING CEILING SMALL DOUBLE=01D9B9" \o
      ";SIGNWRITING MOVEMENT-FLOORPLANE LOOP HITTING CEILING SMALL DOUBLE=01D9BF;WANCHO LETTER O=01E2D5" \o
      ";ETHIOPIC SYLLABLE HHYI=01E7E2;MENDE KIKAKUI SYLLABLE M158 KPO=01E8A5" \o
      ";ARABIC MATHEMATICAL FEH=01EE10;ARABIC MATHEMATICAL DOUBLE-STRUCK WAW=01EEA5" \o
      ";SQUARED LATIN CAPITAL LETTER D=01F133;BLOSSOM=01F33C;CAT FACE WITH WRY SMILE=01F63C" \o
      ";TRACTOR=01F69C;TRIANGLE WITH ROUNDED CORNERS=01F6C6;SCOOTER=01F6F4" \o
      ";RIGHT HALF MEDIUM SHADE=01FB8D",
    ";LATIN CAPITAL LETTER A WITH RING ABOVE=0000C5" \o
      ";LATIN SMALL LETTER A WITH RING ABOVE AND ACUTE=0001FB;COMBINING LONG STROKE OVERLAY=000336" \o
      ";COMBINING SQUARE BELOW=00033B;COMBINING UPWARDS ARROW BELOW=00034E" \o
      ";COMBINING LATIN SMALL LETTER I=000365;CYRILLIC SMALL LETTER IZHITSA=000475" \o
      ";SYRIAC LETTER E=000725;ARABIC POUND MARK ABOVE=000890;GURMUKHI VOWEL SIGN AU=000A4C" \o
      ";ORIYA LETTER KA=000B15;MALAYALAM VOWEL SIGN VOCALIC R=000D43" \o
      ";HANGUL CHOSEONG PIEUP-THIEUTH=001129;ETHIOPIC SYLLABLE SHWA=00123F" \o
      ";CANADIAN SYLLABICS CARRIER YEE=001611;CANADIAN SYLLABICS CARRIER JJO=00161D" \o
      ";CANADIAN SYLLABICS CARRIER LHO=00162F;CANADIAN SYLLABICS CARRIER DZE=00164A" \o
      ";NEW TAI LUE DIGIT SEVEN=0019D7;BALINESE LETTER JA JERA=001B1B" \o
      ";LATIN LETTER SMALL CAPITAL ETH=001D06;LATIN SMALL LETTER B WITH MIDDLE TILDE=001D6C" \o
      ";GREEK SMALL LETTER EPSILON WITH VARIA=001F72;LEFTWARDS DASHED ARROW=0021E0" \o
      ";MULTISET UNION=00228E;HEAVY NORTH EAST ARROW=00279A" \o
      ";LEFT RIGHT ARROW THROUGH SMALL CIRCLE=002948;ETHIOPIC SYLLABLE XYAA=002DD3" \o
      ";CJK RADICAL GRASS THREE=002EC0;YI SYLLABLE IEX=00A005;YI SYLLABLE BUO=00A023" \o
      ";YI SYLLABLE MIP=00A0B1;YI SYLLABLE MAX=00A0B6;YI SYLLABLE GOP=00A1ED;YI SYLLABLE COT=00A2BD" \o
      ";YI SYLLABLE XIE=00A463;VAI SYLLABLE SU=00A5AC;VAI SYLLABLE YO=00A5DA" \o
      ";SYLOTI NAGRI LETTER LO=00A81F;SAURASHTRA DIGIT EIGHT=00A8D8;TAI VIET LETTER HIGH KO=00AA81" \o
      ";TAI VIET TONE MAI NUENG=00AAC0;PRESENTATION FORM FOR VERTICAL HORIZONTAL ELLIPSIS=00FE19" \o
      ";LYCIAN LETTER P=010293;CAUCASIAN ALBANIAN LETTER JAYN=010551;PHOENICIAN LETTER SHIN=010914" \o
      ";LYDIAN LETTER O=01092C;MEROITIC CURSIVE NUMBER SIX THOUSAND=0109E0" \o
      ";OLD HUNGARIAN SMALL LETTER ECS=010CC6;MODI LETTER SSA=01162C;TAKRI LETTER TA=011699" \o
      ";TAKRI DIGIT SIX=0116C6;PAU CIN HAU RISING TONE=011AE6;CUNEIFORM SIGN BAHAR2 TIMES AB2=012484" \o
      ";BAMUM LETTER PHASE-F YA=016A1D;BAMUM LETTER PHASE-F KO=016A2F;MRO LETTER THEA=016A55" \o
      ";MRO DIGIT SEVEN=016A67;ZNAMENNY COMBINING MARK ZEVOK=01CF2A;MUSICAL SYMBOL BRACKET=01D115" \o
      ";MUSICAL SYMBOL MULTIPLE MEASURE REST=01D129;MUSICAL SYMBOL GLISSANDO DOWN=01D1B2" \o
      ";MAYAN NUMERAL NINETEEN=01D2F3;MATHEMATICAL ITALIC CAPITAL MU=01D6ED" \o
      ";SIGNWRITING MOVEMENT-WALLPLANE CURVE HITTING CHEST=01D9AD" \o
      ";MENDE KIKAKUI SYLLABLE M009 MUN=01E816;MENDE KIKAKUI SYLLABLE M192 NJU=01E8B6" \o
      ";ADLAM CAPITAL LETTER RA=01E908;SQUARED LATIN CAPITAL LETTER E=01F134;PEANUTS=01F95C" \o
      ";BLACK CHESS KING ROTATED TWO HUNDRED SEVENTY DEGREES=01FA39",
    ";LATIN SMALL LETTER N WITH CURL=000235;LATIN SMALL LETTER S WITH HOOK=000282" \o
      ";ORIYA LETTER LA=000B32;TAMIL LETTER YA=000BAF;SINHALA LETTER YAYANNA=000DBA" \o
      ";THAI CHARACTER PHO PHAN=000E1E;HANGUL CHOSEONG KIYEOK=001100;HANGUL JONGSEONG IEUNG=0011BC" \o
      ";HANGUL JONGSEONG NIEUN-KIYEOK=0011C5;HANGUL JONGSEONG KIYEOK-NIEUN=0011FA" \o
      ";ETHIOPIC SYLLABLE THWA=001327;CANADIAN SYLLABICS CARRIER GHU=0015C4" \o
      ";CANADIAN SYLLABICS CARRIER HWE=0015D8;CANADIAN SYLLABICS CARRIER ZEE=001643" \o
      ";CANADIAN SYLLABICS CARRIER SHI=001658;CANADIAN SYLLABICS BLACKFOOT W=00167F" \o
      ";KHMER LETTER KO=001782;LIMBU LETTER WA=001918;GREEK LETTER SMALL CAPITAL PSI=001D2A" \o
      ";LATIN CAPITAL LETTER A WITH HOOK ABOVE=001EA2;NOT PARALLEL TO=002226" \o
      ";APL FUNCTIONAL SYMBOL LEFT SHOE STILE=002367" \o
      ";APL FUNCTIONAL SYMBOL GREATER-THAN DIAERESIS=002369;SYMBOL FOR ACKNOWLEDGE=002406" \o
      ";BLACK TELEPHONE=00260E;ORTHODOX CROSS=002626;NORTH EAST ARROW AND SOUTH EAST ARROW=002928" \o
      ";ETHIOPIC SYLLABLE QYEE=002DC4;PARENTHESIZED IDEOGRAPH THREE=003222" \o
      ";HEXAGRAM FOR THE ABYSMAL WATER=004DDC;YI SYLLABLE BUP=00A02F;YI SYLLABLE FIX=00A0CE" \o
      ";YI SYLLABLE VAP=00A0ED;YI SYLLABLE DOT=00A10D;YI SYLLABLE NDU=00A164;YI SYLLABLE NIP=00A180" \o
      ";YI SYLLABLE NAX=00A184;YI SYLLABLE HOP=00A27C;YI SYLLABLE CUO=00A2BB;YI SYLLABLE SSA=00A333" \o
      ";YI SYLLABLE ZHE=00A353;YI SYLLABLE RAT=00A3C6;YI SYLLABLE REP=00A3D3;YI SYLLABLE JIT=00A3E0" \o
      ";YI SYLLABLE NJO=00A43D;YI SYLLABLE YIE=00A477;LISU LETTER KHA=00A4D8;VAI SYLLABLE TU=00A5A4" \o
      ";VAI SYLLABLE ZO=00A5D5;SYLOTI NAGRI LETTER MO=00A81D;TAI VIET LETTER HIGH LO=00AAA9" \o
      ";LINEAR B SYLLABLE B025 A2=010040;LYCIAN LETTER Q=01028C;CAUCASIAN ALBANIAN LETTER CHOY=010549" \o
      ";MODIFIER LETTER SMALL R WITH FISHHOOK=0107A9;MODI LETTER NYA=011617;TAKRI LETTER AU=011689" \o
      ";CUNEIFORM SIGN KA TIMES MI PLUS NUNUZ=012179" \o
      ";CUNEIFORM SIGN LAGAR GUNU OVER LAGAR GUNU SHE=0121F0;BAMUM LETTER PHASE-D TI=016961" \o
      ";MIAO LETTER RTE=016F4A;DUPLOYAN LETTER LONG U=01BC55" \o
      ";BYZANTINE MUSICAL SYMBOL MIKRON ISON=01D057;BYZANTINE MUSICAL SYMBOL CHROA ZYGOS=01D0C8" \o
      ";MUSICAL SYMBOL TRIANGLE NOTEHEAD RIGHT WHITE=01D14C;MATHEMATICAL ITALIC CAPITAL NU=01D6EE" \o
      ";MATHEMATICAL SANS-SERIF BOLD ITALIC SMALL PSI=01D7C1" \o
      ";SIGNWRITING HAND-FIST THUMB SIDE BENT=01D8F9;SIGNWRITING MOVEMENT-WALLPLANE CORNER LARGE=01D93D" \o
      ";SIGNWRITING MOVEMENT-WALLPLANE CURVE QUARTER LARGE=01D98A" \o
      ";SIGNWRITING MOVEMENT-WALLPLANE CURVED CROSS MEDIUM=01D9A1" \o
      ";SIGNWRITING AIR BLOW SMALL ROTATIONS=01DA37;MENDE KIKAKUI SYLLABLE M087 HUN=01E873" \o
      ";ADLAM SMALL LETTER QAAF=01E939;MAHJONG TILE TWO OF CHARACTERS=01F008" \o
      ";SQUARED LATIN CAPITAL LETTER F=01F135;POPCORN=01F37F;BEAMED ASCENDING MUSICAL NOTES=01F39C" \o
      ";SYRINGE=01F489;ASTONISHED FACE=01F632;WHITE DIAMOND CONTAINING BLACK MEDIUM DIAMOND=01F79B",
    ";LATIN SMALL LETTER T WITH HOOK=0001AD;ARABIC LETTER DAL WITH FOUR DOTS ABOVE=000690" \o
      ";THAANA LETTER TAVIYANI=000793;ORIYA LETTER MA=000B2E;TAMIL DIGIT TWO=000BE8" \o
      ";HANGUL CHOSEONG CHITUEUMCIEUC=00114E;ETHIOPIC SYLLABLE QHWE=00125D" \o
      ";CANADIAN SYLLABICS CARRIER THI=0015E0;CANADIAN SYLLABICS CARRIER KKO=0015FC" \o
      ";CANADIAN SYLLABICS CARRIER DLU=001628;CANADIAN SYLLABICS CARRIER TLE=00163C" \o
      ";RUNIC LETTER EHWAZ EH E=0016D6;KHMER LETTER LO=00179B;KHMER DIGIT TWO=0017E2" \o
      ";SUNDANESE VOWEL SIGN PANOLONG=001BA7;LATIN SMALL LETTER D WITH MIDDLE TILDE=001D6D" \o
      ";MODIFIER LETTER SMALL UPSILON=001DB7;COMBINING LATIN SMALL LETTER K=001DDC" \o
      ";SPHERICAL ANGLE=002222;BOTTOM TORTOISE SHELL BRACKET=0023E1" \o
      ";DINGBAT NEGATIVE CIRCLED SANS-SERIF DIGIT SIX=00278F;GLAGOLITIC SMALL LETTER YESTU=002C35" \o
      ";CIRCLED HANGUL KIYEOK A=00326E;YI SYLLABLE DUO=00A10C;YI SYLLABLE GIX=00A1DB" \o
      ";YI SYLLABLE KIT=00A1F8;YI SYLLABLE KEX=00A20B;YI SYLLABLE WAP=00A283;YI SYLLABLE ZIE=00A292" \o
      ";YI SYLLABLE CUP=00A2C7;YI SYLLABLE SAT=00A310;YI SYLLABLE SEP=00A31D;BAMUM LETTER KU=00A6A3" \o
      ";SYLOTI NAGRI LETTER NO=00A818;TAI VIET LETTER HIGH MO=00AAA3;ETHIOPIC SYLLABLE TTHE=00AB05" \o
      ";LATIN SMALL LETTER TURNED R WITH MIDDLE TILDE=00AB68" \o
      ";ARABIC LETTER ALEF WITH HAMZA ABOVE FINAL FORM=00FE84;LINEAR B SYLLABLE B043 A3=010041" \o
      ";LYCIAN LETTER R=010295;UGARITIC LETTER THANNA=010398;CAUCASIAN ALBANIAN LETTER CYAW=01055F" \o
      ";PALMYRENE LETTER SADHE=010872;LYDIAN LETTER Q=010932;NEWA LETTER SSA=011432" \o
      ";MODI LETTER TTA=011618;TAKRI LETTER VA=0116A6;CUNEIFORM SIGN LAGAB TIMES USH=0121EA" \o
      ";CUNEIFORM SIGN LAGAR TIMES SHE=0121ED;CUNEIFORM NUMERIC SIGN FIVE BAN2 VARIANT FORM=012455" \o
      ";CUNEIFORM SIGN URU TIMES DARA3=01253E;BAMUM LETTER PHASE-A LU=016853" \o
      ";BAMUM LETTER PHASE-F SI=016A14;BAMUM LETTER PHASE-F MO=016A33;MIAO LETTER TSE=016F49" \o
      ";MATHEMATICAL BOLD ITALIC CAPITAL GAMMA=01D71E" \o
      ";SIGNWRITING MOVEMENT-WALLPLANE PEAKS MEDIUM=01D949;TOTO LETTER CHA=01E29A" \o
      ";MENDE KIKAKUI SYLLABLE M114 WOO=01E80D;MENDE KIKAKUI SYLLABLE M049 WVA=01E812" \o
      ";MENDE KIKAKUI SYLLABLE M136 SOO=01E833;MENDE KIKAKUI SYLLABLE M169 NON=01E867" \o
      ";MENDE KIKAKUI SYLLABLE M074 KPU=01E8A1;ADLAM CAPITAL LETTER PE=01E906" \o
      ";OTTOMAN SIYAQ NUMBER EIGHTY THOUSAND=01ED2C;SQUARED LATIN CAPITAL LETTER G=01F136" \o
      ";JAPANESE GOBLIN=01F47A;EMPTY NOTE PAGE=01F5C6;THREE RAYS LEFT=01F5E6;STATION=01F689",
    ";SOLIDUS=00002F;LATIN SMALL LETTER O WITH HORN=0001A1;CYRILLIC SMALL LETTER BARRED O=0004E9" \o
      ";ARABIC-INDIC DIGIT FOUR=000664;ORIYA LETTER NA=000B28;HANGUL JONGSEONG RIEUL-KIYEOK=0011B0" \o
      ";HANGUL JONGSEONG KIYEOK-RIEUL=0011C3;CANADIAN SYLLABICS CAAI=00148A;OGHAM LETTER UR=001692" \o
      ";RUNIC LETTER URUZ UR U=0016A2;KHMER LETTER MO=001798;LIMBU LETTER YA=001915" \o
      ";TAI THAM LETTER LOW PHA=001A3D;BALINESE LETTER SA SAGA=001B30;VEDIC TONE CANDRA BELOW=001CD8" \o
      ";COMBINING LATIN SMALL LETTER L=001DDD;LATIN SMALL LETTER A WITH BREVE AND HOOK ABOVE=001EB3" \o
      ";WHITE CIRCLE WITH LOWER LEFT QUADRANT=0025F5;SNOWMAN=002603;JUPITER=002643" \o
      ";BEAMED SIXTEENTH NOTES=00266C;HEAVY CONCAVE-POINTED BLACK RIGHTWARDS ARROW=0027A8" \o
      ";BRAILLE PATTERN DOTS-12=002803;Z NOTATION RIGHT IMAGE BRACKET=002988" \o
      ";PRECEDES ABOVE ALMOST EQUAL TO=002AB7;ETHIOPIC SYLLABLE ZZAA=002DB3;CJK RADICAL HAND=002E98" \o
      ";YI SYLLABLE BOX=00A026;YI SYLLABLE BUR=00A031;YI SYLLABLE PIP=00A03B;YI SYLLABLE PAX=00A040" \o
      ";YI SYLLABLE NBY=00A08D;YI SYLLABLE DUP=00A117;YI SYLLABLE TAT=00A121;YI SYLLABLE TEP=00A12F" \o
      ";YI SYLLABLE HLU=00A1AD;YI SYLLABLE LIT=00A1B7;YI SYLLABLE LEX=00A1CB;YI SYLLABLE MGU=00A242" \o
      ";YI SYLLABLE HXI=00A248;YI SYLLABLE NZA=00A2F6;YI SYLLABLE RRE=00A386;YI SYLLABLE JOP=00A3EF" \o
      ";YI SYLLABLE JJU=00A429;LISU LETTER NGA=00A4E5;VAI SYLLABLE VU=00A5A3;BAMUM LETTER LU=00A6CD" \o
      ";TAI VIET LETTER HIGH NO=00AA99;ARABIC SYMBOL THREE DOTS BELOW=00FBB7;LYCIAN LETTER S=010296" \o
      ";IMPERIAL ARAMAIC LETTER DALETH=010843;LYDIAN LETTER R=01092D;NEWA LETTER NYA=011418" \o
      ";WARANG CITI CAPITAL LETTER ENY=0118AD;CUNEIFORM SIGN GA2 TIMES LAM TIMES KUR=0124C1" \o
      ";TETRAGRAM FOR BOLD RESOLUTION=01D323;SIGNWRITING AIR SUCK SMALL ROTATIONS=01DA38" \o
      ";TOTO LETTER BREATHY IU=01E2A4;ADLAM SMALL LETTER LAAM=01E924" \o
      ";INDIC SIYAQ NUMBER ONE HUNDRED=01EC83;SQUARED LATIN CAPITAL LETTER H=01F137" \o
      ";JAPANESE CASTLE=01F3EF",
    ";LATIN CAPITAL LETTER L WITH MIDDLE DOT=00013F;LATIN SMALL LETTER V WITH HOOK=00028B" \o
      ";COMBINING LATIN SMALL LETTER M=00036B;SINHALA VOWEL SIGN KOMBUVA HAA DIGA AELA-PILLA=000DDD" \o
      ";HANGUL CHOSEONG TIKEUT-KIYEOK=001117;HANGUL CHOSEONG KIYEOK-TIKEUT=00115A" \o
      ";ETHIOPIC SYLLABLE SZEE=001224;CANADIAN SYLLABICS CARRIER DZI=00164C;KHMER LETTER NO=001793" \o
      ";LIMBU DIGIT TWO=001948;BALINESE LETTER GA GORA=001B16" \o
      ";LATIN SMALL LETTER F WITH MIDDLE TILDE=001D6E" \o
      ";GREEK CAPITAL LETTER ALPHA WITH DASIA AND OXIA=001F0D" \o
      ";GREEK CAPITAL LETTER IOTA WITH PSILI AND PERISPOMENI=001F3E" \o
      ";SINGLE HIGH-REVERSED-9 QUOTATION MARK=00201B;OCR DASH=002448;BRAILLE PATTERN DOTS-13=002805" \o
      ";LOGICAL OR WITH DOUBLE OVERBAR=002A62;LARGER THAN OR EQUAL TO=002AAD" \o
      ";NORTH EAST WHITE ARROW=002B00;ETHIOPIC SYLLABLE NYOA=002D89;HANGUL LETTER U=00315C" \o
      ";YI SYLLABLE HMU=00A0A5;YI SYLLABLE MIT=00A0AE;YI SYLLABLE MEX=00A0C1;YI SYLLABLE GOT=00A1EA" \o
      ";YI SYLLABLE KOP=00A209;YI SYLLABLE COX=00A2BE;YI SYLLABLE CUR=00A2C9;YI SYLLABLE SHO=00A3B4" \o
      ";YI SYLLABLE QIP=00A3FF;VAI SYLLABLE WU=00A599;VAI SYMBOL JONG=00A61F;BAMUM LETTER MU=00A6B5" \o
      ";SYLOTI NAGRI LETTER PO=00A819;COMBINING DEVANAGARI LETTER KA=00A8EC" \o
      ";ARABIC LETTER UIGHUR KAZAKH KIRGHIZ ALEF MAKSURA MEDIAL FORM=00FBE9" \o
      ";AEGEAN WEIGHT BASE UNIT=010137;LYCIAN LETTER T=010297;CAUCASIAN ALBANIAN LETTER CYAY=01054B" \o
      ";LYDIAN LETTER S=010933;OLD SOUTH ARABIAN LETTER KHETH=010A6D;NEWA LETTER TTA=01141A" \o
      ";WARANG CITI CAPITAL LETTER TTE=0118B2;BAMUM LETTER PHASE-C LU=0168CD" \o
      ";BAMUM LETTER PHASE-D KU=016949;BAMUM LETTER PHASE-E PO=016998;MIAO LETTER ZSA=016F3C" \o
      ";ZNAMENNY COMBINING MARK NIZKO ON LEFT=01CF04;MUSICAL SYMBOL FERMATA=01D110" \o
      ";SIGNWRITING HAND-ANGLE=01D885;SIGNWRITING MOVEMENT-WALLPLANE ZIGZAG LARGE=01D947" \o
      ";MENDE KIKAKUI SYLLABLE M061 WVI=01E811;MENDE KIKAKUI SYLLABLE M141 YOO=01E858" \o
      ";MENDE KIKAKUI SYLLABLE M039 NUN=01E865;MENDE KIKAKUI SYLLABLE M144 VOO=01E8BE" \o
      ";ADLAM CAPITAL LETTER VA=01E91C;ADLAM SMALL LETTER ALIF=01E922;ARABIC MATHEMATICAL AIN=01EE0F" \o
      ";ARABIC MATHEMATICAL SAD=01EE11;ARABIC MATHEMATICAL QAF=01EE12" \o
      ";SQUARED LATIN CAPITAL LETTER I=01F138;SWIMMER=01F3CA;MAN WITH TURBAN=01F473;PRINTER=01F5A8" \o
      ";LOWER RIGHT BLOCK DIAGONAL LOWER MIDDLE LEFT TO UPPER CENTRE=01FB43" \o
      ";LOWER LEFT BLOCK DIAGONAL UPPER CENTRE TO LOWER MIDDLE RIGHT=01FB4E" \o
      ";UPPER RIGHT BLOCK DIAGONAL LOWER MIDDLE LEFT TO LOWER CENTRE=01FB52" \o
      ";UPPER LEFT BLOCK DIAGONAL LOWER CENTRE TO LOWER MIDDLE RIGHT=01FB5D",
    ";LATIN SMALL LETTER A WITH DOT ABOVE AND MACRON=0001E1" \o
      ";ARABIC LETTER ALEF WITH EXTENDED ARABIC-INDIC DIGIT TWO ABOVE=000773" \o
      ";DEVANAGARI DOUBLE DANDA=000965;ORIYA LETTER PA=000B2A;TAMIL LETTER OO=000B93" \o
      ";SINHALA LETTER OOYANNA=000D95;THAI CHARACTER KHO KHON=000E05" \o
      ";MYANMAR LETTER EASTERN PWO KAREN GHWA=001070;HANGUL JONGSEONG KIYEOK-PIEUP=0011FB" \o
      ";ETHIOPIC SYLLABLE TZEE=001344;CANADIAN SYLLABICS CARRIER HWI=0015DA" \o
      ";CANADIAN SYLLABICS CARRIER KHU=0015F5;CANADIAN SYLLABICS CARRIER TSA=001660" \o
      ";RUNIC LETTER OE=0016AF;COMBINING LATIN SMALL LETTER N=001DE0" \o
      ";LATIN CAPITAL LETTER B WITH LINE BELOW=001E06;LATIN CAPITAL LETTER E WITH HOOK ABOVE=001EBA" \o
      ";LEFTWARDS ARROW WITH VERTICAL STROKE=0021F7;BOX DRAWINGS DOUBLE UP AND HORIZONTAL=002569" \o
      ";WHITE DIAMOND WITH CENTRED DOT=0027D0;BRAILLE PATTERN DOTS-23=002806" \o
      ";BRAILLE PATTERN DOTS-14=002809;TRIANGLE WITH UNDERBAR=0029CB;INTEGRAL WITH UNDERBAR=002A1C" \o
      ";LESS-THAN AND SINGLE-LINE NOT EQUAL TO=002A87;SUPERSET WITH PLUS SIGN BELOW=002AC0" \o
      ";LATIN SMALL LETTER W WITH HOOK=002C73;KANGXI RADICAL DOUBLE X=002F58" \o
      ";HIRAGANA LETTER SMALL A=003041;CIRCLED KOREAN CHARACTER JUEUI=00327D" \o
      ";HEXAGRAM FOR FOLLOWING=004DD0;YI SYLLABLE BUT=00A02C;YI SYLLABLE BYP=00A035" \o
      ";YI SYLLABLE FUP=00A0DB;YI SYLLABLE VAT=00A0EA;YI SYLLABLE VEP=00A0F3;YI SYLLABLE DOX=00A10E" \o
      ";YI SYLLABLE DUR=00A119;YI SYLLABLE NIT=00A17D;YI SYLLABLE NEX=00A18E;YI SYLLABLE LOP=00A1CA" \o
      ";YI SYLLABLE GUO=00A1E8;YI SYLLABLE HOT=00A279;YI SYLLABLE ZAP=00A297;YI SYLLABLE SSE=00A33A" \o
      ";YI SYLLABLE RAX=00A3C7;YI SYLLABLE JIX=00A3E1;BAMUM LETTER NU=00A6BD" \o
      ";LATIN CAPITAL LETTER SIGMOID S=00A7D8;TAI VIET LETTER HIGH PO=00AA9D" \o
      ";LATIN SMALL LETTER TURNED OE WITH HORIZONTAL STROKE=00AB42" \o
      ";ARABIC LIGATURE SEEN WITH MEEM WITH JEEM INITIAL FORM=00FD61;LYCIAN LETTER U=010292" \o
      ";CAUCASIAN ALBANIAN LETTER ZHIL=010537;CAUCASIAN ALBANIAN LETTER NOWC=01054E" \o
      ";CAUCASIAN ALBANIAN LETTER YAYD=010561;LYDIAN LETTER T=01092F;LYDIAN TRIANGULAR MARK=01093F" \o
      ";OLD UYGHUR LETTER RESH=010F7E;OLD UYGHUR LETTER SHIN=010F7F;KHOJKI LETTER U=011203" \o
      ";TAKRI LETTER YA=0116A3;BHAIKSUKI NUMBER SEVEN=011C60;MASARAM GONDI LETTER AA=011D01" \o
      ";GUNJALA GONDI LETTER AA=011D61;CUNEIFORM SIGN MUSH OVER MUSH TIMES A PLUS NA=012237" \o
      ";CUNEIFORM SIGN GA2 TIMES BAHAR2=0124B6;BYZANTINE MUSICAL SYMBOL FTHORA DIATONIKI DI=01D0BD" \o
      ";MATHEMATICAL SANS-SERIF BOLD CAPITAL A=01D5D4;MATHEMATICAL BOLD ITALIC CAPITAL ALPHA=01D71C" \o
      ";WANCHO LETTER U=01E2DE;ETHIOPIC SYLLABLE HHYO=01E7E6;MENDE KIKAKUI DIGIT ONE=01E8C7" \o
      ";SQUARED LATIN CAPITAL LETTER J=01F139;BOUQUET=01F490;FACE WITH PLEADING EYES=01F97A" \o
      ";LEFT THIRD WHITE RIGHT POINTING INDEX=01FBC1",
    ";LATIN CAPITAL LETTER TONE FIVE=0001BC;COMBINING LATIN SMALL LETTER O=000366" \o
      ";ORIYA LETTER II=000B08;HANGUL JONGSEONG MIEUM=0011B7;ETHIOPIC SYLLABLE QHWI=00125A" \o
      ";ETHIOPIC SYLLABLE XWEE=00128C;CANADIAN SYLLABICS FAAI=001554" \o
      ";CANADIAN SYLLABICS CARRIER TTA=0015E7;CANADIAN SYLLABICS CARRIER JJU=00161C" \o
      ";CANADIAN SYLLABICS CARRIER LHU=00162E;CANADIAN SYLLABICS CARRIER TLI=00163E" \o
      ";KHMER LETTER PO=001796;TAI LE LETTER FA=00195C;LATIN LETTER SMALL CAPITAL EZH=001D23" \o
      ";LATIN CAPITAL LETTER A WITH CIRCUMFLEX AND HOOK ABOVE=001EA8;LEFT-TO-RIGHT OVERRIDE=00202D" \o
      ";RIGHT-TO-LEFT OVERRIDE=00202E;NOT NORMAL SUBGROUP OF=0022EA" \o
      ";APL FUNCTIONAL SYMBOL QUAD DEL=002354;WHITE CIRCLE WITH UPPER LEFT QUADRANT=0025F4" \o
      ";BRAILLE PATTERN DOTS-24=00280A;BRAILLE PATTERN DOTS-15=002811;DOUBLE PRECEDES=002ABB" \o
      ";KATAKANA LETTER SMALL A=0030A1;CJK STROKE HPWG=0031CC;YI SYLLABLE MOP=00A0C0" \o
      ";YI SYLLABLE GUP=00A1F5;YI SYLLABLE KIX=00A1F9;YI SYLLABLE HUO=00A277;YI SYLLABLE WAT=00A280" \o
      ";YI SYLLABLE WEP=00A28C;YI SYLLABLE CUT=00A2C4;YI SYLLABLE CYP=00A2CD;YI SYLLABLE SIP=00A30C" \o
      ";YI SYLLABLE SAX=00A311;LISU LETTER PHA=00A4D2;VAI SYLLABLE YU=00A5B3" \o
      ";LATIN SMALL LETTER O WITH LOOP=00A74D;LATIN CAPITAL LETTER GLOTTAL I=00A7BC" \o
      ";SYLOTI NAGRI LETTER RO=00A81E;ETHIOPIC SYLLABLE TTHI=00AB02;OSAGE CAPITAL LETTER AH=0104B3" \o
      ";OSAGE CAPITAL LETTER HA=0104B9;CAUCASIAN ALBANIAN LETTER DZAY=010555;LYDIAN LETTER U=010930" \o
      ";MEROITIC CURSIVE NUMBER TWO THOUSAND=0109DC;KHAROSHTHI PUNCTUATION LOTUS=010A55" \o
      ";CHORASMIAN LETTER AYIN=010FC0;TAKRI DIGIT TWO=0116C2;DIVES AKURU LETTER YYA=011926" \o
      ";NANDINAGARI HEADSTROKE=0119E3;CANADIAN SYLLABICS NATTILIK HI=011AB0" \o
      ";BHAIKSUKI VOWEL SIGN VOCALIC L=011C36;BHAIKSUKI NUMBER FIFTY=011C67" \o
      ";MASARAM GONDI LETTER BA=011D22;MASARAM GONDI DIGIT ONE=011D51;GUNJALA GONDI LETTER BA=011D6E" \o
      ";GUNJALA GONDI DIGIT ONE=011DA1;BAMUM LETTER PHASE-D MU=016953;BAMUM LETTER PHASE-E LU=0169ED" \o
      ";BAMUM LETTER PHASE-F KU=016A05;ZNAMENNY PRIZNAK MODIFIER ROG=01CF46" \o
      ";TETRAGRAM FOR HARDNESS=01D34D;MATHEMATICAL SANS-SERIF BOLD CAPITAL B=01D5D5" \o
      ";MATHEMATICAL ITALIC SMALL IOTA=01D704" \o
      ";SIGNWRITING MOVEMENT-FLOORPLANE HUMP HITTING CEILING LARGE TRIPLE=01D9BC" \o
      ";SIGNWRITING MOVEMENT-FLOORPLANE LOOP HITTING CEILING SMALL SINGLE=01D9BD" \o
      ";SIGNWRITING MOUTH OPEN CIRCLE=01DA44;SIGNWRITING MOUTH OPEN OVAL WRINKLED=01DA48" \o
      ";LATIN SMALL LETTER S WITH CURL=01DF1E;MENDE KIKAKUI SYLLABLE M139 WVE=01E813" \o
      ";ARABIC MATHEMATICAL LAM=01EE0B;SQUARED LATIN CAPITAL LETTER K=01F13A;ROSETTE=01F3F5" \o
      ";OPEN MAILBOX WITH LOWERED FLAG=01F4ED;PRETZEL=01F968",
    ";LATIN SMALL LETTER Y WITH HOOK=0001B4;LATIN SMALL LETTER T WITH CURL=000236" \o
      ";CYRILLIC SMALL LETTER KOMI DJE=000503;ARABIC-INDIC DIGIT ZERO=000660;ORIYA LETTER RA=000B30" \o
      ";TELUGU LETTER A=000C05;SINHALA LETTER DANTAJA LAYANNA=000DBD;THAI CHARACTER TO PATAK=000E0F" \o
      ";ETHIOPIC SYLLABLE ZHWA=0012E7;CANADIAN SYLLABICS CARRIER SHO=001655" \o
      ";TAI THAM LETTER LOW THA=001A35;BALINESE MUSICAL SYMBOL RIGHT-HAND CLOSED TAK=001B77" \o
      ";COMBINING LATIN SMALL LETTER P=001DEE;LATIN CAPITAL LETTER D WITH LINE BELOW=001E0E" \o
      ";GREEK CAPITAL LETTER OMEGA WITH DASIA AND OXIA=001F6D;TOP LEFT CORNER=00231C;MERCURY=00263F" \o
      ";BLACK RIGHTWARDS ARROW=0027A1;BRAILLE PATTERN DOTS-34=00280C;BRAILLE PATTERN DOTS-25=002812" \o
      ";BRAILLE PATTERN DOTS-16=002821;SUCCEEDS ABOVE ALMOST EQUAL TO=002AB8" \o
      ";RIGHTWARDS BLACK ARROW=002B95;KOREAN STANDARD SYMBOL=00327F;YI SYLLABLE BYR=00A037" \o
      ";YI SYLLABLE PIT=00A038;YI SYLLABLE FOX=00A0D5;YI SYLLABLE FUR=00A0DD;YI SYLLABLE DUT=00A114" \o
      ";YI SYLLABLE TIP=00A11D;YI SYLLABLE TAX=00A122;YI SYLLABLE NOP=00A18D;YI SYLLABLE HLY=00A1B3" \o
      ";YI SYLLABLE LIX=00A1B8;YI SYLLABLE NZE=00A2FD;YI SYLLABLE JOT=00A3EC;YI SYLLABLE JJY=00A42F" \o
      ";YI SYLLABLE NJU=00A440;VAI SYLLABLE ZU=00A5AE;SYLOTI NAGRI LETTER SO=00A821" \o
      ";SAURASHTRA DIGIT THREE=00A8D3;COMBINING DEVANAGARI LETTER NA=00A8ED" \o
      ";TAI VIET LETTER HIGH RO=00AAA7;HANGUL JONGSEONG PHIEUPH-SIOS=00D7FA" \o
      ";HEBREW LETTER RESH WITH DAGESH=00FB48;HEBREW LETTER SHIN WITH DAGESH=00FB49" \o
      ";LYCIAN LETTER W=010287;OSAGE CAPITAL LETTER AI=0104B1;CAUCASIAN ALBANIAN LETTER ZARL=010535" \o
      ";CAUCASIAN ALBANIAN LETTER JHOX=010543;PALMYRENE LETTER ALEPH=010860;LYDIAN LETTER V=010925" \o
      ";MEROITIC CURSIVE NUMBER SEVEN=0109C6;OLD SOUTH ARABIAN LETTER GHAYN=010A76" \o
      ";OLD HUNGARIAN SMALL LETTER EMP=010CE1;OLD UYGHUR LETTER YODH=010F76" \o
      ";CHORASMIAN LETTER RESH=010FC2;CHORASMIAN LETTER SHIN=010FC3;DOGRA LETTER UU=011805" \o
      ";MASARAM GONDI LETTER CA=011D11;GUNJALA GONDI LETTER CA=011D7B" \o
      ";CUNEIFORM SIGN LAGAB TIMES SUM=0121E1;BAMUM LETTER PHASE-A NZUN MEUT=01681F" \o
      ";BAMUM LETTER PHASE-D NU=016957;BYZANTINE MUSICAL SYMBOL FTHORA SKLIRON DIATONON DI=01D0BE" \o
      ";BYZANTINE MUSICAL SYMBOL ARKTIKO VOU=01D0EA;MATHEMATICAL SANS-SERIF BOLD CAPITAL C=01D5D6" \o
      ";SIGNWRITING HAND-FLAT FOUR FINGERS CONJOINED=01D847" \o
      ";SIGNWRITING HAND-CLAW FOUR FINGERS CONJOINED=01D849" \o
      ";SIGNWRITING MOVEMENT-WALLPLANE CURVE THEN STRAIGHT=01D99F" \o
      ";SIGNWRITING LOCATION-WALLPLANE SPACE=01DA7F;ADLAM CAPITAL LETTER YA=01E912" \o
      ";SQUARED LATIN CAPITAL LETTER L=01F13B;BURRITO=01F32F;BEER MUG=01F37A;PUSHPIN=01F4CC" \o
      ";SMILING FACE WITH SMILING EYES=01F60A;MEDIUM FOUR POINTED BLACK STAR=01F7C5" \o
      ";PERSON DOING CARTWHEEL=01F938;TOOLBOX=01F9F0" \o
      ";LOWER RIGHT BLOCK DIAGONAL UPPER MIDDLE LEFT TO UPPER CENTRE=01FB41" \o
      ";LOWER LEFT BLOCK DIAGONAL UPPER CENTRE TO UPPER MIDDLE RIGHT=01FB4C" \o
      ";UPPER RIGHT BLOCK DIAGONAL UPPER MIDDLE LEFT TO LOWER CENTRE=01FB54" \o
      ";UPPER LEFT BLOCK DIAGONAL LOWER CENTRE TO UPPER MIDDLE RIGHT=01FB5F",
    ";LATIN SMALL LETTER Z WITH HOOK=000225;COMBINING TILDE=000303;ARABIC MARK NOON GHUNNA=000658" \o
      ";THAANA LETTER ZAVIYANI=000792;GURMUKHI VOWEL SIGN OO=000A4B;ORIYA LETTER SA=000B38" \o
      ";HANGUL JUNGSEONG YU-YE=001192;HANGUL JONGSEONG NIEUN=0011AB;ETHIOPIC SYLLABLE KXWA=0012C0" \o
      ";ETHIOPIC NUMBER EIGHTY=001379;CANADIAN SYLLABICS CARRIER THO=0015DD" \o
      ";CANADIAN SYLLABICS CARRIER KKU=0015FB;KHMER LETTER RO=00179A" \o
      ";MONGOLIAN LETTER ALI GALI THREE BALUDA=001886;TAI LE LETTER HA=00195E" \o
      ";SUNDANESE VOWEL SIGN PANGHULU=001BA4;SUNDANESE PUNCTUATION BINDU PANGLONG=001CC1" \o
      ";COMBINING LATIN SMALL LETTER C CEDILLA=001DD7;COMBINING RING OVERLAY=0020D8" \o
      ";DOUBLE-STRUCK N-ARY SUMMATION=002140;NEITHER LESS-THAN NOR EQUAL TO=002270" \o
      ";PARENTHESIZED NUMBER EIGHTEEN=002485;BOX DRAWINGS UP SINGLE AND LEFT DOUBLE=00255B" \o
      ";BOX DRAWINGS UP DOUBLE AND LEFT SINGLE=00255C" \o
      ";DINGBAT NEGATIVE CIRCLED SANS-SERIF DIGIT TWO=00278B;HEAVY SOUTH EAST ARROW=002798" \o
      ";BRAILLE PATTERN DOTS-35=002814;BRAILLE PATTERN DOTS-26=002822;BRAILLE PATTERN DOTS-17=002841" \o
      ";EMPTY SET WITH OVERBAR=0029B1;LONG LEFTWARDS SQUIGGLE ARROW=002B33" \o
      ";DOWNWARDS TWO-HEADED ARROW WITH TRIANGLE ARROWHEADS=002BEF;ETHIOPIC SYLLABLE XYEE=002DD4" \o
      ";COMBINING KATAKANA-HIRAGANA VOICED SOUND MARK=003099;YI SYLLABLE HMY=00A0AA" \o
      ";YI SYLLABLE MIX=00A0AF;YI SYLLABLE GOX=00A1EB;YI SYLLABLE GUR=00A1F7;YI SYLLABLE KOT=00A206" \o
      ";YI SYLLABLE CYR=00A2CF;YI SYLLABLE JUO=00A3EA;YI SYLLABLE QIT=00A3FC;VAI SYMBOL TING=00A615" \o
      ";LATIN CAPITAL LETTER AA=00A732;LATIN CAPITAL LETTER INSULAR D=00A779" \o
      ";SYLOTI NAGRI LETTER TO=00A814;TAI VIET LETTER HIGH SO=00AA8F" \o
      ";HEBREW LETTER ALEF WITH QAMATS=00FB2F" \o
      ";ARABIC LIGATURE SEEN WITH MEEM WITH MEEM INITIAL FORM=00FD63;LYCIAN LETTER X=01029C" \o
      ";DESERET CAPITAL LETTER LONG OO=010405;CAUCASIAN ALBANIAN LETTER HEYT=010546" \o
      ";MODIFIER LETTER RETROFLEX CLICK WITH RETROFLEX HOOK=0107B9;MEROITIC CURSIVE LOGOGRAM RMT=0109BE" \o
      ";MEROITIC CURSIVE NUMBER FIFTY=0109CD;MASARAM GONDI LETTER DA=011D1D" \o
      ";GUNJALA GONDI LETTER DA=011D78;ZNAMENNY NEUME STRELA MRACHNOTIKHAYA=01CF93" \o
      ";BYZANTINE MUSICAL SYMBOL TRIA=01D030;BYZANTINE MUSICAL SYMBOL FTHORA DIATONIKI KE=01D0BF" \o
      ";MUSICAL SYMBOL CAESURA=01D113;MATHEMATICAL FRAKTUR CAPITAL A=01D504" \o
      ";MATHEMATICAL SANS-SERIF BOLD CAPITAL D=01D5D7;MATHEMATICAL BOLD ITALIC CAPITAL OMEGA=01D734" \o
      ";SIGNWRITING HAND-HINGE=01D87D" \o
      ";LATIN SMALL LETTER TURNED R WITH LONG LEG AND RETROFLEX HOOK=01DF08" \o
      ";MAHJONG TILE RED DRAGON=01F004;SQUARED LATIN CAPITAL LETTER M=01F13C;FAX ICON=01F5B7" \o
      ";BLACK DOWN-POINTING ISOSCELES RIGHT TRIANGLE=01F783;LACROSSE STICK AND BALL=01F94D" \o
      ";UPPER LEFT TO LOWER RIGHT FILL=01FB98;UPPER RIGHT TO LOWER LEFT FILL=01FB99",
    ";LATIN SMALL LETTER U WITH HORN=0001B0;COMBINING CARON=00030C" \o
      ";COMBINING LATIN SMALL LETTER R=00036C;HEBREW LETTER FINAL KAF=0005DA" \o
      ";ARABIC RAISED ROUND DOT=000888;GUJARATI SIGN ANUSVARA=000A82;ORIYA LETTER TA=000B24" \o
      ";ORIYA DIGIT SIX=000B6C;ORIYA FRACTION THREE QUARTERS=000B74" \o
      ";SINHALA LETTER DANTAJA NAYANNA=000DB1;THAI CHARACTER THO THAN=000E10" \o
      ";CANADIAN SYLLABICS CARRIER TSE=00165D;RUNIC LETTER SHORT-TWIG-TYR T=0016D0" \o
      ";MONGOLIAN BIRGA=001800;TAI LE LETTER EE=001965;TAI LE LETTER AI=00196D" \o
      ";LATIN CAPITAL LETTER I WITH HOOK ABOVE=001EC8;BRAILLE PATTERN DOTS-45=002818" \o
      ";BRAILLE PATTERN DOTS-36=002824;BRAILLE PATTERN DOTS-27=002842;BRAILLE PATTERN DOTS-18=002881" \o
      ";CIRCLE DIVIDED BY HORIZONTAL BAR AND TOP HALF DIVIDED BY VERTICAL BAR=0029BA" \o
      ";SUPERSET OF ABOVE NOT EQUAL TO=002ACC;WHITE VERTICAL ELLIPSE=002B2F" \o
      ";LATIN SMALL LETTER V WITH CURL=002C74;HANGZHOU NUMERAL EIGHT=003028" \o
      ";HIRAGANA LETTER SMALL E=003047;YI SYLLABLE BUX=00A02D;YI SYLLABLE BYT=00A032" \o
      ";YI SYLLABLE POP=00A049;YI SYLLABLE FUT=00A0D8;YI SYLLABLE FYP=00A0E1;YI SYLLABLE VIP=00A0E5" \o
      ";YI SYLLABLE VAX=00A0EB;YI SYLLABLE NIX=00A17E;YI SYLLABLE LOT=00A1C7;YI SYLLABLE KUO=00A204" \o
      ";YI SYLLABLE HXO=00A258;YI SYLLABLE HOX=00A27A;YI SYLLABLE ZAT=00A294;YI SYLLABLE ZEP=00A2A1" \o
      ";YI SYLLABLE SSI=00A32C;YI SYLLABLE NRO=00A399;YI SYLLABLE REX=00A3D1;YI SYLLABLE JUP=00A3F3" \o
      ";LISU LETTER SHA=00A4EB;BAMUM LETTER RU=00A6CC;COMBINING DEVANAGARI LETTER PA=00A8EE" \o
      ";TAI VIET LETTER HIGH TO=00AA95;MEETEI MAYEK LETTER DDA=00AAE6" \o
      ";ARABIC LETTER YU ISOLATED FORM=00FBDB;GREEK ACROPHONIC HERAEUM ONE PLETHRON=010158" \o
      ";GOTHIC LETTER PAIRTHRA=010340;OSAGE CAPITAL LETTER KA=0104BC;CHORASMIAN LETTER YODH=010FBA" \o
      ";TAMIL FRACTION ONE SIXTEENTH-1=011FC9;BAMUM LETTER PHASE-F NU=016A19" \o
      ";HENTAIGANA LETTER KA-KE=01B022;ZNAMENNY COMBINING MARK KRYZH=01CF40" \o
      ";BYZANTINE MUSICAL SYMBOL FTHORA DIATONIKI PA=01D0BA;MATHEMATICAL FRAKTUR CAPITAL B=01D505" \o
      ";MATHEMATICAL SANS-SERIF BOLD CAPITAL E=01D5D8;MATHEMATICAL MONOSPACE SMALL A=01D68A" \o
      ";MATHEMATICAL BOLD NABLA=01D6C1;MATHEMATICAL BOLD ITALIC CAPITAL DELTA=01D71F" \o
      ";MATHEMATICAL DOUBLE-STRUCK DIGIT FIVE=01D7DD;MATHEMATICAL DOUBLE-STRUCK DIGIT NINE=01D7E1" \o
      ";SIGNWRITING MOVEMENT-DIAGONAL TOWARDS SMALL=01D959;SIGNWRITING TEETH ON TONGUE MOVEMENT=01DA64" \o
      ";ADLAM INITIAL EXCLAMATION MARK=01E95E;ARABIC MATHEMATICAL TAH=01EE08" \o
      ";SQUARED LATIN CAPITAL LETTER N=01F13D;SUNRISE=01F305;DROMEDARY CAMEL=01F42A" \o
      ";SLIGHTLY FROWNING FACE=01F641;ALCHEMICAL SYMBOL FOR CRUCIBLE=01F765;PINCHED FINGERS=01F90C",
    ";PRIVATE USE ONE=000091;LATIN SMALL LETTER L WITH MIDDLE TILDE=00026B;COMBINING BREVE=000306" \o
      ";ARABIC LETTER SWASH KAF=0006AA" \o
      ";ARABIC LETTER BEH WITH THREE DOTS POINTING UPWARDS BELOW AND TWO DOTS ABOVE=000753" \o
      ";ORIYA LETTER AU=000B14;HANGUL JONGSEONG RIEUL=0011AF;CANADIAN SYLLABICS CARRIER TTE=0015E4" \o
      ";CANADIAN SYLLABICS CARRIER DZO=001649;KHMER LETTER TO=001791;KHMER SYMBOL MUOY KOET=0019E1" \o
      ";COMBINING LATIN SMALL LETTER S=001DE4" \o
      ";LATIN CAPITAL LETTER E WITH CIRCUMFLEX AND HOOK ABOVE=001EC2" \o
      ";BOX DRAWINGS LIGHT HORIZONTAL=002500;WHITE RIGHT-POINTING TRIANGLE=0025B7" \o
      ";LEFT OUTER JOIN=0027D5;BRAILLE PATTERN DOTS-46=002828;BRAILLE PATTERN DOTS-37=002844" \o
      ";BRAILLE PATTERN DOTS-28=002882;DOUBLE SUCCEEDS=002ABC;SHORT BACKSLANTED SOUTH ARROW=002B4F" \o
      ";INVERTED LOW KAVYKA WITH KAVYKA ABOVE=002E46;MEDIEVAL QUESTION MARK=002E54" \o
      ";RIGHT BLACK LENTICULAR BRACKET=003011;KATAKANA LETTER SMALL E=0030A7" \o
      ";PARENTHESIZED IDEOGRAPH SEVEN=003226;IDEOGRAPHIC TELEGRAPH SYMBOL FOR JUNE=0032C5" \o
      ";SQUARE RITTORU=003351;YI SYLLABLE MOT=00A0BD;YI SYLLABLE LUO=00A1C5;YI SYLLABLE GUT=00A1F2" \o
      ";YI SYLLABLE KUP=00A211;YI SYLLABLE WAX=00A281;YI SYLLABLE CUX=00A2C5;YI SYLLABLE CYT=00A2CA" \o
      ";YI SYLLABLE SIT=00A309;YI SYLLABLE SEX=00A31B;YI SYLLABLE SHU=00A3BC;YI SYLLABLE QOP=00A40B" \o
      ";YI SYLLABLE NYI=00A44C;LISU LETTER THA=00A4D5;LATIN CAPITAL LETTER INSULAR F=00A77B" \o
      ";SMALL LEFT PARENTHESIS=00FE59;LYCIAN LETTER Z=010288;COPTIC EPACT DIGIT FIVE=0102E5" \o
      ";COPTIC EPACT DIGIT NINE=0102E9;GOTHIC LETTER QAIRTHRA=010335;OSAGE CAPITAL LETTER LA=0104BF" \o
      ";CAUCASIAN ALBANIAN LETTER SEYK=01055A;IMPERIAL ARAMAIC LETTER SAMEKH=01084E" \o
      ";PHOENICIAN LETTER ROSH=010913;LYDIAN LETTER Y=010927;OLD HUNGARIAN SMALL LETTER EGY=010CCE" \o
      ";RUMI DIGIT FOUR=010E63;CHORASMIAN NUMBER FOUR=010FC8;TAMIL FRACTION ONE SIXTEENTH-2=011FCA" \o
      ";CUNEIFORM SIGN DUG TIMES ANSHE=01248D;BAMUM LETTER PHASE-C RU=0168C3" \o
      ";BAMUM LETTER PHASE-E PU=0169A0;ZNAMENNY NEUME MECHIK POVODNY=01CFA8" \o
      ";MATHEMATICAL SANS-SERIF BOLD CAPITAL F=01D5D9;MATHEMATICAL MONOSPACE SMALL B=01D68B" \o
      ";MENDE KIKAKUI SYLLABLE M194 WUI=01E80F;SQUARED LATIN CAPITAL LETTER O=01F13E;TRAM CAR=01F68B" \o
      ";GOAL NET=01F945;LOWER HALF MEDIUM SHADE=01FB8F",
    ";COMBINING LATIN SMALL LETTER T=00036D;CYRILLIC SMALL LETTER ALEUT KA=00051F" \o
      ";SYRIAC SUBLINEAR COLON=000704;ORIYA LETTER VA=000B35;TELUGU LETTER E=000C0E" \o
      ";HANGUL CHOSEONG TIKEUT=001103;HANGUL JONGSEONG NIEUN-TIKEUT=0011C6" \o
      ";ETHIOPIC SYLLABLE TZOA=001347;CANADIAN SYLLABICS KAAI=00146C" \o
      ";CANADIAN SYLLABICS NUNAVIK HII=001576;CANADIAN SYLLABICS LHAA=0015A5" \o
      ";CANADIAN SYLLABICS CARRIER HWO=0015D7;TAI LE LETTER KA=001950" \o
      ";COMBINING LEFT PARENTHESIS BELOW LEFT=001AC3;MODIFIER LETTER SMALL TURNED A=001D44" \o
      ";LATIN SMALL LETTER M WITH MIDDLE TILDE=001D6F;COMBINING UP TACK ABOVE=001DF5" \o
      ";COMBINING LEFT ARROWHEAD ABOVE=001DFE;GREEK SMALL LETTER OMICRON WITH PSILI=001F40" \o
      ";GREEK SMALL LETTER ALPHA WITH PERISPOMENI AND YPOGEGRAMMENI=001FB7;ALMOST EQUAL TO=002248" \o
      ";APL FUNCTIONAL SYMBOL CIRCLE UNDERBAR=00235C;BRAILLE PATTERN DOTS-56=002830" \o
      ";BRAILLE PATTERN DOTS-47=002848;BRAILLE PATTERN DOTS-38=002884" \o
      ";Z NOTATION SCHEMA COMPOSITION=002A1F;SHORT DOWN TACK=002ADF;ETHIOPIC SYLLABLE ZZEE=002DB4" \o
      ";SQUARE RUUBURU=003354;YI SYLLABLE PIX=00A039;YI SYLLABLE MUO=00A0BB;YI SYLLABLE DUX=00A115" \o
      ";YI SYLLABLE TIT=00A11A;YI SYLLABLE TEX=00A12D;YI SYLLABLE NOT=00A18A;YI SYLLABLE LUP=00A1D1" \o
      ";YI SYLLABLE NZI=00A2EF;YI SYLLABLE ZHO=00A34F;YI SYLLABLE ROP=00A3D0;YI SYLLABLE JOX=00A3ED" \o
      ";YI SYLLABLE JUR=00A3F5;YI SYLLABLE NJY=00A446;YI SYLLABLE XIP=00A460;VAI SYMBOL KUNG=00A61C" \o
      ";CYRILLIC LETTER MULTIOCULAR O=00A66E;BAMUM FULL STOP=00A6F3" \o
      ";LATIN CAPITAL LETTER INSULAR G=00A77D;COMBINING DEVANAGARI LETTER RA=00A8EF" \o
      ";JAVANESE VOWEL SIGN DIRGA MURE=00A9BB;TAI VIET LETTER HIGH VO=00AAAB" \o
      ";MEETEI MAYEK DIGIT FIVE=00ABF5;MEETEI MAYEK DIGIT NINE=00ABF9" \o
      ";ARABIC LETTER ALEF WASLA ISOLATED FORM=00FB50;DESERET CAPITAL LETTER SHORT A=010408" \o
      ";OSAGE CAPITAL LETTER MA=0104C0;PALMYRENE LETTER GIMEL=010862" \o
      ";OLD SOUTH ARABIAN NUMBER FIFTY=010A7E" \o
      ";SIDDHAM SECTION MARK WITH CIRCLES AND TWO ENCLOSURES=0115D6;WARANG CITI DIGIT EIGHT=0118E8" \o
      ";MASARAM GONDI LETTER GA=011D0E;GUNJALA GONDI LETTER GA=011D76;CUNEIFORM SIGN GESHTIN=0120FE" \o
      ";MIAO LETTER ZZA=016F3D;MIAO LETTER SYI=016F46;MUSICAL SYMBOL CLUSTER NOTEHEAD BLACK=01D15B" \o
      ";MATHEMATICAL FRAKTUR CAPITAL D=01D507;MATHEMATICAL SANS-SERIF BOLD CAPITAL G=01D5DA" \o
      ";MATHEMATICAL MONOSPACE SMALL C=01D68C;MATHEMATICAL BOLD ITALIC CAPITAL THETA SYMBOL=01D72D" \o
      ";MATHEMATICAL SANS-SERIF BOLD ITALIC PI SYMBOL=01D7C9" \o
      ";SIGNWRITING EYEGAZE-WALLPLANE STRAIGHT ALTERNATING=01DA23;ETHIOPIC SYLLABLE HHYU=01E7E1" \o
      ";ARABIC MATHEMATICAL REH=01EE13;SQUARED LATIN CAPITAL LETTER P=01F13F;NOTE PAD=01F5CA" \o
      ";BALLOT SCRIPT X=01F5F4",
    ";LATIN CAPITAL LETTER AE=0000C6;MODIFIER LETTER BEGIN LOW TONE=0002FB" \o
      ";COMBINING LATIN SMALL LETTER U=000367;CYRILLIC SMALL LETTER GHE WITH STROKE=000493" \o
      ";ARABIC ZWARAKAY=000659;ARABIC LETTER HAH WITH EXTENDED ARABIC-INDIC DIGIT FOUR BELOW=00077C" \o
      ";ORIYA LETTER WA=000B71;SINHALA LITH DIGIT FIVE=000DEB;SINHALA LITH DIGIT NINE=000DEF" \o
      ";HANGUL JONGSEONG PIEUP=0011B8;ETHIOPIC SYLLABLE NYWA=00129F;ETHIOPIC SYLLABLE KXWE=0012C5" \o
      ";ETHIOPIC SYLLABLE TSWA=00133F;CANADIAN SYLLABICS LAAI=0014D4;CANADIAN SYLLABICS NGAA=001594" \o
      ";CANADIAN SYLLABICS CARRIER TLO=00163B;RUNIC LETTER SH=0016F2;KHMER LETTER VO=00179C" \o
      ";TAI LE LETTER LA=001958;TAI LE LETTER EH=001966;BALINESE LETTER SA SAPA=001B31" \o
      ";BALINESE PAMADA LANTANG=001B7E;GEORGIAN MTAVRULI CAPITAL LETTER GHAN=001CA6" \o
      ";GEORGIAN MTAVRULI CAPITAL LETTER CHAR=001CAD;LATIN SMALL LETTER N WITH MIDDLE TILDE=001D70" \o
      ";LATIN CAPITAL LETTER A WITH RING BELOW=001E00;GEOMETRICALLY EQUAL TO=002251" \o
      ";LEFT FIVE EIGHTHS BLOCK=00258B;WHITE CLUB SUIT=002667" \o
      ";DINGBAT CIRCLED SANS-SERIF DIGIT EIGHT=002787;BRAILLE PATTERN DOTS-57=002850" \o
      ";BRAILLE PATTERN DOTS-48=002888;SQUARED FALLING DIAGONAL SLASH=0029C5" \o
      ";SOUTH EAST WHITE ARROW=002B02;SHORT BENT ARROW POINTING DOWNWARDS THEN NORTH EAST=002B5F" \o
      ";CJK RADICAL BONE=002EE3;PARENTHESIZED IDEOGRAPH WATER=00322C;CIRCLED HANGUL TIKEUT A=003270" \o
      ";YI SYLLABLE MUP=00A0C6;YI SYLLABLE NUO=00A188;YI SYLLABLE KOX=00A207;YI SYLLABLE KUR=00A213" \o
      ";YI SYLLABLE SOP=00A31A;YI SYLLABLE QIX=00A3FD;YI SYLLABLE YIP=00A474;LISU LETTER DZA=00A4DC" \o
      ";MODIFIER LETTER EXTRA-HIGH LEFT-STEM TONE BAR=00A712" \o
      ";LATIN SMALL LETTER EGYPTOLOGICAL ALEF=00A723;MEETEI MAYEK LETTER CHA=00AAE2" \o
      ";ETHIOPIC SYLLABLE TTHO=00AB06;ARABIC SYMBOL DOT ABOVE=00FBB2;SHAVIAN LETTER MEASURE=010460" \o
      ";OSAGE CAPITAL LETTER NA=0104C1;OLD HUNGARIAN SMALL LETTER ENT=010CE7" \o
      ";CANADIAN SYLLABICS NATTILIK HO=011AB2;BHAIKSUKI VOWEL SIGN VOCALIC R=011C34" \o
      ";MASARAM GONDI LETTER HA=011D2C;GUNJALA GONDI LETTER HA=011D87" \o
      ";MATHEMATICAL FRAKTUR CAPITAL E=01D508;MATHEMATICAL SANS-SERIF BOLD CAPITAL H=01D5DB" \o
      ";MATHEMATICAL MONOSPACE SMALL D=01D68D;MATHEMATICAL BOLD ITALIC CAPITAL KAPPA=01D725" \o
      ";SIGNWRITING MOVEMENT-FLOORPLANE PEAKS SMALL=01D97E;TOTO LETTER NGA=01E298" \o
      ";SQUARED LATIN CAPITAL LETTER Q=01F140;KISSING FACE WITH SMILING EYES=01F619",
    ";ENQUIRY=000005;LATIN SMALL LETTER Z WITH CURL=000291;COMBINING LATIN SMALL LETTER V=00036E" \o
      ";ARABIC LETTER FARSI YEH=0006CC;SYRIAC END OF PARAGRAPH=000700" \o
      ";DEVANAGARI VOWEL SIGN PRISHTHAMATRA E=00094E;TIBETAN MARK TSHEG SHAD=000F0F" \o
      ";HANGUL JONGSEONG TIKEUT-RIEUL=0011CB;HANGUL JONGSEONG RIEUL-TIKEUT=0011CE" \o
      ";CANADIAN SYLLABICS MAAI=0014A4;CANADIAN SYLLABICS CARRIER SHU=001654" \o
      ";CANADIAN SYLLABICS CARRIER TSI=00165F;RUNIC LETTER LONG-BRANCH-OSS O=0016AC" \o
      ";TAI LE LETTER MA=00195B;COMBINING LATIN SMALL LETTER A WITH DIAERESIS=001DF2" \o
      ";GREEK CAPITAL LETTER IOTA WITH DASIA AND VARIA=001F3B;DOWNWARDS DASHED ARROW=0021E3" \o
      ";CONTAINS WITH LONG HORIZONTAL STROKE=0022FA;BRAILLE PATTERN DOTS-67=002860" \o
      ";BRAILLE PATTERN DOTS-58=002890;SUBSET ABOVE RIGHTWARDS ARROW=002979;CJK RADICAL SEAL=002E8B" \o
      ";CJK RADICAL SIMPLIFIED HALF TREE TRUNK=002EA6;KANGXI RADICAL OPEN BOX=002F10" \o
      ";HIRAGANA LETTER SMALL I=003043;PARENTHESIZED IDEOGRAPH STOCK=003231" \o
      ";IDEOGRAPHIC TELEGRAPH SYMBOL FOR HOUR TWELVE=003364;YI SYLLABLE BYX=00A033" \o
      ";YI SYLLABLE POT=00A046;YI SYLLABLE FUX=00A0D9;YI SYLLABLE FYT=00A0DE;YI SYLLABLE VIT=00A0E2" \o
      ";YI SYLLABLE VEX=00A0F2;YI SYLLABLE TOP=00A12C;YI SYLLABLE NUP=00A194;YI SYLLABLE LOX=00A1C8" \o
      ";YI SYLLABLE LUR=00A1D3;YI SYLLABLE ZIP=00A290;YI SYLLABLE ZAX=00A295;YI SYLLABLE RRO=00A382" \o
      ";YI SYLLABLE JUT=00A3F0;YI SYLLABLE JYP=00A3F9;COMBINING DEVANAGARI DIGIT SIX=00A8E6" \o
      ";DASHED OVERLINE=00FE49;LINEAR B SYLLABLE B001 DA=010005;OLD SOUTH ARABIAN LETTER THETH=010A7C" \o
      ";RUMI NUMBER TEN=010E69;OLD UYGHUR COMBINING DOT ABOVE=010F82" \o
      ";SIDDHAM VOWEL SIGN ALTERNATE U=0115DC;MASARAM GONDI LETTER AI=011D08" \o
      ";GUNJALA GONDI LETTER EE=011D67;GUNJALA GONDI LETTER AI=011D68;BAMUM LETTER PHASE-D TU=016911" \o
      ";BAMUM LETTER PHASE-F RU=016A23;PAHAWH HMONG DIGIT FIVE=016B55;PAHAWH HMONG DIGIT NINE=016B59" \o
      ";HENTAIGANA LETTER ME-MA=01B0D6;BYZANTINE MUSICAL SYMBOL PARAKLITIKI=01D009" \o
      ";MUSICAL SYMBOL KIEVAN QUARTER NOTE STEM DOWN=01D1E4;MAYAN NUMERAL THIRTEEN=01D2ED" \o
      ";MATHEMATICAL FRAKTUR CAPITAL F=01D509;MATHEMATICAL SANS-SERIF BOLD CAPITAL I=01D5DC" \o
      ";MATHEMATICAL MONOSPACE SMALL E=01D68E;MATHEMATICAL ITALIC SMALL ZETA=01D701" \o
      ";LATIN SMALL LETTER ESH WITH DOUBLE BAR=01DF0B;ARABIC MATHEMATICAL TEH=01EE15" \o
      ";SQUARED LATIN CAPITAL LETTER R=01F141;OCTOPUS=01F419;DIAMOND SHAPE WITH A DOT INSIDE=01F4A0" \o
      ";ALCHEMICAL SYMBOL FOR CADUCEUS=01F750" \o
      ";BLACK CHESS PAWN ROTATED TWO HUNDRED SEVENTY DEGREES=01FA3E" \o
      ";LEFT AND LOWER ONE EIGHTH BLOCK=01FB7C;UPPER HALF MEDIUM SHADE=01FB8E",
    ";LATIN SMALL LETTER A WITH DOUBLE GRAVE=000201;MODIFIER LETTER HALF TRIANGULAR COLON=0002D1" \o
      ";ARMENIAN QUESTION MARK=00055E;GUJARATI VOWEL SIGN VOCALIC LL=000AE3;ORIYA LETTER YA=000B2F" \o
      ";SINHALA LETTER DANTAJA SAYANNA=000DC3;CANADIAN SYLLABICS NAAI=0014C1" \o
      ";CANADIAN SYLLABICS CARRIER THU=0015DC;CANADIAN SYLLABICS CARRIER TTI=0015E6" \o
      ";RUNIC LETTER ON=0016B0;TAI LE LETTER NA=001962;TAI THAM LETTER LOW KXA=001A24" \o
      ";BALINESE LETTER RA REPA=001B0B;VEDIC SIGN YAJURVEDIC MIDLINE SVARITA=001CD4" \o
      ";LATIN SMALL LETTER P WITH MIDDLE TILDE=001D71;COMBINING LATIN SMALL LETTER W=001DF1" \o
      ";LATIN CAPITAL LETTER K WITH LINE BELOW=001E34;GREEK SMALL LETTER EPSILON WITH PSILI=001F10" \o
      ";GREEK SMALL LETTER OMEGA WITH PERISPOMENI AND YPOGEGRAMMENI=001FF7" \o
      ";APL FUNCTIONAL SYMBOL DOWN SHOE STILE=002366;BRAILLE PATTERN DOTS-68=0028A0" \o
      ";GREATER-THAN WITH QUESTION MARK ABOVE=002A7C;CJK RADICAL FIRE=002EA3" \o
      ";KATAKANA LETTER SMALL I=0030A3;CJK STROKE HXWG=0031E0;YI SYLLABLE UOP=00A00E" \o
      ";YI SYLLABLE PUO=00A044;YI SYLLABLE MOX=00A0BE;YI SYLLABLE MUR=00A0C8;YI SYLLABLE GUX=00A1F3" \o
      ";YI SYLLABLE KUT=00A20E;YI SYLLABLE WEX=00A28A;YI SYLLABLE CYX=00A2CB;YI SYLLABLE SIX=00A30A" \o
      ";YI SYLLABLE SHY=00A3C2;YI SYLLABLE QOT=00A408;VAI SYMBOL TONG=00A61D" \o
      ";CYRILLIC SMALL LETTER DOUBLE O=00A699;JAVANESE PADA ISEN-ISEN=00A9DF" \o
      ";TAI VIET LETTER HIGH YO=00AAA5;HEBREW LETTER WIDE ALEF=00FB21" \o
      ";ARABIC LETTER BEHEH MEDIAL FORM=00FB5D;ARABIC LETTER DDAHAL FINAL FORM=00FB83" \o
      ";SMALL PLUS SIGN=00FE62;ARABIC LETTER ALEF WITH HAMZA BELOW FINAL FORM=00FE88" \o
      ";OSAGE CAPITAL LETTER PA=0104C4;PALMYRENE NUMBER THREE=01087B;MASARAM GONDI LETTER JA=011D13" \o
      ";GUNJALA GONDI LETTER JA=011D80;CUNEIFORM SIGN PIRIG TIMES KAL=01228B" \o
      ";PAHAWH HMONG VOWEL KAAB=016B1A;MATHEMATICAL FRAKTUR CAPITAL G=01D50A" \o
      ";MATHEMATICAL SANS-SERIF BOLD CAPITAL J=01D5DD;MATHEMATICAL MONOSPACE SMALL F=01D68F" \o
      ";MATHEMATICAL BOLD KAPPA SYMBOL=01D6DE;LATIN LETTER SMALL CAPITAL L WITH BELT=01DF04" \o
      ";SQUARED LATIN CAPITAL LETTER S=01F142;CLOSED UMBRELLA=01F302;ROOSTER=01F413" \o
      ";DISAPPOINTED BUT RELIEVED FACE=01F625;CUSTOMS=01F6C3;BLACK CHESS TURNED KING=01FA24",
    ";LATIN SMALL LETTER SQUAT REVERSED ESH=000285;COMBINING LATIN SMALL LETTER X=00036F" \o
      ";CYRILLIC SMALL LETTER KOMI LJE=000509;ORIYA DIGIT TWO=000B68;TELUGU LETTER I=000C07" \o
      ";MALAYALAM VOWEL SIGN AA=000D3E;TIBETAN DIGIT HALF FOUR=000F2D;RUNIC LETTER OO=0016F3" \o
      ";KHMER LETTER YO=001799;GEORGIAN MTAVRULI CAPITAL LETTER JHAN=001CAF" \o
      ";LATIN SMALL LETTER B WITH PALATAL HOOK=001D80;LATIN CAPITAL LETTER L WITH LINE BELOW=001E3A" \o
      ";LATIN CAPITAL LETTER O WITH HOOK ABOVE=001ECE;BOX DRAWINGS HEAVY HORIZONTAL=002501" \o
      ";BRAILLE PATTERN DOTS-78=0028C0;NORTH WEST ARROW AND NORTH EAST ARROW=002927" \o
      ";LEFTWARDS ARROW ABOVE ALMOST EQUAL TO=002B4A;CJK RADICAL MEAT=002EBC" \o
      ";HIRAGANA VOICED ITERATION MARK=00309E;PARENTHESIZED HANGUL CHIEUCH A=003217" \o
      ";YI SYLLABLE PUP=00A04D;YI SYLLABLE VOP=00A0F1;YI SYLLABLE TIX=00A11B;YI SYLLABLE NOX=00A18B" \o
      ";YI SYLLABLE NUR=00A196;YI SYLLABLE LUT=00A1CE;YI SYLLABLE LYP=00A1D7;YI SYLLABLE ZZA=00A2DA" \o
      ";YI SYLLABLE SSO=00A337;YI SYLLABLE NRU=00A3A1;YI SYLLABLE ROT=00A3CD;YI SYLLABLE JYR=00A3FB" \o
      ";YI SYLLABLE QUO=00A406;YI SYLLABLE XIT=00A45D;SAURASHTRA SIGN VIRAMA=00A8C4" \o
      ";HANGUL JONGSEONG TIKEUT-PIEUP=00D7CF;HANGUL JONGSEONG PIEUP-TIKEUT=00D7E3" \o
      ";HANGUL JONGSEONG SIOS-THIEUTH=00D7F1;DESERET CAPITAL LETTER SHORT E=010407" \o
      ";OLD HUNGARIAN SMALL LETTER ELY=010CD7;WARANG CITI CAPITAL LETTER YUJ=0118AE" \o
      ";MASARAM GONDI LETTER KA=011D0C;GUNJALA GONDI LETTER KA=011D71;LISU LETTER YHA=011FB0" \o
      ";CUNEIFORM SIGN GU2 TIMES SAL PLUS TUG2=01211C;ZNAMENNY NEUME KHAMILO=01CF6E" \o
      ";MATHEMATICAL SANS-SERIF BOLD CAPITAL K=01D5DE;MATHEMATICAL MONOSPACE SMALL G=01D690" \o
      ";SIGNWRITING HAND-CUP INDEX THUMB OPEN=01D8ED;SIGNWRITING MOVEMENT-WALLPLANE CORNER SMALL=01D93B" \o
      ";SIGNWRITING MOVEMENT-WALLPLANE CURVE QUARTER SMALL=01D988" \o
      ";SIGNWRITING MOVEMENT-FLOORPLANE WAVE HITTING CEILING LARGE=01D9C2" \o
      ";SIGNWRITING MOVEMENT-FLOORPLANE CURVE LARGE=01D9D7;WANCHO TONE TUP=01E2EC" \o
      ";OTTOMAN SIYAQ NUMBER NINETY THOUSAND=01ED2D;ARABIC MATHEMATICAL ZAH=01EE1A" \o
      ";SQUARED LATIN CAPITAL LETTER T=01F143;POSTBOX=01F4EE;HIGH BRIGHTNESS SYMBOL=01F506" \o
      ";PUT LITTER IN ITS PLACE SYMBOL=01F6AE;ALCHEMICAL SYMBOL FOR STARRED TRIDENT=01F752",
    ";COMBINING REVERSED COMMA ABOVE=000314;ARABIC LETTER REH WITH FOUR DOTS ABOVE=000699" \o
      ";NKO COMBINING LONG RISING TONE=0007F1;ARABIC LETTER JEEM WITH TWO DOTS ABOVE=0008A2" \o
      ";ETHIOPIC SYLLABLE KXWI=0012C2;CANADIAN SYLLABICS PAAI=001430" \o
      ";CANADIAN SYLLABICS CARRIER DZU=001648;CANADIAN SYLLABICS CARRIER GWU=0018ED" \o
      ";TAI LE LETTER PA=001959;BALINESE MUSICAL SYMBOL LEFT-HAND CLOSED PLUK=001B7B" \o
      ";GEORGIAN MTAVRULI CAPITAL LETTER CHIN=001CA9;LATIN SMALL LETTER R WITH MIDDLE TILDE=001D72" \o
      ";LATIN SMALL LETTER Y WITH LOOP=001EFF;GREEK SMALL LETTER UPSILON WITH VARIA=001F7A" \o
      ";BOX DRAWINGS VERTICAL SINGLE AND RIGHT DOUBLE=00255E" \o
      ";BOX DRAWINGS VERTICAL DOUBLE AND RIGHT SINGLE=00255F;DRIVE SLOW SIGN=0026DA" \o
      ";WHITE RIGHT-POINTING PENTAGON=002B54;CJK RADICAL BLUE=002ED8;HANGZHOU NUMERAL THREE=003023" \o
      ";KATAKANA VOICED ITERATION MARK=0030FE;CJK STROKE HZWG=0031C8;YI SYLLABLE MUT=00A0C3" \o
      ";YI SYLLABLE MYP=00A0CC;YI SYLLABLE WOP=00A289;YI SYLLABLE SOT=00A317;YI SYLLABLE RUO=00A3CB" \o
      ";YI SYLLABLE QUP=00A40F;YI SYLLABLE NYO=00A457;YI SYLLABLE YIT=00A471;LISU LETTER ZHA=00A4E3" \o
      ";LATIN SMALL LETTER C WITH PALATAL HOOK=00A794;SAURASHTRA DIGIT SEVEN=00A8D7" \o
      ";CHEROKEE SMALL LETTER A=00AB70" \o
      ";ARABIC LIGATURE YEH WITH HAMZA ABOVE WITH ALEF MAKSURA ISOLATED FORM=00FC03" \o
      ";CAUCASIAN ALBANIAN LETTER LYIT=010545;CAUCASIAN ALBANIAN LETTER PIWR=010562" \o
      ";BRAHMI LETTER VOCALIC L=01100D;MASARAM GONDI LETTER LA=011D27;GUNJALA GONDI LETTER LA=011D75" \o
      ";EGYPTIAN HIEROGLYPH INSERT AT TOP END=013434;ZNAMENNY NEUME OSOKA SVETLAYA=01CFB0" \o
      ";BYZANTINE MUSICAL SYMBOL MARTYRIA TRIFONIAS=01D0A7;MUSICAL SYMBOL END BEAM=01D174" \o
      ";MATHEMATICAL SANS-SERIF BOLD CAPITAL L=01D5DF;MATHEMATICAL MONOSPACE SMALL H=01D691" \o
      ";MATHEMATICAL BOLD ITALIC CAPITAL SIGMA=01D72E" \o
      ";MATHEMATICAL SANS-SERIF BOLD ITALIC SMALL FINAL SIGMA=01D7BB" \o
      ";SQUARED LATIN CAPITAL LETTER U=01F144;LEFT AND UPPER ONE EIGHTH BLOCK=01FB7D",
    ";CYRILLIC SMALL LETTER KOMI NJE=00050B;TAMIL LETTER UU=000B8A;SINHALA LETTER UUYANNA=000D8C" \o
      ";CANADIAN SYLLABICS NASKAPI WOO=001416;CANADIAN SYLLABICS CWAA=00149E" \o
      ";CANADIAN SYLLABICS NASKAPI SKW=00150A;CANADIAN SYLLABICS QAAI=00157E" \o
      ";CANADIAN SYLLABICS CARRIER HWU=0015D6;MONGOLIAN COMMA=001802;TAI LE LETTER QA=00195F" \o
      ";LATIN SMALL LETTER S WITH MIDDLE TILDE=001D74;LATIN SMALL LETTER D WITH PALATAL HOOK=001D81" \o
      ";COMBINING LATIN SMALL LETTER Z=001DE6;LATIN CAPITAL LETTER N WITH LINE BELOW=001E48" \o
      ";DOUBLE INTEGRAL=00222C;NORMAL SUBGROUP OF OR EQUAL TO=0022B4" \o
      ";APL FUNCTIONAL SYMBOL TILDE DIAERESIS=002368;NEGATIVE CIRCLED NUMBER ELEVEN=0024EB" \o
      ";SESQUIQUADRATE=0026BC;GLAGOLITIC CAPITAL LETTER VEDE=002C02" \o
      ";GLAGOLITIC CAPITAL LETTER FITA=002C2A;YI SYLLABLE POX=00A047;YI SYLLABLE PUR=00A04F" \o
      ";YI SYLLABLE FYX=00A0DF;YI SYLLABLE VIX=00A0E3;YI SYLLABLE TOT=00A129;YI SYLLABLE NUT=00A191" \o
      ";YI SYLLABLE LYR=00A1D9;YI SYLLABLE ZIT=00A28D;YI SYLLABLE ZEX=00A29F;YI SYLLABLE SUO=00A315" \o
      ";YI SYLLABLE ZHU=00A357;YI SYLLABLE RUP=00A3D7;YI SYLLABLE JUX=00A3F1;YI SYLLABLE JYT=00A3F6" \o
      ";YI SYLLABLE XOP=00A46A;MODIFIER LETTER LOW DOTTED LEFT-STEM TONE BAR=00A710" \o
      ";MODIFIER LETTER LOW CIRCUMFLEX ACCENT=00A788;HANGUL JONGSEONG SIOS-PANSIOS=00D7EE" \o
      ";GREEK ACROPHONIC ATTIC FIFTY THOUSAND=010147;CARIAN LETTER A2=0102A7" \o
      ";OSAGE CAPITAL LETTER SA=0104C6;OSAGE SMALL LETTER EHKA=0104E5" \o
      ";CAUCASIAN ALBANIAN LETTER YOWD=01053A;CAUCASIAN ALBANIAN LETTER SHOY=01055D" \o
      ";OLD HUNGARIAN SMALL LETTER ENY=010CDA;CHAKMA SIGN CANDRABINDU=011100" \o
      ";MASARAM GONDI LETTER MA=011D24;GUNJALA GONDI LETTER MA=011D70" \o
      ";ZNAMENNY COMBINING MARK KRYZH ON LEFT=01CF2D;TETRAGRAM FOR STOPPAGE=01D34C" \o
      ";MATHEMATICAL FRAKTUR CAPITAL J=01D50D;MATHEMATICAL SANS-SERIF BOLD CAPITAL M=01D5E0" \o
      ";MATHEMATICAL MONOSPACE SMALL I=01D692;LATIN SMALL LETTER TURNED R WITH PALATAL HOOK=01DF15" \o
      ";ADLAM SMALL LETTER JIIM=01E936;SQUARED LATIN CAPITAL LETTER V=01F145;TRUMPET=01F3BA" \o
      ";UP-POINTING MILITARY AIRPLANE=01F6E6",
    ";NEW LINE=00000A;LATIN SMALL LETTER E WITH DOUBLE GRAVE=000205;DEVANAGARI ACUTE ACCENT=000954" \o
      ";GUJARATI VOWEL CANDRA E=000A8D;ETHIOPIC SYLLABLE SZWA=001227;CANADIAN SYLLABICS SHAA=001516" \o
      ";CANADIAN SYLLABICS RAAI=001545;CANADIAN SYLLABICS CARRIER TLU=00163A" \o
      ";LATIN SMALL LETTER T WITH MIDDLE TILDE=001D75;MODIFIER LETTER SMALL TURNED H=001DA3" \o
      ";LEFTWARDS DOUBLE ARROW=0021D0;HEAVY PLUS SIGN=002795;FULL OUTER JOIN=0027D7" \o
      ";RIGHTWARDS TWO-HEADED ARROW WITH TAIL=002916;LEFT WHITE PARENTHESIS=002985" \o
      ";PLUTO FORM FIVE=002BD6;CJK RADICAL RAIN=002ED7;YI SYLLABLE TUO=00A127;YI SYLLABLE KUX=00A20F" \o
      ";YI SYLLABLE SUP=00A321;YI SYLLABLE QOX=00A409;YI SYLLABLE QUR=00A411;YI SYLLABLE YOP=00A480" \o
      ";LATIN CAPITAL LETTER GLOTTAL U=00A7BE;TAI VIET LETTER LOW CHO=00AA8C" \o
      ";TAI VIET SYMBOL KOI KOI=00AADF;ETHIOPIC SYLLABLE TTHU=00AB01" \o
      ";ARABIC LETTER YEH BARREE ISOLATED FORM=00FBAE" \o
      ";PRESENTATION FORM FOR VERTICAL WAVY LOW LINE=00FE34;SMALL FULL STOP=00FE52" \o
      ";ARABIC LETTER YEH WITH HAMZA ABOVE MEDIAL FORM=00FE8C;OSAGE CAPITAL LETTER TA=0104C8" \o
      ";CAUCASIAN ALBANIAN LETTER XEYN=010540;OLD TURKIC LETTER YENISEI AENG=010C2E" \o
      ";KHUDAWADI VOWEL SIGN AA=0112E0;SIDDHAM SECTION MARK WITH SEPTUPLE CRESCENTS=0115D4" \o
      ";WARANG CITI DIGIT THREE=0118E3;MASARAM GONDI LETTER NA=011D1F;GUNJALA GONDI LETTER NA=011D7A" \o
      ";CUNEIFORM NUMERIC SIGN EIGHT U=012413;MUSICAL SYMBOL TURN UP=01D19A" \o
      ";MAYAN NUMERAL FOURTEEN=01D2EE;MATHEMATICAL FRAKTUR CAPITAL K=01D50E" \o
      ";MATHEMATICAL SANS-SERIF BOLD CAPITAL N=01D5E1;MATHEMATICAL MONOSPACE SMALL J=01D693" \o
      ";SIGNWRITING MOVEMENT-WALLPLANE ZIGZAG SMALL=01D945;ARABIC MATHEMATICAL YEH=01EE09" \o
      ";SQUARED LATIN CAPITAL LETTER W=01F146;REMINDER RIBBON=01F397" \o
      ";RIGHTWARDS TRIANGLE ARROWHEAD=01F892" \o
      ";BLACK CHESS ROOK ROTATED TWO HUNDRED SEVENTY DEGREES=01FA3B",
    ";LATIN LETTER YR=0001A6;LATIN SMALL LETTER O WITH DOT ABOVE AND MACRON=000231" \o
      ";LATIN LETTER SMALL CAPITAL G WITH HOOK=00029B;GREEK SMALL LETTER BETA=0003B2" \o
      ";CYRILLIC SMALL LETTER STRAIGHT U WITH STROKE=0004B1;ARABIC WAVY HAMZA BELOW=00065F" \o
      ";TAMIL OM=000BD0;TIBETAN DIGIT HALF ZERO=000F33;CANADIAN SYLLABICS SAAI=0014EE" \o
      ";CANADIAN SYLLABICS THAA=001567;CANADIAN SYLLABICS CARRIER TSO=00165C" \o
      ";CANADIAN SYLLABICS WOODS-CREE FINAL TH=00167E;TAI LE LETTER SA=001954" \o
      ";BUGINESE END OF SECTION=001A1F;TAI THAM SIGN WIANGWAAK=001AA1" \o
      ";VEDIC TONE YAJURVEDIC KATHAKA INDEPENDENT SVARITA SCHROEDER=001CD9" \o
      ";MODIFIER LETTER SMALL TURNED I=001D4E;LATIN SMALL LETTER F WITH PALATAL HOOK=001D82" \o
      ";GREEK SMALL LETTER ETA WITH PSILI AND PERISPOMENI AND YPOGEGRAMMENI=001F96" \o
      ";BOX DRAWINGS DOWN LIGHT AND LEFT HEAVY=002511;BOX DRAWINGS DOWN HEAVY AND LEFT LIGHT=002512" \o
      ";DINGBAT CIRCLED SANS-SERIF DIGIT THREE=002782" \o
      ";NOTCHED LOWER RIGHT-SHADOWED WHITE RIGHTWARDS ARROW=0027AF" \o
      ";MATHEMATICAL LEFT DOUBLE ANGLE BRACKET=0027EA" \o
      ";MEASURED ANGLE WITH OPEN ARM ENDING IN ARROW POINTING DOWN AND RIGHT=0029AA" \o
      ";MEASURED ANGLE WITH OPEN ARM ENDING IN ARROW POINTING RIGHT AND DOWN=0029AE" \o
      ";BALLOT BOX WITH LIGHT X=002BBD;GLAGOLITIC CAPITAL LETTER KAKO=002C0D" \o
      ";KANGXI RADICAL DOWN BOX=002F0C;HIRAGANA LETTER SMALL O=003049;YI SYLLABLE PUT=00A04A" \o
      ";YI SYLLABLE PYP=00A053;YI SYLLABLE VOT=00A0EE;YI SYLLABLE TUP=00A133;YI SYLLABLE LUX=00A1CF" \o
      ";YI SYLLABLE LYT=00A1D4;YI SYLLABLE ZOP=00A29E;YI SYLLABLE ZZE=00A2E0;YI SYLLABLE RRU=00A38A" \o
      ";YI SYLLABLE NRY=00A3A7;YI SYLLABLE ROX=00A3CE;YI SYLLABLE RUR=00A3D9;YI SYLLABLE XIX=00A45E" \o
      ";LATIN LETTER SMALL CAPITAL RUM=00A776;COMBINING DEVANAGARI DIGIT TWO=00A8E2" \o
      ";ARABIC LIGATURE QUDDISA SIRRAH=00FD4B;INTERLINEAR ANNOTATION ANCHOR=00FFF9" \o
      ";OLD ITALIC NUMERAL FIVE=010321;DESERET CAPITAL LETTER SHORT I=010406" \o
      ";OLD HUNGARIAN SMALL LETTER UNK=010CD5;ZANABAZAR SQUARE VOWEL SIGN AI=011A07" \o
      ";ZANABAZAR SQUARE FINAL CONSONANT MARK=011A33;KATAKANA LETTER SMALL N=01B167" \o
      ";BYZANTINE MUSICAL SYMBOL DIASTOLI APLI MIKRI=01D0DA;MATHEMATICAL FRAKTUR CAPITAL L=01D50F" \o
      ";MATHEMATICAL SANS-SERIF BOLD CAPITAL O=01D5E2;MATHEMATICAL MONOSPACE SMALL K=01D694" \o
      ";MATHEMATICAL SANS-SERIF BOLD SMALL CHI=01D786" \o
      ";SIGNWRITING MOVEMENT-FLOORPLANE DOUBLE ALTERNATING=01D96C;SIGNWRITING FOREHEAD WRINKLED=01DA13" \o
      ";SQUARED LATIN CAPITAL LETTER X=01F147",
    ";LATIN CAPITAL LETTER U WITH RING ABOVE=00016E;GURMUKHI VOWEL SIGN UU=000A42" \o
      ";SINHALA LETTER SANYAKA DAYANNA=000DB3;LAO TONE MAI THO=000EC9;CANADIAN SYLLABICS TAAI=00144D" \o
      ";CANADIAN SYLLABICS FWAA=00155B;CANADIAN SYLLABICS CARRIER TTO=0015E3" \o
      ";CANADIAN SYLLABICS NGAI=001670;TAI LE LETTER TA=001956" \o
      ";GEORGIAN MTAVRULI CAPITAL LETTER KHAR=001CA5;LATIN SMALL LETTER G WITH PALATAL HOOK=001D83" \o
      ";MODIFIER LETTER SMALL SCRIPT G=001DA2" \o
      ";LATIN CAPITAL LETTER O WITH CIRCUMFLEX AND HOOK ABOVE=001ED4;INVERTED LAZY S=00223E" \o
      ";TURNED NOT SIGN=002319;DIGRAM FOR GREATER YANG=00268C;WHITE TWO-WAY LEFT WAY TRAFFIC=0026D7" \o
      ";KATAKANA LETTER SMALL O=0030A9;YI SYLLABLE MUX=00A0C4;YI SYLLABLE MYT=00A0C9" \o
      ";YI SYLLABLE SOX=00A318;YI SYLLABLE SUR=00A323;YI SYLLABLE QUT=00A40C;YI SYLLABLE QYP=00A415" \o
      ";YI SYLLABLE YIX=00A472;LATIN SMALL LETTER DOUBLE R WITH CROSSED-TAIL=00AB4A" \o
      ";CHEROKEE SMALL LETTER E=00AB71;MEETEI MAYEK LETTER LAI LONSUM=00ABDC" \o
      ";ARABIC LIGATURE NOON WITH JEEM WITH MEEM INITIAL FORM=00FD98;SMALL AMPERSAND=00FE60" \o
      ";CARIAN LETTER D2=0102AC;CAUCASIAN ALBANIAN LETTER TIWR=01055C" \o
      ";PSALTER PAHLAVI NUMBER TWENTY=010BAE;BRAHMI PUNCTUATION DOT=011049" \o
      ";MASARAM GONDI LETTER PA=011D20;GUNJALA GONDI LETTER PA=011D85" \o
      ";CUNEIFORM NUMERIC SIGN FOUR BAN2 VARIANT FORM=012453;ZNAMENNY COMBINING MARK KACHKA=01CF29" \o
      ";MATHEMATICAL FRAKTUR CAPITAL M=01D510;MATHEMATICAL SANS-SERIF BOLD CAPITAL P=01D5E3" \o
      ";MATHEMATICAL MONOSPACE SMALL L=01D695" \o
      ";SIGNWRITING MOVEMENT-FLOORPLANE HUMP HITTING CEILING SMALL TRIPLE=01D9BB" \o
      ";ADLAM SMALL LETTER MIIM=01E925;SQUARED LATIN CAPITAL LETTER Y=01F148;PINE DECORATION=01F38D" \o
      ";TENNIS RACQUET AND BALL=01F3BE;TAG LEFT SQUARE BRACKET=0E005B",
    ";SHIFT IN=00000F;GREEK CAPITAL LETTER PI=0003A0;DEVANAGARI VOWEL SIGN E=000947" \o
      ";DEVANAGARI GRAVE ACCENT=000953;TELUGU LETTER O=000C12;MALAYALAM SIGN CIRCULAR VIRAMA=000D3C" \o
      ";ETHIOPIC NUMBER NINETY=00137A;TAI THAM VOWEL SIGN UUE=001A68;BALINESE LETTER TA TAWA=001B23" \o
      ";LATIN CAPITAL LETTER R WITH LINE BELOW=001E5E;LATIN CAPITAL LETTER U WITH HOOK ABOVE=001EE6" \o
      ";KIP SIGN=0020AD;OHM SIGN=002126;FRACTION NUMERATOR ONE=00215F;OCR HOOK=002440" \o
      ";PARENTHESIZED NUMBER NINETEEN=002486;HEAVY HEART EXCLAMATION MARK ORNAMENT=002763" \o
      ";RIGHT-SIDE ARC CLOCKWISE ARROW=002938;BLACK HOURGLASS=0029D7;CJK RADICAL MESH=002EB5" \o
      ";YI SYLLABLE PYR=00A055;YI SYLLABLE VUP=00A0F7;YI SYLLABLE TOX=00A12A;YI SYLLABLE TUR=00A135" \o
      ";YI SYLLABLE NUX=00A192;YI SYLLABLE WUO=00A285;YI SYLLABLE ZIX=00A28E;YI SYLLABLE SSU=00A33E" \o
      ";YI SYLLABLE ZHY=00A35D;YI SYLLABLE RUT=00A3D4;YI SYLLABLE RYP=00A3DD;YI SYLLABLE JYX=00A3F7" \o
      ";YI SYLLABLE XOT=00A467;LISU LETTER TSA=00A4DD;MODIFIER LETTER MID LEFT-STEM TONE BAR=00A714" \o
      ";LATIN CAPITAL LETTER R ROTUNDA=00A75A;LATIN SMALL LETTER H WITH PALATAL HOOK=00A795" \o
      ";KAYAH LI VOWEL E=00A927;FULLWIDTH PERCENT SIGN=00FF05;FULLWIDTH LATIN SMALL LETTER A=00FF41" \o
      ";CARIAN LETTER E2=0102CF;OSAGE CAPITAL LETTER WA=0104CF;CAUCASIAN ALBANIAN LETTER TYAY=010553" \o
      ";TAKRI LETTER UU=011685;MASARAM GONDI LETTER II=011D03;GUNJALA GONDI LETTER II=011D63" \o
      ";MATHEMATICAL FRAKTUR CAPITAL N=01D511;MATHEMATICAL SANS-SERIF BOLD CAPITAL Q=01D5E4" \o
      ";MATHEMATICAL SANS-SERIF ITALIC SMALL A=01D622;MATHEMATICAL MONOSPACE SMALL M=01D696" \o
      ";MATHEMATICAL BOLD ITALIC CAPITAL THETA=01D723;SIGNWRITING TRAVEL-WALLPLANE SHAKING=01D951" \o
      ";SIGNWRITING EYEGAZE-WALLPLANE CURVED=01DA27;INDIC SIYAQ NUMBER SIX HUNDRED=01EC88" \o
      ";ARABIC MATHEMATICAL TAILED DOTLESS QAF=01EE5F;SQUARED LATIN CAPITAL LETTER Z=01F149" \o
      ";SKI AND SKI BOOT=01F3BF;PIG NOSE=01F43D;SLEEPING ACCOMMODATION=01F6CC" \o
      ";BLACK CHESS KNIGHT ROTATED FORTY-FIVE DEGREES=01FA07",
    ";LATIN SMALL LETTER I WITH DOUBLE GRAVE=000209;CYRILLIC SMALL LIGATURE TE TSE=0004B5" \o
      ";CYRILLIC SMALL LETTER KOMI SJE=00050D;HEBREW LETTER FINAL MEM=0005DD" \o
      ";ARABIC LETTER SEEN WITH THREE DOTS BELOW AND THREE DOTS ABOVE=00069C" \o
      ";HANGUL CHOSEONG CEONGCHIEUMSSANGSIOS=00113F;MONGOLIAN FREE VARIATION SELECTOR ONE=00180B" \o
      ";TAI LE LETTER VA=00195D;TURNED GREEK SMALL LETTER IOTA=002129" \o
      ";NOT SQUARE IMAGE OF OR EQUAL TO=0022E2;SQUARE IMAGE OF OR NOT EQUAL TO=0022E4;OCR FORK=002442" \o
      ";WHITE RECTANGLE=0025AD;BASEBALL=0026BE;BALLOT X=002717;FOUR TEARDROP-SPOKED ASTERISK=002722" \o
      ";NOTCHED UPPER RIGHT-SHADOWED WHITE RIGHTWARDS ARROW=0027B1" \o
      ";SUBSET OF ABOVE TILDE OPERATOR=002AC7;CJK RADICAL C-SIMPLIFIED SPEECH=002EC8" \o
      ";YI SYLLABLE UOX=00A00C;YI SYLLABLE SUT=00A31E;YI SYLLABLE SYP=00A327;YI SYLLABLE QYR=00A417" \o
      ";YI SYLLABLE NYU=00A45B;YI SYLLABLE XUO=00A466;YI SYLLABLE YOT=00A47D" \o
      ";LATIN CAPITAL LETTER AO=00A734;LATIN CAPITAL LETTER INSULAR R=00A782" \o
      ";MEETEI MAYEK SYLLABLE REPETITION MARK=00AAF3;LATIN SMALL LETTER INVERTED OE=00AB40" \o
      ";MEETEI MAYEK LETTER LAI=00ABC2;FULLWIDTH LATIN SMALL LETTER B=00FF42" \o
      ";OSAGE SMALL LETTER EHPA=0104ED;NABATAEAN LETTER LAMEDH=010891;KHAROSHTHI LETTER TTHA=010A1B" \o
      ";BRAHMI LETTER VOCALIC R=01100B;MASARAM GONDI LETTER RA=011D26;GUNJALA GONDI LETTER RA=011D88" \o
      ";BAMUM LETTER PHASE-D MBAA SEVEN=016963;BAMUM LETTER PHASE-E NJEE EPOCH=0169E8" \o
      ";PAHAWH HMONG VOWEL KEEB=016B00;PAHAWH HMONG VOWEL KAIB=016B0A;PAHAWH HMONG VOWEL KIAB=016B14" \o
      ";MIAO LETTER ARCHAIC ZZA=016F3F;DUPLOYAN AFFIX ATTACHED SECANT=01BC76" \o
      ";BYZANTINE MUSICAL SYMBOL SIMANSIS THESEOS TRISIMOU=01D0E0;MUSICAL SYMBOL SIXTEENTH NOTE=01D161" \o
      ";MATHEMATICAL FRAKTUR CAPITAL O=01D512;MATHEMATICAL SANS-SERIF BOLD CAPITAL R=01D5E5" \o
      ";MATHEMATICAL SANS-SERIF ITALIC SMALL B=01D623;MATHEMATICAL MONOSPACE SMALL N=01D697" \o
      ";SIGNWRITING ROTATION-FLOORPLANE ALTERNATING HITTING FLOOR=01D9D4;ADLAM CAPITAL LETTER TU=01E91A" \o
      ";HANDBALL=01F93E",
    ";COMBINING UP TACK BELOW=00031D;COMBINING LEFT ARROWHEAD BELOW=000354" \o
      ";CYRILLIC SMALL LETTER KOMI TJE=00050F;ARMENIAN HYPHEN=00058A" \o
      ";ARABIC LETTER BEH WITH THREE DOTS HORIZONTALLY BELOW=000750;THAANA AABAAFILI=0007A7" \o
      ";DEVANAGARI LETTER DDDHA=00095C;ORIYA FRACTION ONE HALF=000B73;MALAYALAM VOWEL SIGN EE=000D47" \o
      ";MALAYALAM VOWEL SIGN AI=000D48;SINHALA LETTER SANYAKA GAYANNA=000D9F" \o
      ";TIBETAN VOWEL SIGN REVERSED II=000F81;CANADIAN SYLLABICS NUNAVIK HOO=001578" \o
      ";MODIFIER LETTER SMALL TURNED M=001D5A;LATIN CAPITAL LETTER T WITH LINE BELOW=001E6E" \o
      ";UPWARDS TRIANGLE-HEADED PAIRED ARROWS=002B85;RUSSIAN ASTROLOGICAL SYMBOL BINOVILE=002BF6" \o
      ";DAGGER WITH RIGHT GUARD=002E37;HEXAGRAM FOR THE FAMILY=004DE4;YI SYLLABLE PUX=00A04B" \o
      ";YI SYLLABLE PYT=00A050;YI SYLLABLE VOX=00A0EF;YI SYLLABLE VUR=00A0F9;YI SYLLABLE TUT=00A130" \o
      ";YI SYLLABLE LYX=00A1D5;YI SYLLABLE ZOT=00A29B;YI SYLLABLE ZZI=00A2D2;YI SYLLABLE NZU=00A2FF" \o
      ";YI SYLLABLE RRY=00A390;YI SYLLABLE RYR=00A3DF;YI SYLLABLE YUO=00A47B" \o
      ";LATIN CAPITAL LETTER INSULAR S=00A784;COMBINING DEVANAGARI LETTER VI=00A8F0" \o
      ";ARABIC LETTER KEHEH MEDIAL FORM=00FB91" \o
      ";ARABIC LIGATURE GHAIN WITH ALEF MAKSURA ISOLATED FORM=00FCF9" \o
      ";FULLWIDTH LATIN SMALL LETTER C=00FF43;CARIAN LETTER G2=0102C1" \o
      ";OLD HUNGARIAN SMALL LETTER ESZ=010CE5;OLD HUNGARIAN SMALL LETTER ETY=010CE8" \o
      ";OLD HUNGARIAN SMALL LETTER EZS=010CF0;OLD SOGDIAN LETTER BETH=010F02" \o
      ";OLD SOGDIAN NUMBER FIVE=010F21;CHAKMA LETTER AA=011103" \o
      ";AHOM CONSONANT SIGN MEDIAL LIGATING RA=01171F;MASARAM GONDI LETTER SA=011D2B" \o
      ";GUNJALA GONDI LETTER SA=011D89;BAMUM LETTER PHASE-B SHEUAEQTU=01686A" \o
      ";BAMUM LETTER PHASE-C MA KEUAERI=0168B3;MUSICAL SYMBOL FIVE-LINE STAFF=01D11A" \o
      ";MATHEMATICAL FRAKTUR CAPITAL P=01D513;MATHEMATICAL SANS-SERIF BOLD CAPITAL S=01D5E6" \o
      ";MATHEMATICAL SANS-SERIF ITALIC SMALL C=01D624;MATHEMATICAL MONOSPACE SMALL O=01D698" \o
      ";MATHEMATICAL BOLD THETA SYMBOL=01D6DD;MATHEMATICAL ITALIC PHI SYMBOL=01D719" \o
      ";SIGNWRITING HAND-FIST THUMB OVER TWO FINGERS=01D8FF;MENDE KIKAKUI DIGIT SIX=01E8CC" \o
      ";INDIC SIYAQ NUMBER LAKH=01EC9E;END WITH LEFTWARDS ARROW ABOVE=01F51A" \o
      ";WIDE-HEADED LEFTWARDS LIGHT BARB ARROW=01F860",
    ";MESSAGE WAITING=000095;LATIN CAPITAL LETTER D WITH SMALL LETTER Z WITH CARON=0001C5" \o
      ";CYRILLIC SMALL LETTER BARRED O WITH DIAERESIS=0004EB;ARABIC LETTER AE=0006D5" \o
      ";ETHIOPIC QUESTION MARK=001367;CANADIAN SYLLABICS BIBLE-CREE Y=00153F" \o
      ";MONGOLIAN LETTER TODO LONG VOWEL SIGN=001843;CANADIAN SYLLABICS OJIBWAY NWI=0018C7" \o
      ";TAI LE LETTER XA=001951;LATIN SMALL LETTER Z WITH MIDDLE TILDE=001D76" \o
      ";LATIN SMALL LETTER K WITH PALATAL HOOK=001D84;PER SIGN=00214C;SYMBOL FOR NULL=002400" \o
      ";UP ARROWHEAD IN A RECTANGLE BOX=002BB9;HANGUL LETTER YESIEUNG=003181;YI SYLLABLE MYX=00A0CA" \o
      ";YI SYLLABLE WOX=00A287;YI SYLLABLE ZUO=00A299;YI SYLLABLE SYR=00A329;YI SYLLABLE QUX=00A40D" \o
      ";YI SYLLABLE QYT=00A412;YI SYLLABLE YUP=00A484" \o
      ";LATIN CAPITAL LETTER P WITH STROKE THROUGH DESCENDER=00A750" \o
      ";LATIN CAPITAL LETTER INSULAR T=00A786;CHEROKEE SMALL LETTER I=00AB72" \o
      ";ARABIC SYMBOL DOT BELOW=00FBB3;FULLWIDTH LATIN SMALL LETTER D=00FF44" \o
      ";OSAGE CAPITAL LETTER ZA=0104D2;MEROITIC CURSIVE NUMBER ONE HUNDRED THOUSAND=0109ED" \o
      ";OLD SOGDIAN LETTER KAPH=010F0B;CHAKMA DIGIT ONE=011137;SOYOMBO FINAL CONSONANT SIGN B=011A8F" \o
      ";BHAIKSUKI NUMBER FORTY=011C66;MASARAM GONDI LETTER TA=011D1B;MASARAM GONDI DIGIT SIX=011D56" \o
      ";GUNJALA GONDI LETTER TA=011D73;GUNJALA GONDI DIGIT SIX=011DA6" \o
      ";MATHEMATICAL FRAKTUR CAPITAL Q=01D514;MATHEMATICAL SANS-SERIF BOLD CAPITAL T=01D5E7" \o
      ";MATHEMATICAL SANS-SERIF ITALIC SMALL D=01D625;MATHEMATICAL MONOSPACE SMALL P=01D699" \o
      ";SIGNWRITING MOVEMENT-FLOORPLANE BEND=01D973;LATIN LETTER INVERTED GLOTTAL STOP WITH CURL=01DF0E" \o
      ";LARGE RED CIRCLE=01F534;LEFT HALF CIRCLE=01F907",
    ";DATA LINK ESCAPE=000010;LATIN SMALL LETTER O WITH DOUBLE ACUTE=000151" \o
      ";GREEK SMALL LETTER HETA=000371;SAMARITAN PUNCTUATION NEQUDAA=000830" \o
      ";DEVANAGARI VOWEL SIGN I=00093F;ETHIOPIC SYLLABLE PHARYNGEAL A=0012D0" \o
      ";CANADIAN SYLLABICS KWAA=001480;CANADIAN SYLLABICS YAAI=001527" \o
      ";CANADIAN SYLLABICS CARRIER TSU=00165B;CANADIAN SYLLABICS NNGA=001675" \o
      ";KHMER SIGN MUUSIKATOAN=0017C9;TAI LE LETTER YA=001955;TAI LE LETTER UE=00196A" \o
      ";GEORGIAN MTAVRULI CAPITAL LETTER PHAR=001CA4;MODIFIER LETTER SMALL A=001D43" \o
      ";LATIN SMALL LETTER L WITH PALATAL HOOK=001D85;LATIN CAPITAL LETTER Y WITH HOOK ABOVE=001EF6" \o
      ";BLACK CENTRE WHITE STAR=00272C;SUBSET WITH DOT=002ABD;CJK RADICAL C-SIMPLIFIED DRAGON=002EF0" \o
      ";HANGZHOU NUMERAL SEVEN=003027;HIRAGANA LETTER SMALL U=003045;CIRCLED IDEOGRAPH LABOR=003298" \o
      ";SQUARE HUARADDO=003332;YI SYLLABLE VUT=00A0F4;YI SYLLABLE VYP=00A0FD;YI SYLLABLE ZUP=00A2A5" \o
      ";YI SYLLABLE SSY=00A342;YI SYLLABLE RUX=00A3D5;YI SYLLABLE RYT=00A3DA;YI SYLLABLE XOX=00A468" \o
      ";LISU LETTER TONE MYA NA=00A4FC;LATIN CAPITAL LETTER Q WITH STROKE THROUGH DESCENDER=00A756" \o
      ";MEETEI MAYEK LETTER DIL=00ABD7;ARABIC LETTER GHAIN MEDIAL FORM=00FED0" \o
      ";FULLWIDTH LATIN SMALL LETTER E=00FF45;LINEAR B SYLLABLE B045 DE=010006" \o
      ";PHAISTOS DISC SIGN HIDE=0101EA;DESERET CAPITAL LETTER SHORT O=01040A" \o
      ";OLD UYGHUR COMBINING DOT BELOW=010F83;MASARAM GONDI LETTER AU=011D0B" \o
      ";GUNJALA GONDI LETTER AU=011D6B;BYZANTINE MUSICAL SYMBOL DIESIS TRITIMORION=01D0CE" \o
      ";MATHEMATICAL SANS-SERIF BOLD CAPITAL U=01D5E8;MATHEMATICAL SANS-SERIF ITALIC SMALL E=01D626" \o
      ";MATHEMATICAL MONOSPACE SMALL Q=01D69A;MATHEMATICAL SANS-SERIF BOLD SMALL ETA=01D776" \o
      ";MATHEMATICAL SANS-SERIF BOLD DIGIT ONE=01D7ED;NEW MOON SYMBOL=01F311" \o
      ";WHITE CHESS EQUIHOPPER=01FA48",
    ";LOW LINE=00005F;START OF STRING=000098;MODIFIER LETTER CENTRED LEFT HALF RING=0002D3" \o
      ";EXTENDED ARABIC-INDIC DIGIT ONE=0006F1;GUJARATI VOWEL SIGN VOCALIC RR=000AC4" \o
      ";SINHALA LETTER SANYAKA JAYANNA=000DA6;TIBETAN MARK CARET YIG MGO PHUR SHAD MA=000F06" \o
      ";TIBETAN MARK SBRUL SHAD=000F08;MYANMAR SHAN DIGIT FIVE=001095;MYANMAR SHAN DIGIT NINE=001099" \o
      ";CANADIAN SYLLABICS LWAA=0014E8;CANADIAN SYLLABICS CARRIER TTU=0015E2" \o
      ";COMBINING PARENTHESES OVERLAY=001ABE;BALINESE SIGN ULU RICEM=001B00" \o
      ";MODIFIER LETTER SMALL B=001D47;LATIN SMALL LETTER M WITH PALATAL HOOK=001D86" \o
      ";N-ARY COPRODUCT=002210;NORTH WEST WHITE ARROW=002B01;KATAKANA LETTER SMALL U=0030A5" \o
      ";CIRCLED IDEOGRAPH EIGHT=003287;YI SYLLABLE SUX=00A31F;YI SYLLABLE SYT=00A324" \o
      ";YI SYLLABLE YOX=00A47E;YI SYLLABLE YUR=00A486;LATIN CAPITAL LETTER C WITH BAR=00A792" \o
      ";MYANMAR LETTER SHAN BHA=00A9E4;TAI VIET LETTER LOW KHO=00AA82;LATIN SMALL LIGATURE FF=00FB00" \o
      ";ARABIC LIGATURE SALLALLAHU ALAYHI WAAALIHEE WA-SALLAM=00FD4C" \o
      ";FULLWIDTH LATIN SMALL LETTER F=00FF46;OSAGE SMALL LETTER EHTA=0104F1" \o
      ";MEROITIC CURSIVE NUMBER FORTY=0109CC;MANICHAEAN LETTER SADHE=010ADD" \o
      ";KHUDAWADI VOWEL SIGN AI=0112E6;SOYOMBO FINAL CONSONANT SIGN D=011A8D" \o
      ";MASARAM GONDI LETTER VA=011D28;GUNJALA GONDI LETTER VA=011D6D;MEDEFAIDRIN DIGIT EIGHT=016E88" \o
      ";HENTAIGANA LETTER NE-KO=01B098;ZNAMENNY NEUME KUFISMA=01CFBF;TETRAGRAM FOR FULLNESS=01D32B" \o
      ";MATHEMATICAL FRAKTUR CAPITAL S=01D516;MATHEMATICAL SANS-SERIF BOLD CAPITAL V=01D5E9" \o
      ";MATHEMATICAL SANS-SERIF ITALIC SMALL F=01D627;MATHEMATICAL MONOSPACE SMALL R=01D69B" \o
      ";ADLAM DIGIT FIVE=01E955;ADLAM DIGIT NINE=01E959;CLOUD WITH SNOW=01F328;CALENDAR=01F4C5" \o
      ";RIGHTWARDS HAND=01FAF1",
    ";LINE TABULATION=00000B;TELUGU LETTER U=000C09;MALAYALAM SIGN AVAGRAHA=000D3D" \o
      ";LAO VOWEL SIGN A=000EB0;MYANMAR SYMBOL AFOREMENTIONED=00104E;CANADIAN SYLLABICS MWAA=0014B8" \o
      ";CANADIAN SYLLABICS LHII=0015A1;CANADIAN SYLLABICS TH-CREE THAA=0015AD" \o
      ";BALINESE MUSICAL SYMBOL RIGHT-HAND CLOSED TUK=001B76" \o
      ";LATIN SMALL LETTER N WITH PALATAL HOOK=001D87;MODIFIER LETTER SMALL C=001D9C" \o
      ";COMBINING LATIN SMALL LETTER O WITH DIAERESIS=001DF3" \o
      ";LATIN CAPITAL LETTER O WITH HORN AND DOT BELOW=001EE2;LEFT SQUARE BRACKET WITH QUILL=002045" \o
      ";CLOSE UP=002050;OPEN BOX=002423;CJK RADICAL SILK=002EAF;CJK STROKE SZWG=0031C9" \o
      ";YI SYLLABLE PYX=00A051;YI SYLLABLE VYR=00A0FF;YI SYLLABLE TUX=00A131;YI SYLLABLE ZOX=00A29C" \o
      ";YI SYLLABLE ZUR=00A2A7;YI SYLLABLE NZY=00A305;YI SYLLABLE XYP=00A46E" \o
      ";LISU LETTER TONE MYA BO=00A4FB;BAMUM SEMICOLON=00A6F6;MYANMAR LETTER SHAN CHA=00A9E1" \o
      ";CHAM DIGIT EIGHT=00AA58;HANGUL JUNGSEONG I-YA-O=00D7BD;FULLWIDTH LATIN SMALL LETTER G=00FF47" \o
      ";LINEAR B SYLLABLE B007 DI=010007;LINEAR B SYLLABLE B003 PA=01001E;CARIAN LETTER K2=0102BD" \o
      ";MODIFIER LETTER ALVEOLAR CLICK=0107B8;WARANG CITI DIGIT SEVEN=0118E7" \o
      ";BHAIKSUKI VOWEL SIGN AA=011C2F;HENTAIGANA LETTER KO-KI=01B03B" \o
      ";MATHEMATICAL FRAKTUR CAPITAL T=01D517;MATHEMATICAL SANS-SERIF BOLD CAPITAL W=01D5EA" \o
      ";MATHEMATICAL SANS-SERIF ITALIC SMALL G=01D628;MATHEMATICAL MONOSPACE SMALL S=01D69C" \o
      ";MATHEMATICAL BOLD ITALIC PARTIAL DIFFERENTIAL=01D74F" \o
      ";MATHEMATICAL DOUBLE-STRUCK DIGIT FOUR=01D7DC;INDIC SIYAQ NUMBER TWO HUNDRED=01EC84" \o
      ";ARABIC MATHEMATICAL WAW=01EE05;ARABIC MATHEMATICAL TAILED KHAH=01EE57;EUROPEAN CASTLE=01F3F0" \o
      ";PROHIBITED SIGN=01F6C7;HEDGEHOG=01F994;BLACK CHESS TURNED PAWN=01FA29;DOTTED LINE FACE=01FAE5",
    ";LATIN CAPITAL LETTER LJ=0001C7;LATIN SMALL LETTER O WITH DOUBLE GRAVE=00020D" \o
      ";MODIFIER LETTER SMALL TURNED R=0002B4;ARABIC VOWEL SIGN SMALL V ABOVE=00065A" \o
      ";GUJARATI VOWEL CANDRA O=000A91;MYANMAR VOWEL SIGN GEBA KAREN I=001071" \o
      ";CANADIAN SYLLABICS NWAA=0014CD;CANADIAN SYLLABICS NGII=001590;RUNIC LETTER YR=0016A3" \o
      ";MONGOLIAN LETTER SIBE E=00185D;BATAK CONSONANT SIGN NG=001BF0;LEPCHA CONSONANT SIGN K=001C2D" \o
      ";MODIFIER LETTER SMALL D=001D48;COMBINING LATIN LETTER SMALL CAPITAL G=001DDB" \o
      ";LATIN SMALL LETTER L WITH DOT BELOW AND MACRON=001E39" \o
      ";GREEK SMALL LETTER ETA WITH DASIA AND VARIA AND YPOGEGRAMMENI=001F93;BLACK CHESS KING=00265A" \o
      ";DINGBAT CIRCLED SANS-SERIF DIGIT SEVEN=002786;SUPERSET OF OR EQUAL TO WITH DOT ABOVE=002AC4" \o
      ";IDEOGRAPHIC ENTERING TONE MARK=00302D;CJK STROKE HZZP=0031CB;CIRCLED IDEOGRAPH METAL=00328E" \o
      ";IDEOGRAPHIC TELEGRAPH SYMBOL FOR JULY=0032C6;YI SYLLABLE QYX=00A413;YI SYLLABLE YUT=00A481" \o
      ";YI SYLLABLE YYP=00A48A;LATIN CAPITAL LETTER AU=00A736;TAI VIET LETTER LOW NGO=00AA88" \o
      ";MEETEI MAYEK LETTER SHA=00AAE9;MEETEI MAYEK LETTER RAI=00ABD4" \o
      ";ARABIC LETTER PEHEH MEDIAL FORM=00FB71;FULLWIDTH LATIN SMALL LETTER H=00FF48" \o
      ";LINEAR B SYLLABLE B006 NA=010019;COPTIC EPACT DIGIT FOUR=0102E4" \o
      ";CAUCASIAN ALBANIAN LETTER VEYZ=01055B;MONGOLIAN ROTATED BIRGA WITH ORNAMENT=011665" \o
      ";CUNEIFORM NUMERIC SIGN SIX ASH=012404;MUSICAL SYMBOL PES SUBPUNCTIS=01D1DD" \o
      ";MATHEMATICAL FRAKTUR CAPITAL U=01D518;MATHEMATICAL SANS-SERIF BOLD CAPITAL X=01D5EB" \o
      ";MATHEMATICAL SANS-SERIF ITALIC SMALL H=01D629;MATHEMATICAL MONOSPACE SMALL T=01D69D" \o
      ";OTTOMAN SIYAQ NUMBER THIRTY THOUSAND=01ED27;OIL DRUM=01F6E2" \o
      ";WIDE-HEADED LEFTWARDS HEAVY BARB ARROW=01F878;PERSON CLIMBING=01F9D7",
    ";YEN SIGN=0000A5;GREEK CAPITAL LETTER XI=00039E;GREEK SMALL LETTER OMICRON WITH TONOS=0003CC" \o
      ";COPTIC SMALL LETTER DEI=0003EF;CYRILLIC SMALL LETTER KOMI ZJE=000505;SYRIAC RUKKAKHA=000742" \o
      ";SAMARITAN PUNCTUATION ARKAANU=00083C;SINHALA LETTER TAALUJA SAYANNA=000DC1" \o
      ";ETHIOPIC SYLLABLE PHARYNGEAL E=0012D5;TAI LE LETTER OO=001968;LEPCHA CONSONANT SIGN L=001C2F" \o
      ";MODIFIER LETTER SMALL E=001D49;LATIN SMALL LETTER P WITH PALATAL HOOK=001D88" \o
      ";LATIN CAPITAL LETTER Z WITH LINE BELOW=001E94;LEFT NORMAL FACTOR SEMIDIRECT PRODUCT=0022C9" \o
      ";BOX DRAWINGS LIGHT QUADRUPLE DASH HORIZONTAL=002508;SUPERSET BESIDE SUBSET=002AD7" \o
      ";GLAGOLITIC CAPITAL LETTER IZHE=002C09;GLAGOLITIC CAPITAL LETTER SHTA=002C1B" \o
      ";ETHIOPIC SYLLABLE CCHAA=002DBB;DOUBLE SUSPENSION MARK=002E44;CIRCLED IDEOGRAPH EARTH=00328F" \o
      ";YI SYLLABLE VUX=00A0F5;YI SYLLABLE VYT=00A0FA;YI SYLLABLE ZUT=00A2A2;YI SYLLABLE ZYP=00A2AB" \o
      ";YI SYLLABLE ZZO=00A2DD;YI SYLLABLE RYX=00A3DB;YI SYLLABLE XYR=00A470" \o
      ";LATIN CAPITAL LETTER AV=00A738;LATIN SMALL LETTER BETA=00A7B5;DEVANAGARI SIGN SIDDHAM=00A8FC" \o
      ";CHAM LETTER CHHA=00AA0D;MEETEI MAYEK LETTER NNA=00AAE8;MEETEI MAYEK DIGIT FOUR=00ABF4" \o
      ";LATIN SMALL LIGATURE FI=00FB01;FULLWIDTH LATIN SMALL LETTER I=00FF49" \o
      ";LINEAR B SYLLABLE B080 MA=010014;LINEAR B SYLLABLE B013 ME=010015" \o
      ";GREEK KYATHOS BASE SIGN=010182;MODIFIER LETTER SMALL DZ DIGRAPH WITH RETROFLEX HOOK=010788" \o
      ";NABATAEAN LETTER DALETH=010885;OLD SOGDIAN LETTER HETH=010F09;NANDINAGARI LETTER DDHA=0119BB" \o
      ";ZANABAZAR SQUARE VOWEL SIGN OE=011A05;SOYOMBO FINAL CONSONANT SIGN G=011A8A" \o
      ";MASARAM GONDI LETTER YA=011D25;GUNJALA GONDI LETTER YA=011D6C" \o
      ";CUNEIFORM SIGN KA2 CROSSING KA2=01218E;HENTAIGANA LETTER NI-TE=01B08E" \o
      ";MUSICAL SYMBOL KIEVAN RECITATIVE MARK=01D1E1;TETRAGRAM FOR STRENGTH=01D329" \o
      ";TETRAGRAM FOR RESPONSE=01D32E;MATHEMATICAL FRAKTUR CAPITAL V=01D519" \o
      ";MATHEMATICAL SANS-SERIF BOLD CAPITAL Y=01D5EC;MATHEMATICAL SANS-SERIF ITALIC SMALL I=01D62A" \o
      ";MATHEMATICAL MONOSPACE SMALL U=01D69E" \o
      ";SIGNWRITING HAND-CLAW INDEX THUMB CURVE THUMB INSIDE=01D8E9" \o
      ";SIGNWRITING MOVEMENT-FLOORPLANE WAVE HITTING CEILING SMALL=01D9C1" \o
      ";SIGNWRITING MOVEMENT-FLOORPLANE CURVE SMALL=01D9D5;MENDE KIKAKUI DIGIT TWO=01E8C8" \o
      ";CLOCK FACE EIGHT-THIRTY=01F563;ALCHEMICAL SYMBOL FOR REALGAR-2=01F73C",
    ";CARRIAGE RETURN=00000D;LATIN CAPITAL LETTER OI=0001A2;LATIN CAPITAL LETTER NJ=0001CA" \o
      ";GREEK CAPITAL LETTER MU=00039C;ORIYA LETTER UU=000B0A;SINHALA LITH DIGIT FOUR=000DEA" \o
      ";HANGUL CHOSEONG KAPYEOUNMIEUM=00111D;CANADIAN SYLLABICS PWAA=001446" \o
      ";CANADIAN SYLLABICS TLHA=001589;CANADIAN SYLLABICS OJIBWAY NWO=0018CB" \o
      ";CANADIAN SYLLABICS SAYISI SHWE=0018EA;LEPCHA CONSONANT SIGN M=001C2E" \o
      ";MODIFIER LETTER SMALL F=001DA0;MODIFIER LETTER SMALL N WITH LEFT HOOK=001DAE" \o
      ";GREEK CAPITAL LETTER ALPHA WITH DASIA AND PERISPOMENI=001F0F" \o
      ";GREEK SMALL LETTER UPSILON WITH PSILI=001F50;GREEK CAPITAL LETTER ALPHA WITH MACRON=001FB9" \o
      ";APL FUNCTIONAL SYMBOL QUAD JOT=00233B;ALTERNATIVE KEY SYMBOL=002387" \o
      ";VERTICAL MALE WITH STROKE SIGN=0026A8;MARRIAGE SYMBOL=0026AD" \o
      ";LESS-THAN ABOVE SLANTED EQUAL ABOVE GREATER-THAN ABOVE SLANTED EQUAL=002A93" \o
      ";GREATER-THAN ABOVE SLANTED EQUAL ABOVE LESS-THAN ABOVE SLANTED EQUAL=002A94" \o
      ";REVERSE TILDE OPERATOR ABOVE LEFTWARDS ARROW=002B41" \o
      ";LEFTWARDS ARROW ABOVE REVERSE TILDE OPERATOR=002B4B" \o
      ";LEFTWARDS TRIANGLE-HEADED ARROW WITH DOUBLE VERTICAL STROKE=002B7A" \o
      ";RUSSIAN ASTROLOGICAL SYMBOL SENTAGON=002BF7;COPTIC SMALL LETTER EIE=002C89" \o
      ";COPTIC CAPITAL LETTER OLD NUBIAN SHIMA=002CDC;YI SYLLABLE SYX=00A325;YI SYLLABLE YYR=00A48C" \o
      ";CHEROKEE SMALL LETTER O=00AB73;ARABIC LETTER TCHEH MEDIAL FORM=00FB7D" \o
      ";ARABIC LIGATURE YEH WITH HAMZA ABOVE WITH E FINAL FORM=00FBF7" \o
      ";FULLWIDTH LATIN SMALL LETTER J=00FF4A;HALFWIDTH RIGHT CORNER BRACKET=00FF63" \o
      ";LINEAR B SYLLABLE B057 JA=01000A;GREEK ACROPHONIC MESSENIAN TEN=010163" \o
      ";HANIFI ROHINGYA VOWEL A=010D1D;MASARAM GONDI DIGIT TWO=011D52;GUNJALA GONDI DIGIT TWO=011DA2" \o
      ";CUNEIFORM SIGN LAGAB TIMES SHITA PLUS GISH PLUS ERIN2=0121DD" \o
      ";CUNEIFORM SIGN LAK-079 OVER LAK-079 GUNU=0124DC;DUPLOYAN AFFIX LOW TIGHT ACUTE=01BC91" \o
      ";MUSICAL SYMBOL SIXTEENTH REST=01D13F;MATHEMATICAL FRAKTUR CAPITAL W=01D51A" \o
      ";MATHEMATICAL SANS-SERIF BOLD CAPITAL Z=01D5ED;MATHEMATICAL SANS-SERIF ITALIC SMALL J=01D62B" \o
      ";MATHEMATICAL MONOSPACE SMALL V=01D69F;IZAKAYA LANTERN=01F3EE",
    ";REGISTERED SIGN=0000AE;LATIN SMALL LETTER U WITH DOUBLE ACUTE=000171" \o
      ";LATIN SMALL LETTER R WITH DOUBLE GRAVE=000211;GREEK CAPITAL LETTER NU=00039D" \o
      ";COPTIC SMALL LETTER FEI=0003E5;DEVANAGARI VOWEL SIGN O=00094B;KANNADA LETTER A=000C85" \o
      ";MALAYALAM VOWEL SIGN II=000D40;LAO VOWEL SIGN E=000EC0;TIBETAN MARK GTER TSHEG=000F14" \o
      ";MONGOLIAN COLON=001804;LEPCHA CONSONANT SIGN N=001C30;CYRILLIC SMALL LETTER TALL YAT=001C87" \o
      ";MODIFIER LETTER SMALL G=001D4D;LATIN SMALL LETTER R WITH PALATAL HOOK=001D89" \o
      ";UP DOWN ARROW WITH BASE=0021A8;DOWNWARDS DOUBLE ARROW=0021D3;YIN YANG=00262F" \o
      ";SOUTH EAST ARROW AND SOUTH WEST ARROW=002929;BLACK LEFTWARDS EQUILATERAL ARROWHEAD=002B9C" \o
      ";COPTIC CAPITAL LETTER O=002C9E;COPTIC SMALL LETTER CRYPTOGRAMMIC EIE=002CB7" \o
      ";CJK RADICAL HORN=002EC7;PARENTHESIZED HANGUL KHIEUKH A=003218" \o
      ";IDEOGRAPHIC TELEGRAPH SYMBOL FOR DAY EIGHTEEN=0033F1;YI SYLLABLE ZYR=00A2AD" \o
      ";YI SYLLABLE XYT=00A46B;LATIN CAPITAL LETTER ET=00A76A;SAURASHTRA LETTER TTHA=00A89D" \o
      ";KAYAH LI VOWEL O=00A92A;MYANMAR LETTER SHAN GHA=00A9E0;TAI VIET LETTER LOW PHO=00AA9E" \o
      ";ETHIOPIC SYLLABLE DDHAA=00AB0B;MEETEI MAYEK LETTER JIL=00ABD6" \o
      ";ARABIC LETTER HEH WITH YEH ABOVE ISOLATED FORM=00FBA4;FULLWIDTH LATIN SMALL LETTER K=00FF4B" \o
      ";LINEAR B SYLLABLE B014 DO=010008;LINEAR B SYLLABLE B044 KE=010010" \o
      ";LINEAR B SYLLABLE B031 SA=01002D;COPTIC EPACT NUMBER TEN=0102EA;MANICHAEAN LETTER ALEPH=010AC0" \o
      ";BRAHMI SIGN CANDRABINDU=011000;ZANABAZAR SQUARE VOWEL SIGN AU=011A08" \o
      ";BAMUM LETTER PHASE-A MAEMBGBIEE=01680B;PAHAWH HMONG DIGIT FOUR=016B54" \o
      ";ZNAMENNY NEUME MECHIK KLYUCHEPOVODNY=01CFAA;BYZANTINE MUSICAL SYMBOL TROMIKOPARAKALESMA=01D06E" \o
      ";MUSICAL SYMBOL DAMP ALL=01D1B5;MATHEMATICAL FRAKTUR CAPITAL X=01D51B" \o
      ";MATHEMATICAL SANS-SERIF ITALIC SMALL K=01D62C;MATHEMATICAL MONOSPACE SMALL W=01D6A0" \o
      ";MATHEMATICAL ITALIC RHO SYMBOL=01D71A;MATHEMATICAL DOUBLE-STRUCK DIGIT ZERO=01D7D8" \o
      ";COMBINING GLAGOLITIC LETTER SMALL YUS=01E024;OTTOMAN SIYAQ MARRATAN=01ED2E" \o
      ";ARABIC MATHEMATICAL INITIAL DAD=01EE39;SPARKLING HEART=01F496" \o
      ";ALCHEMICAL SYMBOL FOR HALF DRAM=01F772;BOWL WITH SPOON=01F963;TAG GRAVE ACCENT=0E0060",
    ";MODIFIER LETTER SMALL H=0002B0;GREEK ANO TELEIA=000387" \o
      ";GREEK SMALL LETTER EPSILON WITH TONOS=0003AD;SAMARITAN VOWEL SIGN AA=000820" \o
      ";ARABIC LETTER ALEF WITH ATTACHED TOP RIGHT FATHA AND DOT ABOVE=00087B" \o
      ";THAI CHARACTER YAMAKKAN=000E4E;CANADIAN SYLLABICS RWAA=00154E;MONGOLIAN LETTER SIBE I=00185E" \o
      ";CANADIAN SYLLABICS SAYISI SHOO=0018EB;LEPCHA LETTER BA=001C13;LEPCHA DIGIT ONE=001C41" \o
      ";GEORGIAN MTAVRULI CAPITAL LETTER SHIN=001CA8;LATIN SMALL LETTER S WITH PALATAL HOOK=001D8A" \o
      ";LATIN SMALL LETTER OPEN E WITH RETROFLEX HOOK=001D93;MODIFIER LETTER SMALL TURNED V=001DBA" \o
      ";SOM SIGN=0020C0;POWER ON SYMBOL=0023FD;SQUARE WITH CONTOURED OUTLINE=0029E0" \o
      ";STENOGRAPHIC FULL STOP=002E3C;CJK RADICAL FOOT=002ECA;CJK RADICAL J-SIMPLIFIED DRAGON=002EEF" \o
      ";YI SYLLABLE YUX=00A482;YI SYLLABLE YYT=00A487;LATIN CAPITAL LETTER AY=00A73C" \o
      ";LATIN SMALL LIGATURE FL=00FB02;ARABIC LETTER TEHEH MEDIAL FORM=00FB65;FULLWIDTH COMMA=00FF0C" \o
      ";FULLWIDTH LATIN SMALL LETTER L=00FF4C;LINEAR B SYLLABLE B046 JE=01000B" \o
      ";LINEAR B SYLLABLE B024 NE=01001A;LINEAR B SYLLABLE B016 QA=010023" \o
      ";LINEAR B SYLLABLE B060 RA=010028;PHAISTOS DISC SIGN COMB=0101E4;CARIAN LETTER P2=0102A1" \o
      ";DESERET SMALL LETTER EF=010441;MANICHAEAN LETTER BHETH=010AC2" \o
      ";MANICHAEAN PUNCTUATION DOT WITHIN DOT=010AF3;SHARADA EXTRA SHORT VOWEL MARK=0111CC" \o
      ";BYZANTINE MUSICAL SYMBOL LEIMMA ENOS CHRONOU=01D08A" \o
      ";BYZANTINE MUSICAL SYMBOL MARTYRIA ALLI PROTOS ICHOS=01D0A3" \o
      ";BYZANTINE MUSICAL SYMBOL MARTYRIA PROTOVARYS ICHOS=01D0B2;MATHEMATICAL FRAKTUR CAPITAL Y=01D51C" \o
      ";MATHEMATICAL SANS-SERIF ITALIC SMALL L=01D62D;MATHEMATICAL MONOSPACE SMALL X=01D6A1" \o
      ";MATHEMATICAL SANS-SERIF BOLD SMALL PHI=01D785;SIGNWRITING RUB SINGLE=01D911" \o
      ";ARABIC MATHEMATICAL TAILED JEEM=01EE42;BLACK CHESS TURNED ROOK=01FA26" \o
      ";BLACK CHESS KNIGHT-ROOK=01FA52",
    ";LATIN SMALL LIGATURE IJ=000133;LATIN SMALL LETTER T WITH PALATAL HOOK=0001AB" \o
      ";ARABIC SMALL YEH=0006E6;ETHIOPIC SYLLABLE PHARYNGEAL I=0012D2;CANADIAN SYLLABICS CWII=001496" \o
      ";CANADIAN SYLLABICS SWAA=001502;CANADIAN SYLLABICS NNGI=001671;LEPCHA LETTER CA=001C06" \o
      ";LEPCHA CONSONANT SIGN P=001C31;COMBINING LATIN LETTER SMALL CAPITAL L=001DDE" \o
      ";COMBINING LATIN SMALL LETTER U WITH DIAERESIS=001DF4" \o
      ";LATIN CAPITAL LETTER U WITH HORN AND DOT BELOW=001EF0" \o
      ";GREEK CAPITAL LETTER OMEGA WITH DASIA AND PERISPOMENI=001F6F" \o
      ";LATIN SUBSCRIPT SMALL LETTER A=002090;GLAGOLITIC CAPITAL LETTER HERU=002C18" \o
      ";CJK RADICAL MOON=002E9D;CJK RADICAL CITY=002ECF;CIRCLED IDEOGRAPH THREE=003282" \o
      ";IDEOGRAPHIC TELEGRAPH SYMBOL FOR HOUR TWENTY=00336C;HEXAGRAM FOR BEFORE COMPLETION=004DFF" \o
      ";YI SYLLABLE VYX=00A0FB;YI SYLLABLE ZUX=00A2A3;YI SYLLABLE ZYT=00A2A8" \o
      ";MODIFIER LETTER SMALL TURNED W=00AB69;MEETEI MAYEK LETTER SAM=00ABC1" \o
      ";MEETEI MAYEK LETTER WAI=00ABCB;MEETEI MAYEK LETTER GOK=00ABD2;MEETEI MAYEK DIGIT ZERO=00ABF0" \o
      ";ARABIC LIGATURE DAD WITH REH FINAL FORM=00FD2C;FULLWIDTH LATIN SMALL LETTER M=00FF4D" \o
      ";LINEAR B SYLLABLE B077 KA=01000F;LINEAR B SYLLABLE B030 NI=01001B" \o
      ";OLD ITALIC LETTER NORTHERN TSE=01032E;MEROITIC CURSIVE NUMBER EIGHT HUNDRED=0109D9" \o
      ";KHAROSHTHI PUNCTUATION CIRCLE=010A52;MANICHAEAN LETTER KHAPH=010AD2" \o
      ";SOYOMBO FINAL CONSONANT SIGN K=011A8B;GUNJALA GONDI LETTER OO=011D6A;MRO DOUBLE DANDA=016A6F" \o
      ";MEDEFAIDRIN DIGIT THREE=016E83;DUPLOYAN AFFIX HIGH DOT=01BC84" \o
      ";BYZANTINE MUSICAL SYMBOL AGOGI METRIA=01D09D" \o
      ";BYZANTINE MUSICAL SYMBOL FTHORA DIATONIKI ZO=01D0C0" \o
      ";MATHEMATICAL SANS-SERIF ITALIC SMALL M=01D62E;MATHEMATICAL MONOSPACE SMALL Y=01D6A2" \o
      ";SIGNWRITING HAND-FIST INDEX MIDDLE CONJOINED THUMB SIDE BENT=01D82F" \o
      ";SIGNWRITING HAND-FIST INDEX THUMB ANGLED IN MIDDLE UP=01D83B" \o
      ";SIGNWRITING HAND-CLAW NO THUMB=01D868" \o
      ";SIGNWRITING HAND-FIST INDEX THUMB FORWARD INDEX BENT=01D8E5" \o
      ";SIGNWRITING LOCATION HEAD NECK=01DA84;INDIC SIYAQ NUMBER FIVE=01EC75" \o
      ";INDIC SIYAQ NUMBER NINE=01EC79;LIGHT CHECK MARK=01F5F8" \o
      ";UPWARDS ARROW WITH MEDIUM TRIANGLE ARROWHEAD=01F805",
    ";PRIVATE USE TWO=000092;NOT SIGN=0000AC;LATIN SMALL LIGATURE OE=000153" \o
      ";LATIN LETTER REVERSED ESH LOOP=0001AA;LATIN SMALL LETTER U WITH DOUBLE GRAVE=000215" \o
      ";MODIFIER LETTER SMALL J=0002B2;CYRILLIC SMALL LETTER GHE WITH UPTURN=000491" \o
      ";ARABIC LETTER YEH BARREE WITH EXTENDED ARABIC-INDIC DIGIT THREE ABOVE=00077B" \o
      ";SINHALA LITH DIGIT ZERO=000DE6;HANGUL CHOSEONG KAPYEOUNRIEUL=00111B" \o
      ";ETHIOPIC NUMBER THIRTY=001374;CANADIAN SYLLABICS TWAA=001463;CANADIAN SYLLABICS SHII=001512" \o
      ";CANADIAN SYLLABICS TLHE=001586;LEPCHA LETTER DA=001C0C" \o
      ";LATIN LETTER VOICED LARYNGEAL SPIRANT=001D24;COMBINING LATIN LETTER SMALL CAPITAL M=001DDF" \o
      ";LATIN SMALL LETTER R WITH DOT BELOW AND MACRON=001E5D" \o
      ";GREEK SMALL LETTER ALPHA WITH DASIA AND YPOGEGRAMMENI=001F81" \o
      ";LEFT RIGHT ARROW WITH VERTICAL STROKE=0021F9;RING IN EQUAL TO=002256" \o
      ";PARENTHESIZED NUMBER THIRTEEN=002480;BOX DRAWINGS HEAVY QUADRUPLE DASH HORIZONTAL=002509" \o
      ";WHITE SQUARE WITH LOWER LEFT QUADRANT=0025F1;SOUTH WEST WHITE ARROW=002B03" \o
      ";THREE LEFTWARDS ARROWS=002B31;COPTIC SMALL LETTER L-SHAPED HA=002CD1" \o
      ";BOPOMOFO FINAL LETTER G=0031BB;PARENTHESIZED IDEOGRAPH STUDY=00323B" \o
      ";SQUARE M OVER S SQUARED=0033A8;SQUARE C OVER KG=0033C6;VAI SYLLABLE GBA=00A557" \o
      ";CYRILLIC KAVYKA=00A67E;LATIN CAPITAL LETTER IS=00A76C;MYANMAR LETTER SHAN JHA=00A9E2" \o
      ";CHAM DIGIT THREE=00AA53;CHEROKEE SMALL LETTER S=00AB9D;SMALL SEMICOLON=00FE54" \o
      ";ARABIC DAMMA MEDIAL FORM=00FE79;FULLWIDTH LATIN SMALL LETTER N=00FF4E" \o
      ";KHAROSHTHI LETTER TTTA=010A34;HANIFI ROHINGYA VOWEL E=010D20" \o
      ";SINHALA ARCHAIC NUMBER SEVENTY=0111F0;KHUDAWADI VOWEL SIGN II=0112E2" \o
      ";SOYOMBO FINAL CONSONANT SIGN L=011A92;CUNEIFORM NUMERIC SIGN TWO ASH=012400" \o
      ";CUNEIFORM NUMERIC SIGN SEVEN U=012412;CUNEIFORM SIGN GESHTIN TIMES U=0124CA" \o
      ";PAHAWH HMONG VOWEL KAUB=016B04;PAHAWH HMONG VOWEL KUAB=016B10;PAHAWH HMONG VOWEL KAAV=016B1B" \o
      ";BYZANTINE MUSICAL SYMBOL VAREIA DIPLI=01D006;TETRAGRAM FOR ETERNITY=01D33A" \o
      ";MATHEMATICAL SANS-SERIF ITALIC SMALL N=01D62F;MATHEMATICAL MONOSPACE SMALL Z=01D6A3" \o
      ";UPWARDS TRIANGLE-HEADED ARROW WITH BOLD SHAFT=01F829;BLOCK SEXTANT-12=01FB02" \o
      ";LEFT HALF FOLDER=01FBB9",
    ";PRIVACY MESSAGE=00009E;LATIN CAPITAL LETTER L WITH BAR=00023D;MANDAIC GEMINATION MARK=00085B" \o
      ";BENGALI LETTER A=000985;KANNADA LETTER E=000C8E;MALAYALAM VOWEL SIGN AU=000D4C" \o
      ";THAI CHARACTER NIKHAHIT=000E4D;LAO VOWEL SIGN I=000EB4;LAO KO LA=000EC6" \o
      ";MYANMAR LETTER SHAN KHA=001076;CANADIAN SYLLABICS THII=001562;OGHAM SPACE MARK=001680" \o
      ";KHMER VOWEL INHERENT AA=0017B5;BATAK LETTER MBA=001BE3;LEPCHA CONSONANT SIGN R=001C32" \o
      ";GEORGIAN MTAVRULI CAPITAL LETTER ZHAR=001C9F;MODIFIER LETTER SMALL K=001D4F" \o
      ";LATIN SMALL LETTER V WITH PALATAL HOOK=001D8C;COMBINING LATIN LETTER SMALL CAPITAL N=001DE1" \o
      ";GREEK CAPITAL LETTER ALPHA WITH PSILI AND OXIA=001F0C;PLANCK CONSTANT=00210E" \o
      ";N-ARY LOGICAL OR=0022C1;RIGHT CURLY BRACKET LOWER HOOK=0023AD;HEAVY MULTIPLICATION X=002716" \o
      ";LONG RIGHTWARDS ARROW FROM BAR=0027FC;COPTIC CAPITAL LETTER OLD COPTIC SHIMA=002CDA" \o
      ";REVERSED QUESTION MARK=002E2E;BOPOMOFO FINAL LETTER H=0031B7;CIRCLED IDEOGRAPH NIGHT=0032B0" \o
      ";YI SYLLABLE ZZU=00A2E3;YI SYLLABLE XYX=00A46C;VAI SYLLABLE BHA=00A551" \o
      ";LATIN SMALL LETTER HENG=00A727;REJANG CONSONANT SIGN H=00A952;TAI VIET LETTER LOW THO=00AA96" \o
      ";LATIN SMALL LETTER SCRIPT G WITH CROSSED-TAIL=00AB36;MEETEI MAYEK LETTER KOK LONSUM=00ABDB" \o
      ";ARABIC LETTER NGOEH MEDIAL FORM=00FB9D" \o
      ";ARABIC LIGATURE SHEEN WITH ALEF MAKSURA ISOLATED FORM=00FCFD" \o
      ";FULLWIDTH LATIN SMALL LETTER O=00FF4F;OLD PERMIC LETTER MENOE=01035C" \o
      ";MODIFIER LETTER SMALL TURNED Y=0107A0;MANICHAEAN LETTER GIMEL=010AC3" \o
      ";ZANABAZAR SQUARE VOWEL SIGN UE=011A02;SOYOMBO FINAL CONSONANT SIGN M=011A90" \o
      ";BHAIKSUKI VOWEL SIGN AI=011C39;ANATOLIAN HIEROGLYPH A393 EIGHT=0145BD" \o
      ";PAHAWH HMONG DIGIT ZERO=016B50;HENTAIGANA LETTER TO-RA=01B07D" \o
      ";BYZANTINE MUSICAL SYMBOL PERISPOMENI=01D002;BYZANTINE MUSICAL SYMBOL APODERMA NEO=01D084" \o
      ";MATHEMATICAL SANS-SERIF ITALIC SMALL O=01D630" \o
      ";SIGNWRITING HAND-FIST INDEX MIDDLE THUMB BENT=01D822" \o
      ";OTTOMAN SIYAQ NUMBER TWENTY THOUSAND=01ED26;MULTIPLE MUSICAL NOTES=01F3B6" \o
      ";HIGH-HEELED SHOE=01F460;SPLASHING SWEAT SYMBOL=01F4A6;BLOCK SEXTANT-13=01FB04",
    ";INVERTED QUESTION MARK=0000BF;LATIN CAPITAL LETTER DZ=0001F1;MODIFIER LETTER SMALL L=0002E1" \o
      ";COMBINING INVERTED BREVE BELOW=00032F;GREEK SMALL LETTER IOTA=0003B9" \o
      ";CYRILLIC CAPITAL LETTER SEMISOFT SIGN=00048C;ARABIC LETTER HEH GOAL WITH HAMZA ABOVE=0006C2" \o
      ";HANGUL CHOSEONG KAPYEOUNPIEUP=00112B;TAI THAM LETTER HIGH CHA=001A28;LEPCHA LETTER FA=001C11" \o
      ";ROMAN NUMERAL FIFTY EARLY FORM=002186;N-ARY SUMMATION=002211" \o
      ";APPROXIMATELY EQUAL TO OR THE IMAGE OF=002252;RIGHT HALF BLOCK=002590" \o
      ";TOP ARC ANTICLOCKWISE ARROW WITH PLUS=00293D;PLUTO FORM FOUR=002BD5" \o
      ";GLAGOLITIC CAPITAL LETTER YATI=002C21;YI SYLLABLE YYX=00A488;LISU PUNCTUATION COMMA=00A4FE" \o
      ";VAI SYLLABLE BEE=00A507;LATIN CAPITAL LETTER OO=00A74E;ETHIOPIC SYLLABLE CCHHA=00AB20" \o
      ";CHEROKEE SMALL LETTER U=00AB74;MEETEI MAYEK VOWEL SIGN SOUNAP=00ABE7" \o
      ";ARABIC LETTER BEEH INITIAL FORM=00FB54;ARABIC LETTER DAD ISOLATED FORM=00FEBD" \o
      ";FULLWIDTH LATIN SMALL LETTER P=00FF50;LINEAR B SYLLABLE B021 QI=010025" \o
      ";LINEAR B SYLLABLE B004 TE=010033;OLD PERMIC LETTER NENOE=01035D;NABATAEAN LETTER SAMEKH=010896" \o
      ";AHOM SIGN SMALL SECTION=01173C;DIVES AKURU LETTER DDHA=011919" \o
      ";SOYOMBO FINAL CONSONANT SIGN N=011A8E;PAHAWH HMONG VOWEL KAWB=016B0E" \o
      ";MUSICAL SYMBOL PODATUS=01D1D4;MATHEMATICAL SANS-SERIF ITALIC SMALL P=01D631" \o
      ";NYIAKENG PUACHUE HMONG SIGN FOR ANIMAL=01E13A;UP-POINTING SMALL RED TRIANGLE=01F53C" \o
      ";CLOCK FACE THREE-THIRTY=01F55E;BACK OF ENVELOPE=01F582" \o
      ";WIDE-HEADED DOWNWARDS LIGHT BARB ARROW=01F863;KNEELING PERSON=01F9CE" \o
      ";WHITE CHESS KING ROTATED TWO HUNDRED SEVENTY DEGREES=01FA33;BLOCK SEXTANT-23=01FB05" \o
      ";BLOCK SEXTANT-14=01FB08",
    ";CYRILLIC SMALL LETTER A=000430;DEVANAGARI VOWEL SIGN U=000941;LEPCHA LETTER GA=001C03" \o
      ";LEPCHA CONSONANT SIGN T=001C33;MODIFIER LETTER SMALL M=001D50" \o
      ";LATIN SMALL LETTER X WITH PALATAL HOOK=001D8D" \o
      ";GREEK SMALL LETTER OMEGA WITH DASIA AND YPOGEGRAMMENI=001FA1;LEFT-TO-RIGHT EMBEDDING=00202A" \o
      ";RIGHT-TO-LEFT EMBEDDING=00202B;LATIN SUBSCRIPT SMALL LETTER E=002091;WON SIGN=0020A9" \o
      ";DOUBLE-STRUCK CAPITAL C=002102;WHITE SQUARE WITH UPPER LEFT QUADRANT=0025F0" \o
      ";WHITE TELEPHONE=00260F;WHITE DIAMOND IN SQUARE=0026CB" \o
      ";LATIN CAPITAL LETTER S WITH SWASH TAIL=002C7E;ETHIOPIC SYLLABLE CCHEE=002DBC" \o
      ";COMBINING CYRILLIC LETTER FITA=002DF4;LEFT SIDEWAYS U BRACKET=002E26;YI SYLLABLE ZYX=00A2A9" \o
      ";VAI SYLLABLE CEE=00A51A;VAI SYLLABLE DHA=00A55C;KAYAH LI VOWEL U=00A928" \o
      ";MYANMAR MODIFIER LETTER KHAMTI REDUPLICATION=00AA70" \o
      ";MODIFIER LETTER SMALL U WITH LEFT HOOK=00AB5F;CHEROKEE SMALL LETTER V=00AB75" \o
      ";MEETEI MAYEK LETTER KOK=00ABC0;ARABIC LIGATURE KAF WITH LAM FINAL FORM=00FC81" \o
      ";SMALL IDEOGRAPHIC COMMA=00FE51;ARABIC LETTER SHEEN MEDIAL FORM=00FEB8" \o
      ";FULLWIDTH LATIN SMALL LETTER Q=00FF51;FULLWIDTH TILDE=00FF5E;LINEAR B SYLLABLE B072 PE=01001F" \o
      ";PHAISTOS DISC SIGN CLUB=0101DC;OLD SOGDIAN LETTER AYIN=010F12;BRAHMI LETTER AA=011006" \o
      ";SHARADA LETTER A=011183;DIVES AKURU DIGIT EIGHT=011958;BHAIKSUKI NUMBER SIXTY=011C68" \o
      ";CUNEIFORM SIGN LAK-617 TIMES BAD=012503;GREEK INSTRUMENTAL NOTATION SYMBOL-11=01D223" \o
      ";MATHEMATICAL SANS-SERIF ITALIC SMALL Q=01D632" \o
      ";SIGNWRITING MOVEMENT-DIAGONAL BETWEEN TOWARDS LARGE=01D963" \o
      ";ARABIC MATHEMATICAL INITIAL BEH=01EE21;LEAF FLUTTERING IN WIND=01F343;HOUSE BUILDINGS=01F3D8" \o
      ";BLOCK SEXTANT-24=01FB09;BLOCK SEXTANT-15=01FB10;TAG RIGHT CURLY BRACKET=0E007D",
    ";START OF PROTECTED AREA=000096;ARABIC LETTER OE=0006C6;SYRIAC TWO VERTICAL DOTS ABOVE=000743" \o
      ";TIBETAN SIGN LCE TSA CAN=000F88;HANGUL JONGSEONG RIEUL-KAPYEOUNPIEUP=0011D5" \o
      ";CANADIAN SYLLABICS TTHA=00156E;CANADIAN SYLLABICS TLHI=001587;BATAK LETTER NDA=001BE2" \o
      ";LEPCHA LETTER HA=001C1D;GREEK CAPITAL LETTER OMEGA WITH PSILI AND OXIA=001F6C" \o
      ";COMBINING LONG DOUBLE SOLIDUS OVERLAY=0020EB;TRIPLE INTEGRAL=00222D" \o
      ";LESS-THAN OVER EQUAL TO=002266" \o
      ";SMALL CONTAINS WITH VERTICAL BAR AT END OF HORIZONTAL STROKE=0022FC;VIEWDATA SQUARE=002317" \o
      ";RIGHT CURLY BRACKET UPPER HOOK=0023AB;BOX DRAWINGS DOUBLE UP AND LEFT=00255D" \o
      ";HEAVY CHECK MARK=002714;BLACK FOUR POINTED STAR=002726" \o
      ";RIGHTWARDS HARPOON WITH BARB UP TO BAR=002953;UPWARDS HARPOON WITH BARB RIGHT TO BAR=002954" \o
      ";TRIANGLE WITH DOT ABOVE=0029CA;GLAGOLITIC CAPITAL LETTER YERI=002C20" \o
      ";BOPOMOFO FINAL LETTER K=0031B6;CJK STROKE HZZZ=0031CE;VAI SYLLABLE DEE=00A514" \o
      ";VAI SYLLABLE GBE=00A5EF;ARABIC FATHA MEDIAL FORM=00FE77;FULLWIDTH LATIN SMALL LETTER R=00FF52" \o
      ";LINEAR B SYLLABLE B051 DU=010009;GREEK ACROPHONIC ATTIC ONE HALF=010141" \o
      ";DESERET SMALL LETTER EL=01044A;MODIFIER LETTER SMALL TS DIGRAPH WITH RETROFLEX HOOK=0107AD" \o
      ";HANIFI ROHINGYA VOWEL I=010D1E;OLD SOGDIAN LETTER SHIN=010F19;BRAHMI LETTER BA=011029" \o
      ";BRAHMI DIGIT ONE=011067;KAITHI SIGN CANDRABINDU=011080;KHUDAWADI VOWEL SIGN AU=0112E8" \o
      ";AHOM LETTER DDHA=011744;DOGRA LETTER DDA=011816" \o
      ";CUNEIFORM SIGN EZEN TIMES A PLUS LAL TIMES LAL=0120A4;CUNEIFORM SIGN GU2 GUNU=01211D" \o
      ";CUNEIFORM SIGN LAGAB TIMES TAK4=0121E3;CUNEIFORM SIGN NINDA2 TIMES BAL=012391" \o
      ";GREEK INSTRUMENTAL NOTATION SYMBOL-12=01D224;GREEK INSTRUMENTAL NOTATION SYMBOL-30=01D230" \o
      ";MATHEMATICAL SANS-SERIF ITALIC SMALL R=01D633;MENDE KIKAKUI SYLLABLE M093 GBEE=01E8A9" \o
      ";SQUARED SIXTY P=01F1A3;FOUR POINTED BLACK STAR=01F7C6;PANCAKES=01F95E;BLOCK SEXTANT-34=01FB0B" \o
      ";BLOCK SEXTANT-25=01FB11;BLOCK SEXTANT-16=01FB1F",
    ";MODIFIER LETTER LEFT ARROWHEAD=0002C2;MODIFIER LETTER UP TACK=0002D4" \o
      ";MODIFIER LETTER LOW LEFT ARROW=0002FF;CYRILLIC SMALL LETTER PALOCHKA=0004CF" \o
      ";ARABIC LETTER NG=0006AD;THAANA EEBEEFILI=0007A9" \o
      ";ARABIC LETTER ALEF WITH ATTACHED TOP RIGHT FATHA AND LEFT RING=00087E" \o
      ";ARABIC LETTER BEH WITH SMALL MEEM ABOVE=0008B6;BENGALI LETTER E=00098F;KANNADA LETTER I=000C87" \o
      ";THAI CHARACTER BO BAIMAI=000E1A;ETHIOPIC SYLLABLE PHARYNGEAL O=0012D6" \o
      ";CANADIAN SYLLABICS YWAA=00153B;CANADIAN SYLLABICS LHOO=0015A3;CANADIAN SYLLABICS NNGO=001673" \o
      ";RUNIC LETTER SHORT-TWIG-MADR M=0016D9;PHILIPPINE DOUBLE PUNCTUATION=001736" \o
      ";MODIFIER LETTER SMALL O=001D52;LATIN SMALL LETTER Z WITH PALATAL HOOK=001D8E" \o
      ";COMBINING LATIN LETTER SMALL CAPITAL R=001DE2;INVISIBLE TIMES=002062" \o
      ";LEFTWARDS TRIPLE ARROW=0021DA;PARENTHESIZED NUMBER FOURTEEN=002481" \o
      ";CIRCLED OPEN CENTRE EIGHT POINTED STAR=002742;HEAVY RIGHTWARDS ARROW=002799" \o
      ";COPTIC SMALL LETTER KHI=002CAD;KANGXI RADICAL FRAGRANT=002FB9" \o
      ";CIRCLED IDEOGRAPH KINDERGARTEN=003245;CIRCLED IDEOGRAPH RIGHT=0032A8;YI SYLLABLE ZZY=00A2E9" \o
      ";LISU LETTER TONE MYA TI=00A4F8;VAI SYLLABLE BHE=00A5E9" \o
      ";LATIN SMALL LETTER REVERSED C WITH DOT=00A73F;MEETEI MAYEK LETTER SSA=00AAEA" \o
      ";ETHIOPIC SYLLABLE DDHEE=00AB0C;MEETEI MAYEK LETTER TIL LONSUM=00ABE0" \o
      ";ARABIC LETTER KIRGHIZ OE ISOLATED FORM=00FBE0;ARABIC LIGATURE BEH WITH REH FINAL FORM=00FC6A" \o
      ";COMBINING TILDE LEFT HALF BELOW=00FE29;FULLWIDTH LATIN SMALL LETTER S=00FF53" \o
      ";LINEAR B SYLLABLE B073 MI=010016;LINEAR B SYLLABLE B027 RE=010029" \o
      ";DESERET SMALL LETTER EM=01044B;ELBASAN LETTER A=010500;MEROITIC CURSIVE NUMBER SIXTY=0109CE" \o
      ";MANICHAEAN LETTER AAYIN=010ADA;BRAHMI LETTER CA=011018;AHOM DIGIT EIGHT=011738" \o
      ";BHAIKSUKI SIGN AVAGRAHA=011C40;BAMUM LETTER PHASE-A TEUTEUWEN=016831" \o
      ";BAMUM LETTER PHASE-C NYIR MKPARAQ MEUN=016899;ZNAMENNY NEUME STRELA TRYASOGLASNAYA=01CFAC" \o
      ";GREEK INSTRUMENTAL NOTATION SYMBOL-13=01D225;GREEK INSTRUMENTAL NOTATION SYMBOL-40=01D236" \o
      ";MATHEMATICAL SANS-SERIF ITALIC SMALL S=01D634" \o
      ";SIGNWRITING HAND-FIST INDEX UP MIDDLE HINGED THUMB CONJOINED=01D825" \o
      ";ARABIC MATHEMATICAL INITIAL HAH=01EE27;ARABIC MATHEMATICAL LOOPED ALEF=01EE80" \o
      ";FLYING ENVELOPE=01F585;RIGHTWARDS HEAVY ARROW=01F846;BLOCK SEXTANT-35=01FB13" \o
      ";BLOCK SEXTANT-26=01FB20",
    ";HEBREW LETTER FINAL NUN=0005DF;THAI DIGIT EIGHT=000E58;TIBETAN SIGN YANG RTAGS=000F87" \o
      ";MYANMAR LETTER SHAN PHA=00107D;CANADIAN SYLLABICS SHWA=001521;CANADIAN SYLLABICS NGOO=001592" \o
      ";CANADIAN SYLLABICS RWEE=0018CE;LEPCHA LETTER JA=001C08;MODIFIER LETTER SMALL P=001D56" \o
      ";LATIN SUBSCRIPT SMALL LETTER H=002095;PRECEDES BUT NOT EQUIVALENT TO=0022E8" \o
      ";CIRCLED NUMBER EIGHTEEN=002471;TRIANGLE WITH SERIFS AT BOTTOM=0029CD" \o
      ";SMALL VEE WITH UNDERBAR=002A61;GLAGOLITIC CAPITAL LETTER BUKY=002C01;VAI SYLLABLE FEE=00A50C" \o
      ";VAI SYLLABLE MBA=00A553;LATIN SMALL LETTER DOUBLE WYNN=00A7D5;TAI VIET VOWEL E=00AAB5" \o
      ";MEETEI MAYEK LETTER NYA=00AAE3;ETHIOPIC SYLLABLE CCHHE=00AB25;MEETEI MAYEK LETTER HUK=00ABCD" \o
      ";MEETEI MAYEK LETTER MIT LONSUM=00ABDD;HEBREW LETTER WIDE RESH=00FB27" \o
      ";ARABIC LIGATURE DAD WITH YEH FINAL FORM=00FD24;FULLWIDTH LATIN SMALL LETTER T=00FF54" \o
      ";LINEAR B SYLLABLE B067 KI=010011;LINEAR B SYLLABLE B070 KO=010012" \o
      ";LINEAR B SYLLABLE B011 PO=010021;LINEAR B SYLLABLE B009 SE=01002E" \o
      ";LINEAR B SYLLABLE B041 SI=01002F;LINEAR B SYLLABLE B054 WA=010037" \o
      ";DESERET SMALL LETTER EN=01044C;OSAGE SMALL LETTER TSHA=0104F4;PALMYRENE LETTER ZAYIN=010866" \o
      ";MEROITIC CURSIVE NUMBER THREE HUNDRED=0109D4;OLD SOGDIAN LETTER YODH=010F0A" \o
      ";BRAHMI LETTER DA=011024;DOGRA LETTER BHA=011821;SOYOMBO FINAL CONSONANT SIGN R=011A91" \o
      ";CUNEIFORM SIGN KASKAL LAGAB TIMES U OVER LAGAB TIMES U=01219D;CUNEIFORM SIGN LU2 TENU=012211" \o
      ";GREEK INSTRUMENTAL NOTATION SYMBOL-14=01D226;GREEK INSTRUMENTAL NOTATION SYMBOL-23=01D22A" \o
      ";GREEK INSTRUMENTAL NOTATION SYMBOL-32=01D231;GREEK INSTRUMENTAL NOTATION SYMBOL-50=01D23D" \o
      ";MATHEMATICAL SANS-SERIF ITALIC SMALL T=01D635;MATHEMATICAL BOLD CAPITAL LAMDA=01D6B2" \o
      ";MATHEMATICAL SANS-SERIF BOLD SMALL RHO=01D780" \o
      ";SIGNWRITING FACE DIRECTION POSITION NOSE UP OR DOWN TILTING=01DA09" \o
      ";ARABIC MATHEMATICAL INITIAL KAF=01EE2A;DIGIT FIVE COMMA=01F106;DIGIT NINE COMMA=01F10A" \o
      ";SMILING FACE WITH HORNS=01F608;DNA DOUBLE HELIX=01F9EC;BLOCK SEXTANT-45=01FB16" \o
      ";BLOCK SEXTANT-36=01FB22",
    ";CYRILLIC SMALL LETTER E=00044D;LAO VOWEL SIGN O=000EC2;ETHIOPIC NUMBER TWENTY=001373" \o
      ";CANADIAN SYLLABICS KWII=001478;KHMER SIGN AHSDA=0017CF;CANADIAN SYLLABICS THWA=0018E4" \o
      ";BATAK LETTER NGA=001BDD;LEPCHA LETTER KA=001C00;VEDIC SIGN ARDHAVISARGA=001CF2" \o
      ";LATIN SUBSCRIPT SMALL LETTER I=001D62;COMBINING ENCLOSING UPWARD POINTING TRIANGLE=0020E4" \o
      ";RIGHT VERTICAL BOX LINE=0023B9;NEGATIVE CIRCLED NUMBER TWELVE=0024EC;BLACK CHESS PAWN=00265F" \o
      ";SQUARED SALTIRE=0026DD;PARENTHESIZED HANGUL PHIEUPH A=00321A;VAI SYLLABLE GEE=00A520" \o
      ";VAI SYLLABLE DHE=00A5F5;REJANG CONSONANT SIGN N=00A950;MEETEI MAYEK LETTER TTA=00AAE4" \o
      ";MEETEI MAYEK LETTER TIL=00ABC7;ARABIC LETTER GAF ISOLATED FORM=00FB92" \o
      ";FULLWIDTH LATIN SMALL LETTER U=00FF55;LINEAR B SYLLABLE B036 JO=01000D" \o
      ";LINEAR B SYLLABLE B015 MO=010017;OLD ITALIC LETTER SOUTHERN TSE=01032F" \o
      ";MODIFIER LETTER SMALL Q=0107A5;OLD SOGDIAN NUMBER FOUR=010F20;SORA SOMPENG LETTER BAH=0110D2" \o
      ";SORA SOMPENG DIGIT FIVE=0110F5;SORA SOMPENG DIGIT NINE=0110F9;SHARADA LETTER E=01118D" \o
      ";DOGRA LETTER CHA=011810;SOYOMBO FINAL CONSONANT SIGN S=011A94" \o
      ";CUNEIFORM SIGN GI4 CROSSING GI4=012106;CUNEIFORM SIGN DUG TIMES LAM TIMES KUR=0124A0" \o
      ";ZNAMENNY COMBINING MARK UDARKA=01CF25;BYZANTINE MUSICAL SYMBOL KRATIMA ALLO=01D082" \o
      ";MUSICAL SYMBOL FOUR-LINE STAFF=01D119;GREEK INSTRUMENTAL NOTATION SYMBOL-24=01D22B" \o
      ";GREEK INSTRUMENTAL NOTATION SYMBOL-42=01D237;GREEK INSTRUMENTAL NOTATION SYMBOL-51=01D23E" \o
      ";MATHEMATICAL SANS-SERIF ITALIC SMALL U=01D636;MATHEMATICAL SANS-SERIF BOLD SMALL TAU=01D783" \o
      ";SIGNWRITING HAND-ANGLE MIDDLE RING LITTLE OUT=01D8D2;ARABIC MATHEMATICAL INITIAL FEH=01EE30" \o
      ";BEAR FACE=01F43B;ALCHEMICAL SYMBOL FOR DISSOLVE=01F761" \o
      ";WIDE-HEADED DOWNWARDS HEAVY BARB ARROW=01F87B;BLOCK SEXTANT-46=01FB26",
    ";LATIN SMALL LETTER A WITH DIAERESIS AND MACRON=0001DF;LATIN CAPITAL LETTER OU=000222" \o
      ";MODIFIER LETTER SMALL R=0002B3;ARABIC SMALL WAW=0006E5;SYRIAC THREE DOTS ABOVE=000745" \o
      ";DEVANAGARI DANDA=000964;CANADIAN SYLLABICS LWII=0014E0;CANADIAN SYLLABICS TTHE=00156B" \o
      ";MONGOLIAN LETTER ALI GALI ANUSVARA ONE=001880;CANADIAN SYLLABICS SHAY=0018C1" \o
      ";LEPCHA LETTER LA=001C1C;LATIN SMALL LETTER OPEN O WITH RETROFLEX HOOK=001D97" \o
      ";COMBINING SHORT VERTICAL LINE OVERLAY=0020D3;DOUBLE-STRUCK CAPITAL H=00210D" \o
      ";APPROXIMATELY EQUAL TO=002245;SYMBOL FOR DEVICE CONTROL FOUR=002414" \o
      ";BACKSLANTED SOUTH ARROW WITH HORIZONTAL TAIL=002B5D;RUSSIAN ASTROLOGICAL SYMBOL QUINTILE=002BF5" \o
      ";LATIN SUBSCRIPT SMALL LETTER J=002C7C;KANGXI RADICAL CAULDRON=002FC0" \o
      ";CIRCLED IDEOGRAPH SEVEN=003286;VAI SYLLABLE HEE=00A502;VAI SYLLABLE GBI=00A530" \o
      ";REJANG LETTER BA=00A937;JAVANESE VOWEL SIGN WULU MELIK=00A9B7;CHAM LETTER NHJA=00AA12" \o
      ";MEETEI MAYEK LETTER MIT=00ABC3;ARABIC LETTER U WITH HAMZA ABOVE ISOLATED FORM=00FBDD" \o
      ";ARABIC LETTER BEH ISOLATED FORM=00FE8F;FULLWIDTH LATIN SMALL LETTER V=00FF56" \o
      ";LINEAR B SYLLABLE B053 RI=01002A;LINEAR B SYLLABLE B002 RO=01002B" \o
      ";LINEAR B SYLLABLE B059 TA=010032;LINEAR B SYLLABLE B017 ZA=01003C" \o
      ";LINEAR B SYLLABLE B085 AU=010042;OLD PERMIC LETTER CHERY=010364" \o
      ";MEROITIC CURSIVE NUMBER SIX HUNDRED THOUSAND=0109F2;INSCRIPTIONAL PARTHIAN NUMBER TWENTY=010B5D" \o
      ";SORA SOMPENG LETTER CAH=0110D3;CHAKMA DIGIT SIX=01113C;MODI LETTER DDHA=01161B" \o
      ";DOGRA LETTER DHA=01181C;PAU CIN HAU LOW-FALLING TONE LONG FINAL=011AF6" \o
      ";PAHAWH HMONG VOWEL KEEV=016B01;PAHAWH HMONG VOWEL KAIV=016B0B;PAHAWH HMONG VOWEL KOOB=016B0C" \o
      ";PAHAWH HMONG VOWEL KIAV=016B15;MEDEFAIDRIN DIGIT SEVEN=016E87" \o
      ";ZNAMENNY NEUME STRELA GROMOPOVODNAYA=01CFA3;GREEK INSTRUMENTAL NOTATION SYMBOL-25=01D22C" \o
      ";GREEK INSTRUMENTAL NOTATION SYMBOL-43=01D238;GREEK INSTRUMENTAL NOTATION SYMBOL-52=01D23F" \o
      ";MATHEMATICAL SANS-SERIF ITALIC SMALL V=01D637;ARABIC MATHEMATICAL TAILED SEEN=01EE4E" \o
      ";THOUGHT BALLOON=01F4AD;DARK SUNGLASSES=01F576;LEFT HALF CIRCLE WITH FOUR DOTS=01F903" \o
      ";MILITARY HELMET=01FA96;FACE WITH OPEN EYES AND HAND OVER MOUTH=01FAE2;BLOCK SEXTANT-56=01FB2D",
    ";MODIFIER LETTER SMALL S=0002E2;GREEK SMALL LETTER ZETA=0003B6;BENGALI LETTER I=000987" \o
      ";MALAYALAM VOWEL SIGN OO=000D4B;MALAYALAM FRACTION ONE QUARTER=000D73" \o
      ";THAI CHARACTER MAIYAMOK=000E46;LEFT-FACING SVASTI SIGN=000FD6;CANADIAN SYLLABICS MWII=0014B0" \o
      ";CANADIAN SYLLABICS TH-CREE THII=0015A9;KHMER SYMBOL LEK ATTAK PRAM-BEI=0017F8" \o
      ";LEPCHA LETTER MA=001C15;GREEK CAPITAL LETTER ALPHA WITH VRACHY=001FB8" \o
      ";LATIN SUBSCRIPT SMALL LETTER K=002096;RIGHTWARDS WHITE ARROW=0021E8;DOT PLUS=002214" \o
      ";PRECEDES=00227A;LEFT CURLY BRACKET MIDDLE PIECE=0023A8;BOX DRAWINGS LIGHT LEFT=002574" \o
      ";PRECEDES ABOVE SINGLE-LINE EQUALS SIGN=002AAF;GLAGOLITIC SMALL LETTER ZEMLJA=002C38" \o
      ";BOPOMOFO FINAL LETTER P=0031B4;VAI SYLLABLE BHI=00A52B;VAI SYLLABLE NDA=00A561" \o
      ";REJANG LETTER CA=00A939;CHAM DIGIT SEVEN=00AA57;FULLWIDTH LATIN SMALL LETTER W=00FF57" \o
      ";HALFWIDTH HANGUL LETTER RIEUL-PHIEUPH=00FFAF;LINEAR B SYLLABLE B052 NO=01001C" \o
      ";LINEAR B SYLLABLE B040 WI=010039;OLD PERMIC LETTER DZITA=010358;ELBASAN LETTER E=010508" \o
      ";BRAHMI LETTER GA=011015;SORA SOMPENG LETTER DAH=0110D4;SIDDHAM LETTER A=011580" \o
      ";MODI DIGIT EIGHT=011658;BHAIKSUKI VOWEL SIGN II=011C31;BAMUM LETTER PHASE-A NGKUE MFON=016800" \o
      ";ZNAMENNY COMBINING MARK TOCHKA=01CF3C" \o
      ";BYZANTINE MUSICAL SYMBOL GORGON PARESTIGMENON DEXIA=01D091" \o
      ";BYZANTINE MUSICAL SYMBOL YFESIS TRITIMORION=01D0CD;GREEK INSTRUMENTAL NOTATION SYMBOL-17=01D227" \o
      ";GREEK INSTRUMENTAL NOTATION SYMBOL-26=01D22D;GREEK INSTRUMENTAL NOTATION SYMBOL-53=01D240" \o
      ";MATHEMATICAL SANS-SERIF ITALIC SMALL W=01D638;MATHEMATICAL SANS-SERIF BOLD SMALL PSI=01D787" \o
      ";MATHEMATICAL SANS-SERIF BOLD DIGIT SIX=01D7F2;SIGNWRITING FLICK LARGE SINGLE=01D91B" \o
      ";MENDE KIKAKUI SYLLABLE M043 NGGA=01E878;MENDE KIKAKUI SYLLABLE M047 MBEE=01E896" \o
      ";ARABIC MATHEMATICAL INITIAL HEH=01EE24;ARABIC MATHEMATICAL LOOPED KHAH=01EE97;SEEDLING=01F331" \o
      ";FISTED HAND SIGN=01F44A;PORTABLE STEREO=01F4FE;ALCHEMICAL SYMBOL FOR VINEGAR-2=01F70B" \o
      ";ADHESIVE BANDAGE=01FA79;RIGHTWARDS ARROW AND UPPER AND LOWER ONE EIGHTH BLOCK=01FBB6",
    ";MODIFIER LETTER REVERSED COMMA=0002BD;COMBINING RIGHT HALF RING ABOVE=000357" \o
      ";EXTENDED ARABIC-INDIC DIGIT SIX=0006F6;MYANMAR LETTER GREAT SA=00103F" \o
      ";MYANMAR LETTER SHAN THA=001080;MYANMAR SHAN DIGIT FOUR=001094" \o
      ";HANGUL JONGSEONG MIEUM-CHIEUCH=0011E0;CANADIAN SYLLABICS SHWE=001517" \o
      ";CANADIAN SYLLABICS TLHO=001588;RUNIC LETTER SHORT-TWIG-NAUD N=0016BF" \o
      ";MONGOLIAN LETTER SIBE U=001861;CANADIAN SYLLABICS NWII=0018C8;TAI THAM LETTER HIGH KHA=001A21" \o
      ";LEPCHA LETTER NA=001C0D;CYRILLIC SMALL LETTER NARROW O=001C82;MODIFIER LETTER SMALL T=001D57" \o
      ";GREEK CAPITAL LETTER IOTA WITH PSILI AND VARIA=001F3A;LATIN SUBSCRIPT SMALL LETTER L=002097" \o
      ";SMALL ROMAN NUMERAL ONE=002170;SUPERSET OF OR EQUAL TO=002287" \o
      ";SUCCEEDS BUT NOT EQUIVALENT TO=0022E9;ELEMENT OF WITH OVERBAR=0022F6;AIRPLANE=002708" \o
      ";Z NOTATION SPOT=002981;BLACK DOWNWARDS EQUILATERAL ARROWHEAD=002B9F" \o
      ";GLAGOLITIC SMALL LETTER DJERVI=002C3C;LATIN CAPITAL LETTER Z WITH SWASH TAIL=002C7F" \o
      ";CIRCLED IDEOGRAPH WATER=00328C;SQUARE PAASENTO=00332B" \o
      ";IDEOGRAPHIC TELEGRAPH SYMBOL FOR DAY NINETEEN=0033F2;YI SYLLABLE BBIE=00A05C" \o
      ";VAI SYLLABLE JEE=00A51B;VAI SYLLABLE MBE=00A5EB;REJANG LETTER DA=00A934" \o
      ";MYANMAR LETTER SHAN NNA=00A9E3;TAI VIET VOWEL I=00AAB2;ETHIOPIC SYLLABLE CCHHI=00AB22" \o
      ";ARABIC LIGATURE MOHAMMAD ISOLATED FORM=00FDF4;SMALL GREATER-THAN SIGN=00FE65" \o
      ";ARABIC LETTER HAH ISOLATED FORM=00FEA1;ARABIC LETTER KHAH INITIAL FORM=00FEA7" \o
      ";ARABIC LETTER DAL ISOLATED FORM=00FEA9;FULLWIDTH LATIN SMALL LETTER X=00FF58" \o
      ";LINEAR B SYLLABLE B039 PI=010020;LINEAR B SYLLABLE B078 QE=010024" \o
      ";LINEAR B SYLLABLE B032 QO=010026;LINEAR B SYLLABLE B012 SO=010030" \o
      ";DESERET SMALL LETTER ER=010449;OLD HUNGARIAN CAPITAL LETTER AA=010C81" \o
      ";HANIFI ROHINGYA VOWEL O=010D21;SOGDIAN COMBINING STROKE BELOW=010F50;BRAHMI LETTER HA=011033" \o
      ";KAITHI LETTER AA=011084;NEWA LETTER DDHA=01141D;DIVES AKURU DIGIT THREE=011953" \o
      ";CUNEIFORM SIGN GA2 TIMES KASKAL=0120D9;CUNEIFORM SIGN LU2 TIMES PAP PLUS PAP PLUS LU3=01251D" \o
      ";BAMUM LETTER PHASE-D FAA=016965;DUPLOYAN LETTER NASAL A=01BC64" \o
      ";GREEK INSTRUMENTAL NOTATION SYMBOL-18=01D228;GREEK INSTRUMENTAL NOTATION SYMBOL-27=01D22E" \o
      ";GREEK INSTRUMENTAL NOTATION SYMBOL-36=01D232;GREEK INSTRUMENTAL NOTATION SYMBOL-45=01D239" \o
      ";GREEK INSTRUMENTAL NOTATION SYMBOL-54=01D241;MATHEMATICAL SANS-SERIF ITALIC SMALL X=01D639" \o
      ";MATHEMATICAL BOLD CAPITAL GAMMA=01D6AA;SIGNWRITING HAND-OVAL NO THUMB=01D879" \o
      ";SIGNWRITING HAND-FIST INDEX THUMB CURVE THUMB INSIDE=01D8E8;ADLAM DIGIT FOUR=01E954" \o
      ";ARABIC MATHEMATICAL DOUBLE-STRUCK KHAH=01EEB7;ALCHEMICAL SYMBOL FOR VINEGAR-3=01F70C",
    ";CYRILLIC SMALL LETTER I=000438;ARABIC LETTER VE=0006CB;ORIYA LETTER VOCALIC LL=000B61" \o
      ";KANNADA LETTER O=000C92;ETHIOPIC SYLLABLE PHARYNGEAL U=0012D1;CANADIAN SYLLABICS CWOO=00149A" \o
      ";CANADIAN SYLLABICS THWE=0018E3;TAI THAM HORA DIGIT FIVE=001A85;TAI THAM HORA DIGIT NINE=001A89" \o
      ";TAI THAM THAM DIGIT FIVE=001A95;TAI THAM THAM DIGIT NINE=001A99;MODIFIER LETTER SMALL U=001D58" \o
      ";LATIN SUBSCRIPT SMALL LETTER M=002098;CADUCEUS=002624" \o
      ";SOUTH WEST ARROW AND NORTH WEST ARROW=00292A;DOUBLE NESTED LESS-THAN=002AA1" \o
      ";BLACK VERY SMALL SQUARE=002B1D;LEFTWARDS TRIANGLE-HEADED ARROW TO BAR=002B70" \o
      ";GLAGOLITIC CAPITAL LETTER SMALL YUS WITH TAIL=002C25;GLAGOLITIC SMALL LETTER CHRIVI=002C4D" \o
      ";POSTAL MARK FACE=003020;CIRCLED IDEOGRAPH STOCK=003291;VAI SYLLABLE KEE=00A51E" \o
      ";VAI SYLLABLE DHI=00A535;MODIFIER LETTER LOW LEFT-STEM TONE BAR=00A715" \o
      ";REJANG CONSONANT SIGN R=00A951;ARABIC LETTER KAF ISOLATED FORM=00FED9" \o
      ";FULLWIDTH LATIN SMALL LETTER Y=00FF59;PHAISTOS DISC SIGN DOVE=0101EF;CARIAN LETTER MB=0102CA" \o
      ";OLD PERMIC LETTER DZHOI=010356;DESERET SMALL LETTER ES=010445;DESERET SMALL LETTER OI=01044E" \o
      ";BRAHMI LETTER AI=011010;KAITHI LETTER BA=0110A5;SHARADA LETTER I=011185;NEWA DIGIT EIGHT=011458" \o
      ";NEWA SANDHI MARK=01145E;DOGRA LETTER GHA=01180D;NANDINAGARI SIGN VIRAMA=0119E0" \o
      ";SOYOMBO TERMINAL MARK-1=011AA1;MASARAM GONDI LETTER UU=011D05;GUNJALA GONDI LETTER UU=011D65" \o
      ";TAMIL SIGN KAACU=011FDD;CUNEIFORM SIGN NUNUZ KISIM5 TIMES BI U=012279" \o
      ";CUNEIFORM SIGN U OVER U PA OVER PA GAR OVER GAR=01230E" \o
      ";DUPLOYAN AFFIX LEFT HORIZONTAL SECANT=01BC70" \o
      ";ZNAMENNY COMBINING MARK STRANNO MALO POVYSHE=01CF1A" \o
      ";ZNAMENNY COMBINING MARK MALO POVYSHE STRANNO=01CF1E" \o
      ";GREEK INSTRUMENTAL NOTATION SYMBOL-19=01D229;GREEK INSTRUMENTAL NOTATION SYMBOL-37=01D233" \o
      ";MATHEMATICAL SANS-SERIF ITALIC SMALL Y=01D63A;COMBINING GLAGOLITIC LETTER YO=01E026" \o
      ";MENDE KIKAKUI SYLLABLE M083 HEEI=01E86F;CIRCLED ZERO WITH SLASH=01F10D;SLEEPING SYMBOL=01F4A4" \o
      ";MOBILE PHONE OFF=01F4F4;CLOCK FACE SEVEN-THIRTY=01F562;POUTING CAT FACE=01F63E" \o
      ";ALCHEMICAL SYMBOL FOR CROCUS OF COPPER=01F723;BROCCOLI=01F966;FLAMINGO=01F9A9",
    ";PLUS-MINUS SIGN=0000B1;LATIN SMALL LETTER IOTA=000269;ARABIC LETTER SUPERSCRIPT ALEF=000670" \o
      ";THAI CHARACTER CHO CHANG=000E0A;HANGUL CHOSEONG CHIEUCH=00110E;CANADIAN SYLLABICS PWII=00143E" \o
      ";CANADIAN SYLLABICS SHOO=001514;CANADIAN SYLLABICS TTHI=00156C" \o
      ";PHILIPPINE SINGLE PUNCTUATION=001735;MONGOLIAN FREE VARIATION SELECTOR TWO=00180C" \o
      ";BALINESE LETTER LA LENGA TEDUNG=001B0E;LEPCHA LETTER PA=001C0E;MODIFIER LETTER SMALL V=001D5B" \o
      ";LATIN SUBSCRIPT SMALL LETTER N=002099;VOLUME INTEGRAL=002230" \o
      ";BOX DRAWINGS DOUBLE VERTICAL AND RIGHT=002560;BLACK CHESS ROOK=00265C" \o
      ";HEAVY DASHED TRIANGLE-HEADED RIGHTWARDS ARROW=0027A0;SHUFFLE PRODUCT=0029E2" \o
      ";RIGHT WHITE LENTICULAR BRACKET=003017;HANGUL LETTER KAPYEOUNPHIEUPH=003184" \o
      ";VAI SYLLABLE LEE=00A512;LATIN SMALL LETTER VEND=00A769;TAI VIET LETTER LOW NYO=00AA90" \o
      ";HANGUL JONGSEONG NIEUN-CHIEUCH=00D7CC" \o
      ";ARABIC LIGATURE YEH WITH HAMZA ABOVE WITH U FINAL FORM=00FBF1" \o
      ";ARABIC LIGATURE BEH WITH YEH FINAL FORM=00FC6F;ARABIC LETTER FEH ISOLATED FORM=00FED1" \o
      ";FULLWIDTH COLON=00FF1A;FULLWIDTH LATIN SMALL LETTER Z=00FF5A;LINEAR B SYLLABLE B023 MU=010018" \o
      ";LINEAR B SYLLABLE B037 TI=010034;CARIAN LETTER LD=0102A6;OLD SOUTH ARABIAN LETTER DHADHE=010A73" \o
      ";BRAHMI LETTER JA=01101A;BRAHMI LETTER OLD TAMIL SHORT E=011071;KAITHI LETTER CA=011092" \o
      ";SORA SOMPENG LETTER GAH=0110D5;AHOM DIGIT THREE=011733;WARANG CITI CAPITAL LETTER NGAA=0118A0" \o
      ";SOYOMBO TERMINAL MARK-2=011AA2;MIAO LETTER GHHA=016F29" \o
      ";ZNAMENNY NEUME STRELA NEPOSTOYANNAYA=01CF97;BYZANTINE MUSICAL SYMBOL CHROA SPATHI=01D0CA" \o
      ";GREEK INSTRUMENTAL NOTATION SYMBOL-29=01D22F;GREEK INSTRUMENTAL NOTATION SYMBOL-38=01D234" \o
      ";GREEK INSTRUMENTAL NOTATION SYMBOL-47=01D23A;MATHEMATICAL SANS-SERIF ITALIC SMALL Z=01D63B" \o
      ";SIGNWRITING HAND-CUP FIVE FINGERS SPREAD OPEN=01D854;MENDE KIKAKUI SYLLABLE M191 NDEE=01E8B1" \o
      ";ARABIC MATHEMATICAL INITIAL AIN=01EE2F;ARABIC MATHEMATICAL INITIAL SAD=01EE31" \o
      ";ARABIC MATHEMATICAL INITIAL QAF=01EE32;OPEN FILE FOLDER=01F4C2" \o
      ";SPEAKER WITH THREE SOUND WAVES=01F50A;ALCHEMICAL SYMBOL FOR TINCTURE=01F748",
    ";MODIFIER LETTER SMALL W=0002B7;THAI DIGIT THREE=000E53;LAO VOWEL SIGN U=000EB8;LAO HO MO=000EDD" \o
      ";MYANMAR VOWEL SIGN SHAN E ABOVE=001085;CANADIAN SYLLABICS THOO=001565" \o
      ";MONGOLIAN LETTER TODO E=001844;BALINESE VOWEL SIGN TALING REPA TEDUNG=001B41" \o
      ";LATIN SMALL LETTER D WITH HOOK AND TAIL=001D91;LATIN SUBSCRIPT SMALL LETTER O=002092" \o
      ";LEFTWARDS HARPOON WITH BARB DOWNWARDS=0021BD;DOWNWARDS HARPOON WITH BARB LEFTWARDS=0021C3" \o
      ";LEFT RIGHT DOUBLE ARROW=0021D4;SUCCEEDS=00227B;APL FUNCTIONAL SYMBOL RIGHTWARDS VANE=002346" \o
      ";LOWER HALF BLOCK=002584;BLACK SPADE SUIT=002660;NO ENTRY=0026D4;SAILBOAT=0026F5" \o
      ";UPWARDS ARROW WITH HORIZONTAL STROKE=002909;SUCCEEDS ABOVE SINGLE-LINE EQUALS SIGN=002AB0" \o
      ";BOPOMOFO FINAL LETTER T=0031B5;CIRCLED HANGUL CHIEUCH A=003277;YI SYLLABLE BBAP=00A061" \o
      ";VAI SYLLABLE MEE=00A521;VAI SYLLABLE HAN=00A54D;VAI SYLLABLE NDE=00A5FA" \o
      ";NORTH INDIC FRACTION THREE SIXTEENTHS=00A835;REJANG LETTER GA=00A931" \o
      ";LINEAR B SYLLABLE B005 TO=010035;LINEAR B SYLLABLE B075 WE=010038" \o
      ";DESERET SMALL LETTER AY=010434;ELBASAN LETTER I=01050D;BRAHMI LETTER KA=011013" \o
      ";KAITHI LETTER DA=0110A0;SORA SOMPENG LETTER HAH=0110DE;SIDDHAM LETTER E=01158A" \o
      ";BHAIKSUKI VOWEL SIGN AU=011C3B;MARCHEN LETTER A=011C8F;GUNJALA GONDI OM=011D98" \o
      ";MEDEFAIDRIN SYMBOL AIVA=016E99;MIAO LETTER DLHA=016F1B;HENTAIGANA LETTER YA-YO=01B0E2" \o
      ";BYZANTINE MUSICAL SYMBOL CHOREVMA NEO=01D067;MUSICAL SYMBOL CLUSTER NOTEHEAD WHITE=01D15A" \o
      ";GREEK INSTRUMENTAL NOTATION SYMBOL-39=01D235;GREEK INSTRUMENTAL NOTATION SYMBOL-48=01D23B" \o
      ";DIGRAM FOR EARTH=01D305;MATHEMATICAL BOLD CAPITAL ALPHA=01D6A8;MAHJONG TILE NORTH WIND=01F003" \o
      ";HONEYBEE=01F41D;DOCUMENT WITH TEXT AND PICTURE=01F5BA;STANDING PERSON=01F9CD" \o
      ";RIGHT ONE QUARTER BLOCK=01FB87",
    ";LATIN SMALL LETTER A WITH ACUTE=0000E1;LATIN SMALL LETTER A WITH TILDE=0000E3" \o
      ";MODIFIER LETTER SMALL X=0002E3;GREEK SMALL LETTER UPSILON WITH TONOS=0003CD" \o
      ";DEVANAGARI SIGN VISARGA=000903;TAMIL DEBIT SIGN=000BF6;LAO HO NO=000EDC" \o
      ";TIBETAN MARK NYIS TSHEG=000FD2;MYANMAR SHAN DIGIT ZERO=001090;CANADIAN SYLLABICS SHWI=001519" \o
      ";TAGALOG LETTER A=001700;CANADIAN SYLLABICS RWII=0018D0;LEPCHA LETTER RA=001C1B" \o
      ";VEDIC TONE SHARA=001CD1;GREEK SMALL LETTER OMICRON WITH DASIA AND OXIA=001F45" \o
      ";QUADRUPLE PRIME=002057;SUBSCRIPT EIGHT=002088;LATIN SUBSCRIPT SMALL LETTER P=00209A" \o
      ";DOUBLE-STRUCK CAPITAL N=002115;DOWNWARDS ZIGZAG ARROW=0021AF;EMPHASIS SYMBOL=002383" \o
      ";BOX DRAWINGS HEAVY LEFT=002578;BLACK SMALL STAR=002B51;YI SYLLABLE DDIE=00A13B" \o
      ";VAI SYLLABLE EEN=00A501;VAI SYLLABLE NEE=00A522;VAI SYLLABLE MBI=00A52D;VAI SYLLABLE GBO=00A5C7" \o
      ";REJANG LETTER HA=00A941;ARABIC LIGATURE HAH WITH YEH FINAL FORM=00FD1C" \o
      ";ARABIC LIGATURE SAD WITH REH FINAL FORM=00FD2B;ARABIC LETTER HEH ISOLATED FORM=00FEE9" \o
      ";LINEAR B SYLLABLE B081 KU=010013;LINEAR B IDEOGRAM B105M STALLION=010085" \o
      ";CARIAN LETTER ND=0102BE;CARIAN LETTER II=0102C5" \o
      ";MEROITIC CURSIVE NUMBER TWO HUNDRED THOUSAND=0109EE;MANICHAEAN LETTER JAYIN=010ACB" \o
      ";RUMI FRACTION ONE THIRD=010E7D;BRAHMI LETTER LA=01102E;SORA SOMPENG LETTER EEH=0110E3" \o
      ";CHAKMA DIGIT TWO=011138;DOGRA LETTER JHA=011812;BAMUM LETTER PHASE-C KAA=0168A9" \o
      ";ZNAMENNY NEUME SKAMEYTSA TRESVETLAYA=01CF73;GREEK INSTRUMENTAL NOTATION SYMBOL-49=01D23C" \o
      ";ADLAM DIGIT ZERO=01E950;ARABIC MATHEMATICAL INITIAL LAM=01EE2B" \o
      ";ARABIC MATHEMATICAL LOOPED JEEM=01EE82;MINIDISC=01F4BD;BUS STOP=01F68F",
    ";LATIN SMALL LETTER A WITH CARON=0001CE;LATIN SMALL LETTER J WITH CROSSED-TAIL=00029D" \o
      ";MODIFIER LETTER SMALL Y=0002B8;COMBINING DOUBLE MACRON=00035E;BENGALI LETTER O=000993" \o
      ";CANADIAN SYLLABICS SWII=0014FA;CANADIAN SYLLABICS WEST-CREE LA=00154D" \o
      ";CANADIAN SYLLABICS KWAY=0018B9;NEW TAI LUE VOWEL SIGN E=0019B5;KHMER SYMBOL TUTEYASAT=0019F0" \o
      ";TAI THAM LETTER HIGH PHA=001A39;LEPCHA LETTER SA=001C20;SMALL ROMAN NUMERAL TEN=002179" \o
      ";NOT TRUE=0022AD;KEYBOARD=002328;THREE-D LEFT-LIGHTED DOWNWARDS EQUILATERAL ARROWHEAD=002B9B" \o
      ";PARENTHESIZED HANGUL THIEUTH A=003219;VAI SYLLABLE NJA=00A568;VAI SYLLABLE BHO=00A5C2" \o
      ";MODIFIER LETTER CHINESE TONE YANG PING=00A701;SAURASHTRA DOUBLE DANDA=00A8CF" \o
      ";JAVANESE LEFT RERENGGAN=00A9C1;ARMENIAN SMALL LIGATURE MEN ECH=00FB14" \o
      ";ARABIC LIGATURE KAF WITH YEH FINAL FORM=00FC84;ARABIC LIGATURE RAHIMAHU ALLAAH=00FD40" \o
      ";ARABIC LETTER JEEM INITIAL FORM=00FE9F;LINEAR B SYLLABLE B065 JU=01000E" \o
      ";LINEAR B SYLLABLE B050 PU=010022;LINEAR B SYLLABLE B074 ZE=01003D" \o
      ";PHAISTOS DISC SIGN VINE=0101F3;OLD PERMIC LETTER SHOOI=010365;DESERET SMALL LETTER EW=01044F" \o
      ";MEROITIC CURSIVE NUMBER SEVEN HUNDRED=0109D8;OLD HUNGARIAN CAPITAL LETTER EB=010C82" \o
      ";BRAHMI LETTER MA=01102B;SORA SOMPENG LETTER JAH=0110E0;SORA SOMPENG LETTER MAE=0110E8" \o
      ";DOGRA LETTER KHA=01180B;MAKASAR LETTER A=011EF1;CUNEIFORM SIGN IGI GUNU=01214A" \o
      ";CUNEIFORM NUMERIC SIGN ONE BAN2=01244F;CUNEIFORM SIGN LAK-617 TIMES KU3=012505" \o
      ";TANGSA LETTER BA=016AAA;TANGSA DIGIT ONE=016AC1;MATHEMATICAL BOLD ITALIC SMALL OMICRON=01D744" \o
      ";MATHEMATICAL SANS-SERIF BOLD ITALIC SMALL BETA=01D7AB" \o
      ";MATHEMATICAL SANS-SERIF BOLD DIGIT TWO=01D7EE;MENDE KIKAKUI SYLLABLE M188 MBEE=01E897" \o
      ";INDIC SIYAQ PLACEHOLDER=01ECAC;ARABIC MATHEMATICAL DOUBLE-STRUCK JEEM=01EEA2" \o
      ";MAHJONG TILE FIVE OF CHARACTERS=01F00B;MAHJONG TILE NINE OF CHARACTERS=01F00F;ELEPHANT=01F418" \o
      ";SANDWICH=01F96A;WHITE CHESS PAWN ROTATED TWO HUNDRED SEVENTY DEGREES=01FA38",
    ";LATIN SMALL LETTER A WITH BREVE=000103;LATIN SMALL LETTER C WITH ACUTE=000107" \o
      ";EXTENDED ARABIC-INDIC DIGIT TWO=0006F2;SYRIAC TWO VERTICAL DOTS BELOW=000744" \o
      ";ARABIC LETTER TTEH WITH SMALL V=0008C0;TAMIL DIGIT FIVE=000BEB;TAMIL DIGIT NINE=000BEF" \o
      ";SINHALA LETTER AEEYANNA=000D88;CANADIAN SYLLABICS TWII=00145B" \o
      ";CANADIAN SYLLABICS CARRIER CHEE=001664;BUHID LETTER NGA=001745;KHMER DIGIT FIVE=0017E5" \o
      ";KHMER DIGIT NINE=0017E9;LEPCHA LETTER TA=001C0A;LEPCHA DIGIT SIX=001C46" \o
      ";LATIN SUBSCRIPT SMALL LETTER R=001D63;MODIFIER LETTER SMALL Z=001DBB" \o
      ";DOUBLE-STRUCK CAPITAL P=002119;UPPER HALF BLOCK=002580" \o
      ";HEAVY BLACK-FEATHERED NORTH EAST ARROW=0027B9;THREE DIMENSIONAL ANGLE=0027C0" \o
      ";UPWARDS TRIANGLE-HEADED ARROW LEFTWARDS OF DOWNWARDS TRIANGLE-HEADED ARROW=002B81" \o
      ";DOWNWARDS TRIANGLE-HEADED ARROW LEFTWARDS OF UPWARDS TRIANGLE-HEADED ARROW=002B83" \o
      ";GLAGOLITIC CAPITAL LETTER YERU=002C1F;COPTIC SMALL LETTER KSI=002C9D;VAI SYLLABLE PEE=00A505" \o
      ";VAI SYLLABLE KAN=00A56B;VAI SYLLABLE GEN=00A607;BAMUM LETTER FEE=00A6CB" \o
      ";LATIN SMALL LETTER RUM ROTUNDA=00A75D;REJANG LETTER JA=00A93A;TAI VIET VOWEL O=00AAB6" \o
      ";ETHIOPIC SYLLABLE CCHHO=00AB26;HANGUL JONGSEONG PIEUP-CHIEUCH=00D7E9" \o
      ";ARABIC LETTER TTEHEH FINAL FORM=00FB5F;ARABIC LETTER JEH ISOLATED FORM=00FB8A" \o
      ";ARABIC LIGATURE FEH WITH YEH FINAL FORM=00FC7D;LINEAR B SYLLABLE B020 ZO=01003F" \o
      ";OLD HUNGARIAN CAPITAL LETTER EC=010C84;HANIFI ROHINGYA VOWEL U=010D1F" \o
      ";RUMI NUMBER ONE HUNDRED=010E72;BRAHMI LETTER NA=011026;KAITHI LETTER GA=01108F" \o
      ";SORA SOMPENG LETTER KAH=0110DF;KHOJKI LETTER AA=011201;MODI DIGIT THREE=011653" \o
      ";PAU CIN HAU SANDHI GLOTTAL STOP=011AE7;CUNEIFORM SIGN DUG TIMES LAK-020=01249E" \o
      ";CYPRO-MINOAN SIGN CM012B=012F9B;BAMUM LETTER PHASE-B FEE=016885;TANGSA LETTER AC=016A75" \o
      ";TANGSA LETTER CA=016AB5;MUSICAL SYMBOL COMBINING FLAG-1=01D16E" \o
      ";MUSICAL SYMBOL COMBINING SMEAR=01D188;MATHEMATICAL BOLD CAPITAL OMEGA=01D6C0" \o
      ";MATHEMATICAL ITALIC CAPITAL CHI=01D6F8;WANCHO LETTER AA=01E2C0;KANGAROO=01F998" \o
      ";WHITE CHESS TURNED KING=01FA1E",
    ";START OF HEADING=000001;CANCEL CHARACTER=000094;LATIN SMALL LETTER A WITH GRAVE=0000E0" \o
      ";LATIN SMALL LETTER C WITH CARON=00010D;CYRILLIC SMALL LETTER O=00043E;THAANA OABOAFILI=0007AF" \o
      ";MANDAIC LETTER DUSHENNA=000856;TELUGU LETTER VOCALIC L=000C0C;KANNADA LETTER U=000C89" \o
      ";LAO VOWEL SIGN Y=000EB6;KHMER LETTER CHA=001786;KHMER VOWEL INHERENT AQ=0017B4" \o
      ";MONGOLIAN LETTER TODO I=001845;GREEK SMALL LETTER EPSILON WITH DASIA AND OXIA=001F15" \o
      ";GREEK SMALL LETTER ALPHA WITH VARIA AND YPOGEGRAMMENI=001FB2;SIX-PER-EM SPACE=002006" \o
      ";LATIN SUBSCRIPT SMALL LETTER S=00209B;DOUBLE-STRUCK CAPITAL Q=00211A" \o
      ";RIGHTWARDS ARROW WITH DOUBLE VERTICAL STROKE=0021FB;SYMBOL FOR END OF TRANSMISSION=002404" \o
      ";RIGHTWARDS DOUBLE ARROW WITH VERTICAL STROKE=002903;SQUARE RENTOGEN=003356" \o
      ";YI SYLLABLE BBAT=00A05E;YI SYLLABLE BBEP=00A06B;YI SYLLABLE DDAP=00A140;VAI SYLLABLE NDI=00A53A" \o
      ";VAI SYLLABLE DHO=00A5CD;VAI SYLLABLE HEN=00A5E5;REJANG LETTER KA=00A930" \o
      ";MYANMAR LETTER AITON RA=00AA7A;ARABIC LETTER SAD ISOLATED FORM=00FEB9" \o
      ";ARABIC LETTER AIN ISOLATED FORM=00FEC9;ARABIC LETTER QAF ISOLATED FORM=00FED5" \o
      ";HALFWIDTH HANGUL LETTER RIEUL-THIEUTH=00FFAE;LINEAR B SYLLABLE B042 WO=01003A" \o
      ";PHAISTOS DISC SIGN SHIP=0101E8;CARIAN LETTER NG=0102C4" \o
      ";MEROITIC CURSIVE FRACTION ONE TWELFTH=0109F6;OLD HUNGARIAN CAPITAL LETTER ED=010C87" \o
      ";KAITHI LETTER HA=0110AF;SORA SOMPENG LETTER LAH=0110D8;SHARADA LETTER O=01118F" \o
      ";KHOJKI LETTER BA=011221;SIDDHAM LETTER I=011582;DOGRA LETTER NGA=01180E" \o
      ";CUNEIFORM SIGN NINDA2 TIMES ASH=012254;CUNEIFORM SIGN SAG GUNU=0122A8" \o
      ";CUNEIFORM SIGN DUG TIMES LUH PLUS GISH=0124A1;TANGSA LETTER DA=016AB1" \o
      ";MUSICAL SYMBOL COMBINING FLAG-2=01D16F;MATHEMATICAL BOLD CAPITAL DELTA=01D6AB" \o
      ";MATHEMATICAL SANS-SERIF BOLD ITALIC CAPITAL PI=01D79F" \o
      ";SIGNWRITING MOVEMENT-DIAGONAL BETWEEN TOWARDS SMALL=01D961" \o
      ";COMBINING GLAGOLITIC LETTER YU=01E023;WANCHO LETTER BA=01E2C2;WANCHO DIGIT ONE=01E2F1" \o
      ";MENDE KIKAKUI SYLLABLE M146 NGGE=01E87B;INDIC SIYAQ NUMBER FOUR=01EC74" \o
      ";ARABIC MATHEMATICAL LOOPED MEEM=01EE8C;PERFORMING ARTS=01F3AD;TWO WOMEN HOLDING HANDS=01F46D",
    ";LATIN SMALL LETTER E WITH ACUTE=0000E9;LATIN SMALL LETTER D WITH CARON=00010F" \o
      ";LATIN SMALL LETTER LEZH=00026E;MODIFIER LETTER DOWN ARROWHEAD=0002C5" \o
      ";HEBREW ACCENT GERSHAYIM=00059E;ETHIOPIC SYLLABLE GGWAA=00131F;CANADIAN SYLLABICS TTHO=00156D" \o
      ";KHMER SIGN COENG=0017D2;LIMBU LETTER BHA=001913;LIMBU DIGIT FIVE=00194B;LIMBU DIGIT NINE=00194F" \o
      ";TAI THAM LETTER HIGH SHA=001A46;LEPCHA LETTER VA=001C1F;LATIN SMALL LETTER E WITH TILDE=001EBD" \o
      ";LATIN SUBSCRIPT SMALL LETTER T=00209C;DOUBLE-STRUCK CAPITAL R=00211D;BULLET OPERATOR=002219" \o
      ";DOES NOT PRECEDE=002280;UMBRELLA=002602;RESTRICTED LEFT ENTRY-1=0026E0" \o
      ";DOWNWARDS TRIPLE ARROW=00290B;SIMILAR OR GREATER-THAN=002A9E" \o
      ";GLAGOLITIC SMALL LETTER POKOJI=002C42;VAI SYLLABLE REE=00A513;VAI SYLLABLE KPA=00A554" \o
      ";VAI SYLLABLE SHA=00A563;LATIN CAPITAL LETTER TZ=00A728;REJANG LETTER LA=00A93E" \o
      ";JAVANESE SIGN PANYANGGA=00A980;LATIN SMALL LETTER M WITH CROSSED-TAIL=00AB3A" \o
      ";PRESENTATION FORM FOR VERTICAL QUESTION MARK=00FE16;ARABIC KASRA MEDIAL FORM=00FE7B" \o
      ";ARABIC LETTER MEEM INITIAL FORM=00FEE3;HALFWIDTH FORMS LIGHT VERTICAL=00FFE8" \o
      ";LINEAR B SYLLABLE B055 NU=01001D;MEROITIC HIEROGLYPHIC LETTER A=010980" \o
      ";OLD HUNGARIAN CAPITAL LETTER EE=010C8B;BRAHMI LETTER PA=011027;KAITHI LETTER AI=01108A" \o
      ";SORA SOMPENG LETTER MAH=0110D6;KHOJKI LETTER CA=01120E;NEWA DIGIT THREE=011453" \o
      ";TAKRI LETTER DDA=011696;DOGRA ABBREVIATION SIGN=01183B;CUNEIFORM SIGN LAGAB TIMES SHU2=0121DF" \o
      ";MIAO LETTER NGHA=016F24;DUPLOYAN LETTER NASAL I=01BC63;DUPLOYAN AFFIX LOW LINE=01BC96" \o
      ";MUSICAL SYMBOL COMBINING FLAG-3=01D170;MATHEMATICAL BOLD ITALIC SMALL EPSILON=01D73A" \o
      ";MATHEMATICAL BOLD SMALL DIGAMMA=01D7CB;WANCHO LETTER CA=01E2C3" \o
      ";MENDE KIKAKUI SYLLABLE M044 KPEE=01E8A2;ARABIC MATHEMATICAL DOUBLE-STRUCK MEEM=01EEAC" \o
      ";WRAPPED PRESENT=01F381;CLOSED MAILBOX WITH RAISED FLAG=01F4EB",
    ";LATIN CAPITAL LETTER A WITH CIRCUMFLEX=0000C2;LATIN SMALL LETTER E WITH CARON=00011B" \o
      ";ARABIC LETTER NOON WITH TWO DOTS BELOW=000767;ARABIC LETTER GAF WITH INVERTED STROKE=0008B0" \o
      ";ARABIC LETTER PEH WITH SMALL MEEM ABOVE=0008B7;CANADIAN SYLLABICS KWOO=00147C" \o
      ";CANADIAN SYLLABICS WEST-CREE LE=001544;LIMBU LETTER CHA=001907;TAI THAM LETTER HIGH THA=001A33" \o
      ";LEPCHA LETTER WA=001C22;VEDIC TONE YAJURVEDIC AGGRAVATED INDEPENDENT SVARITA=001CD5" \o
      ";LATIN SUBSCRIPT SMALL LETTER U=001D64;COMBINING DELETION MARK=001DFB" \o
      ";LATIN SMALL LETTER A WITH CIRCUMFLEX AND ACUTE=001EA5" \o
      ";LATIN SMALL LETTER A WITH CIRCUMFLEX AND TILDE=001EAB;SCRIPT CAPITAL B=00212C" \o
      ";CIRCLED NUMBER NINETEEN=002472;CIRCLE WITH UPPER RIGHT QUADRANT BLACK=0025D4" \o
      ";RESTRICTED LEFT ENTRY-2=0026E1;TILDE OPERATOR ABOVE RIGHTWARDS ARROW=002972" \o
      ";RIGHTWARDS ARROW ABOVE TILDE OPERATOR=002974;SEMIDIRECT PRODUCT WITH BOTTOM CLOSED=002A32" \o
      ";CLOSED SUPERSET=002AD0;COPTIC SMALL LETTER TAU=002CA7;KANGXI RADICAL SICKNESS=002F67" \o
      ";HIRAGANA ITERATION MARK=00309D;HANGUL LETTER AE=003150;VAI SYLLABLE SEE=00A516" \o
      ";VAI SYLLABLE THA=00A55B;VAI SYLLABLE NJE=00A601;MODIFIER LETTER CHINESE TONE YIN SHANG=00A702" \o
      ";LATIN CAPITAL LETTER CUATRILLO=00A72C;LATIN CAPITAL LETTER VY=00A760;REJANG LETTER MA=00A938" \o
      ";LATIN SMALL LETTER N WITH CROSSED-TAIL=00AB3B;LATIN SMALL LIGATURE ST=00FB06" \o
      ";ARABIC LETTER LAM ISOLATED FORM=00FEDD;ELBASAN LETTER O=010516" \o
      ";IMPERIAL ARAMAIC NUMBER TWENTY=01085C;MANICHAEAN LETTER QHOPH=010AE0" \o
      ";OLD HUNGARIAN CAPITAL LETTER EF=010C8C;BRAHMI SIGN UPADHMANIYA=011004;BRAHMI LETTER II=011008" \o
      ";KAITHI LETTER JA=011094;SORA SOMPENG LETTER NAH=0110D9;KHOJKI LETTER DA=01121B" \o
      ";SIDDHAM LETTER TWO-CIRCLE ALTERNATE II=0115DA;DIVES AKURU DIGIT SEVEN=011957" \o
      ";TAMIL SIGN PANAM=011FDE;BAMUM LETTER PHASE-E FEE=0169EB;MRO LETTER KEAAE=016A4C" \o
      ";TANGSA LETTER FA=016ABB;PAHAWH HMONG SIGN IB YAM=016B43" \o
      ";MEDEFAIDRIN DIGIT THREE ALTERNATE FORM=016E96" \o
      ";ZNAMENNY NEUME STRELA GROMOPOVODNAYA WITH DOUBLE ZAPYATAYA=01CFA4" \o
      ";MUSICAL SYMBOL COMBINING FLAG-4=01D171;MATHEMATICAL BOLD CAPITAL THETA SYMBOL=01D6B9" \o
      ";MATHEMATICAL SANS-SERIF BOLD PI SYMBOL=01D78F;WANCHO LETTER DA=01E2C4" \o
      ";MENDE KIKAKUI SYLLABLE M090 NGGI=01E877;MENDE KIKAKUI SYLLABLE M120 NGGO=01E87D;CHERRIES=01F352" \o
      ";CLOCK FACE ELEVEN OCLOCK=01F55A;LOWER RIGHT BLOCK DIAGONAL LOWER LEFT TO UPPER CENTRE=01FB45" \o
      ";LOWER LEFT BLOCK DIAGONAL UPPER CENTRE TO LOWER RIGHT=01FB50",
    ";LATIN SMALL LETTER E WITH BREVE=000115;LATIN SMALL LETTER G WITH ACUTE=0001F5" \o
      ";SYRIAC THREE DOTS BELOW=000746;THAI CHARACTER CHO CHING=000E09" \o
      ";CANADIAN SYLLABICS ATHAPASCAN M=0014BE;CANADIAN SYLLABICS LWOO=0014E4" \o
      ";CANADIAN SYLLABICS SHWO=00151D;CANADIAN SYLLABICS BLACKFOOT KA=0015BF" \o
      ";CANADIAN SYLLABICS CARRIER GHEE=0015C7;LIMBU LETTER DHA=00190E" \o
      ";LEPCHA PUNCTUATION NYET THYOOM TA-ROL=001C3C;LATIN SUBSCRIPT SMALL LETTER V=001D65" \o
      ";GREEK SMALL LETTER OMEGA WITH VARIA AND YPOGEGRAMMENI=001FF2;TURNED CAPITAL F=002132" \o
      ";INTEGRAL=00222B;DOUBLE SUPERSET=0022D1;BOX DRAWINGS LIGHT UP AND RIGHT=002514" \o
      ";BLACK HEART SUIT=002665;BLACK NIB=002712;FRONT-TILTED SHADOWED WHITE RIGHTWARDS ARROW=0027AC" \o
      ";BRAILLE PATTERN DOTS-123=002807;LOGICAL AND WITH DOUBLE OVERBAR=002A5E" \o
      ";SQUARE RIGHT OPEN BOX OPERATOR=002ACE;DOUBLE DOWN TACK=002AEA;KATAKANA ITERATION MARK=0030FD" \o
      ";CIRCLED KOREAN CHARACTER CHAMKO=00327C;CIRCLED IDEOGRAPH PRINT=00329E;YI SYLLABLE GGIE=00A218" \o
      ";YI SYLLABLE CHAP=00A364;VAI SYLLABLE TEE=00A50E;VAI SYLLABLE GBU=00A5A1;VAI SYLLABLE MBO=00A5C4" \o
      ";LATIN SMALL LETTER O WITH LONG STROKE OVERLAY=00A74B;REJANG LETTER NA=00A935" \o
      ";HALFWIDTH HANGUL LETTER KIYEOK=00FFA1;LINEAR B SYLLABLE B026 RU=01002C" \o
      ";PHAISTOS DISC SIGN HORN=0101E9;MEROITIC CURSIVE NUMBER FIVE THOUSAND=0109DF" \o
      ";MEROITIC CURSIVE NUMBER NINE THOUSAND=0109E3;OLD HUNGARIAN CAPITAL LETTER EG=010C8D" \o
      ";OLD HUNGARIAN CAPITAL LETTER AK=010C94;BRAHMI LETTER RA=01102D;KAITHI LETTER KA=01108D" \o
      ";GRANTHA LETTER A=011305;SIDDHAM END OF TEXT MARK=0115C9;TAKRI LETTER BHA=0116A1" \o
      ";TAKRI DIGIT FIVE=0116C5;TAKRI DIGIT NINE=0116C9;DOGRA LETTER PHA=01181F" \o
      ";BAMUM LETTER PHASE-E TAEN NTEUM=01698F;TANGSA LETTER EC=016A7D;TANGSA LETTER GA=016AA2" \o
      ";PAHAWH HMONG VOWEL KAUV=016B05;PAHAWH HMONG VOWEL KUAV=016B11" \o
      ";BYZANTINE MUSICAL SYMBOL THEMA APLOUN=01D078;BYZANTINE MUSICAL SYMBOL CHROA KLITON=01D0C9" \o
      ";MUSICAL SYMBOL COMBINING FLAG-5=01D172;MATHEMATICAL BOLD CAPITAL KAPPA=01D6B1" \o
      ";SIGNWRITING HAND-FLAT SPLIT CENTRE THUMB SIDE=01D863;MENDE KIKAKUI SYLLABLE M071 GBOO=01E8AB" \o
      ";BOOKMARK=01F516;TRIANGULAR FLAG ON POST=01F6A9;VERY HEAVY WHITE CIRCLE=01F788" \o
      ";RIGHTWARDS FRONT-TILTED SHADOWED WHITE ARROW=01F8AB;LEFT-FACING FIST=01F91B;CUCUMBER=01F952" \o
      ";WHITE CHESS ROOK ROTATED TWO HUNDRED SEVENTY DEGREES=01FA35;PREGNANT PERSON=01FAC4",
    ";LATIN SMALL LETTER E WITH GRAVE=0000E8;LATIN CAPITAL LETTER C WITH CIRCUMFLEX=000108" \o
      ";LATIN SMALL LETTER G WITH CARON=0001E7;CYRILLIC CAPITAL LETTER KHAKASSIAN CHE=0004CB" \o
      ";ARABIC LETTER NOON WITH SMALL V=000769;BENGALI LETTER U=000989;MALAYALAM VOWEL SIGN UU=000D42" \o
      ";LAO LETTER SANSKRIT SHA=000EA8;MYANMAR LETTER SHAN NYA=00107A;MYANMAR SYMBOL SHAN ONE=00109E" \o
      ";HANGUL JONGSEONG IEUNG-KHIEUKH=0011EF;CANADIAN SYLLABICS MWOO=0014B4" \o
      ";CANADIAN SYLLABICS YWII=001533;CANADIAN SYLLABICS WEST-CREE RA=00158D" \o
      ";CANADIAN SYLLABICS TH-CREE THOO=0015AB;CANADIAN SYLLABICS CARRIER DLEE=00162B" \o
      ";BALINESE VOWEL SIGN ULU=001B36;LEPCHA LETTER YA=001C1A;SUBSCRIPT THREE=002083" \o
      ";LEFTWARDS ARROW=002190;SUN BEHIND CLOUD=0026C5;BRAILLE PATTERN DOTS-124=00280B" \o
      ";COPTIC SMALL LETTER PSI=002CAF;IDEOGRAPHIC TELEGRAPH SYMBOL FOR HOUR FIFTEEN=003367" \o
      ";YI SYLLABLE BBIP=00A059;YI SYLLABLE BBAX=00A05F;YI SYLLABLE DDAT=00A13D;YI SYLLABLE DDEP=00A14A" \o
      ";VAI SYLLABLE HIN=00A527;VAI SYLLABLE BHU=00A59C;LATIN SMALL LETTER BARRED ALPHA=00AB30" \o
      ";ARABIC LIGATURE QAF WITH YEH FINAL FORM=00FC7F;ARABIC LIGATURE AIN WITH YEH FINAL FORM=00FD14" \o
      ";ARABIC LIGATURE SAD WITH YEH FINAL FORM=00FD22;OLD HUNGARIAN CAPITAL LETTER EH=010C8F" \o
      ";BRAHMI LETTER SA=011032;KAITHI LETTER LA=0110AA;SORA SOMPENG LETTER PAH=0110DB" \o
      ";TAKRI LETTER CHA=011690;AHOM DIGIT SEVEN=011737;CUNEIFORM SIGN NINDA2 TIMES GUD=012256" \o
      ";CUNEIFORM SIGN NINDA2 TIMES SHE=01225A;BAMUM LETTER PHASE-E PAA=01696C;TANGSA LETTER HA=016AAD" \o
      ";ZNAMENNY NEUME ZMEYTSA=01CF85;BYZANTINE MUSICAL SYMBOL GORTHMIKON N APLOUN=01D0B4" \o
      ";MUSICAL SYMBOL SQUARE B=01D1D2;SIGNWRITING MOVEMENT-WALLPLANE CROSS=01D933" \o
      ";WANCHO LETTER FA=01E2CD;MENDE KIKAKUI SYLLABLE M149 NJEE=01E8B7;ADLAM NASALIZATION MARK=01E94B" \o
      ";ARABIC MATHEMATICAL INITIAL TEH=01EE35;MAHJONG TILE SOUTH WIND=01F001" \o
      ";PLAYING CARD KNIGHT OF DIAMONDS=01F0CC;HEAVY SANS-SERIF INTERROBANG ORNAMENT=01F67B" \o
      ";LARGE RED SQUARE=01F7E5;JUGGLING=01F939;SOFTBALL=01F94E",
    ";LATIN SMALL LETTER I WITH ACUTE=0000ED;LATIN SMALL LETTER G WITH BREVE=00011F" \o
      ";LATIN SMALL LETTER I WITH TILDE=000129;LATIN SMALL LETTER YOGH=00021D" \o
      ";LATIN SMALL LETTER H WITH CARON=00021F;LATIN SMALL LETTER O WITH DIAERESIS AND MACRON=00022B" \o
      ";COMBINING RIGHT HALF RING BELOW=000339;ARABIC-INDIC DIGIT EIGHT=000668;THAI DIGIT SEVEN=000E57" \o
      ";TIBETAN MARK NGAS BZUNG NYI ZLA=000F35;TIBETAN LETTER A=000F68" \o
      ";CANADIAN SYLLABICS NASKAPI CWAA=0014A0;TAGALOG LETTER I=001701;CANADIAN SYLLABICS SHOY=0018C0" \o
      ";CANADIAN SYLLABICS NWOO=0018CC;LEPCHA DIGIT TWO=001C42" \o
      ";LATIN SMALL LETTER A WITH CIRCUMFLEX AND GRAVE=001EA7;LATIN SUBSCRIPT SMALL LETTER X=002093" \o
      ";WEIERSTRASS ELLIPTIC FUNCTION=002118;SCRIPT CAPITAL E=002130;SMALL ELEMENT OF=00220A" \o
      ";DOES NOT SUCCEED=002281;BOX DRAWINGS LIGHT DOWN=002577;SHAMROCK=002618" \o
      ";DINGBAT NEGATIVE CIRCLED SANS-SERIF DIGIT FIVE=00278E" \o
      ";DINGBAT NEGATIVE CIRCLED SANS-SERIF DIGIT NINE=002792;MATHEMATICAL LEFT ANGLE BRACKET=0027E8" \o
      ";BRAILLE PATTERN DOTS-134=00280D;BRAILLE PATTERN DOTS-125=002813" \o
      ";LEFTWARDS HARPOON WITH BARB UP ABOVE LONG DASH=00296A" \o
      ";CIRCLED NUMBER SEVENTY ON BLACK SQUARE=00324E;SQUARE ERA NAME TAISYOU=00337D" \o
      ";YI SYLLABLE NBIE=00A07B;VAI SYLLABLE VEE=00A50D;VAI SYLLABLE BOO=00A578;VAI SYLLABLE KPE=00A5EC" \o
      ";VAI SYLLABLE SHE=00A5FC;BAMUM LETTER TAA=00A6B0;BAMUM LETTER NGA=00A6D5;REJANG LETTER PA=00A936" \o
      ";CHAM LETTER NGUE=00AA0A;TAI VIET VOWEL U=00AAB4;ETHIOPIC SYLLABLE CCHHU=00AB21" \o
      ";HEBREW LETTER LAMED WITH DAGESH=00FB3C;ARABIC LETTER PEH ISOLATED FORM=00FB56" \o
      ";ARABIC LIGATURE SALLA USED AS KORANIC STOP SIGN ISOLATED FORM=00FDF0" \o
      ";ARABIC LETTER TAH ISOLATED FORM=00FEC1;FULLWIDTH HYPHEN-MINUS=00FF0D" \o
      ";HALFWIDTH HANGUL FILLER=00FFA0;MODIFIER LETTER SMALL CAPITAL B=010784" \o
      ";MEROITIC HIEROGLYPHIC LETTER E=010981;KHAROSHTHI VOWEL SIGN E=010A05" \o
      ";INSCRIPTIONAL PAHLAVI LETTER MEM-QOPH=010B6C;OLD UYGHUR LETTER SADHE=010F7D" \o
      ";BRAHMI LETTER TA=011022;BRAHMI DIGIT SIX=01106C;BRAHMI LETTER OLD TAMIL SHORT O=011072" \o
      ";KAITHI LETTER MA=0110A7;KHOJKI LETTER GA=01120A;TAKRI LETTER DHA=01169C" \o
      ";TAMIL SIGN MUUVUZHAKKU=011FD9;CUNEIFORM SIGN URU TIMES URUDA=01234E" \o
      ";BAMUM LETTER PHASE-E MAE=0169B8;PAHAWH HMONG VOWEL KAWV=016B0F;PAHAWH HMONG MARK CIM SO=016B31" \o
      ";MATHEMATICAL ITALIC CAPITAL ETA=01D6E8;MATHEMATICAL ITALIC SMALL LAMDA=01D706" \o
      ";WANCHO LETTER GA=01E2C5;ETHIOPIC SYLLABLE HHYAA=01E7E3;ARABIC MATHEMATICAL LOOPED THEH=01EE96" \o
      ";ARABIC MATHEMATICAL LOOPED THAL=01EE98;WAVING HAND SIGN=01F44B" \o
      ";ALCHEMICAL SYMBOL FOR SALT OF ANTIMONY=01F72D;NERD FACE=01F913" \o
      ";UPPER RIGHT BLOCK DIAGONAL UPPER LEFT TO LOWER CENTRE=01FB56" \o
      ";UPPER LEFT BLOCK DIAGONAL LOWER CENTRE TO UPPER RIGHT=01FB61",
    ";LATIN CAPITAL LETTER E WITH CIRCUMFLEX=0000CA;LATIN SMALL LETTER I WITH CARON=0001D0" \o
      ";LATIN LETTER GLOTTAL STOP WITH STROKE=0002A1;GREEK KAI SYMBOL=0003D7" \o
      ";CYRILLIC SMALL LETTER U=000443;THAANA LETTER CHAVIYANI=000797;ORIYA LETTER VOCALIC RR=000B60" \o
      ";TELUGU LETTER VOCALIC R=000C0B;CANADIAN SYLLABICS BLACKFOOT NA=0015BB" \o
      ";MONGOLIAN LETTER TODO O=001846;LIMBU LETTER GHA=001904" \o
      ";COMBINING LATIN SMALL LETTER INSULAR D=001DD8" \o
      ";LATIN SMALL LETTER E WITH CIRCUMFLEX AND ACUTE=001EBF" \o
      ";LATIN SMALL LETTER E WITH CIRCUMFLEX AND TILDE=001EC5;SCRIPT CAPITAL F=002131" \o
      ";TOP PARENTHESIS=0023DC;BLACK LEFT-POINTING DOUBLE TRIANGLE WITH VERTICAL BAR=0023EE" \o
      ";BRAILLE PATTERN DOTS-234=00280E;BRAILLE PATTERN DOTS-135=002815;BRAILLE PATTERN DOTS-126=002823" \o
      ";WHITE HOURGLASS=0029D6;HEAVY CIRCLE WITH CIRCLE INSIDE=002B57" \o
      ";IDEOGRAPHIC TELEGRAPH SYMBOL FOR DAY THIRTEEN=0033EC;YI SYLLABLE GGAP=00A21D" \o
      ";VAI SYLLABLE WEE=00A503;VAI SYLLABLE NJI=00A541;VAI SYLLABLE COO=00A58B;VAI SYLLABLE DHU=00A5A6" \o
      ";VAI SYLLABLE NDO=00A5D2;VAI SYLLABLE THE=00A5F4;CHAM LETTER NHUE=00AA10" \o
      ";LATIN SMALL LETTER R WITH CROSSED-TAIL=00AB49;ARABIC LETTER GUEH INITIAL FORM=00FB98" \o
      ";ARABIC LIGATURE TEH WITH REH FINAL FORM=00FC70;ARABIC LIGATURE LAM WITH YEH FINAL FORM=00FC87" \o
      ";ARABIC LETTER THEH INITIAL FORM=00FE9B;PHAISTOS DISC SIGN LILY=0101F6;CARIAN LETTER SH=0102AE" \o
      ";OLD HUNGARIAN CAPITAL LETTER EJ=010C92;BRAHMI LETTER AU=011012;KAITHI LETTER NA=0110A2" \o
      ";SORA SOMPENG LETTER RAH=0110DD;SHARADA LETTER U=011187;KHOJKI LETTER HA=01122A" \o
      ";NEWA LETTER NGHA=011413;SIDDHAM LETTER O=01158C;AHOM SIGN KILLER=01172B;DOGRA LETTER SHA=011827" \o
      ";CUNEIFORM SIGN MUSH OVER MUSH TIMES GA=012520;BAMUM LETTER PHASE-E NAE=0169C5" \o
      ";HENTAIGANA LETTER TU-TO=01B06D;ZNAMENNY NEUME STATYA NEPOSTOYANNAYA=01CF91" \o
      ";SIGNWRITING FLICK SMALL SINGLE=01D91C;WANCHO LETTER HA=01E2DA" \o
      ";INDIC SIYAQ ALTERNATE LAKH MARK=01ECB4;ARABIC MATHEMATICAL DOTLESS BEH=01EE1C" \o
      ";ARABIC MATHEMATICAL TAILED NOON=01EE4D;ARABIC MATHEMATICAL DOUBLE-STRUCK THEH=01EEB6" \o
      ";ARABIC MATHEMATICAL DOUBLE-STRUCK THAL=01EEB8;ICE CREAM=01F368;BOLD GREEK CROSS=01F7A4" \o
      ";FACE PALM=01F926;WHITE CHESS KNIGHT ROTATED FORTY-FIVE DEGREES=01FA06",
    ";LATIN SMALL LETTER I WITH BREVE=00012D;LATIN SMALL LETTER J WITH CARON=0001F0" \o
      ";MODIFIER LETTER BEGIN HIGH TONE=0002F9;CYRILLIC SMALL LETTER A WITH DIAERESIS=0004D3" \o
      ";HEBREW LETTER HE=0005D4;ARABIC LETTER HAH WITH TWO DOTS VERTICAL ABOVE=000682" \o
      ";TIBETAN SUBJOINED SIGN MCHU CAN=000F8E;CANADIAN SYLLABICS PWOO=001442" \o
      ";CANADIAN SYLLABICS BLACKFOOT KE=0015BC;CANADIAN SYLLABICS CARRIER KHEE=0015F8" \o
      ";RUNIC LETTER LONG-BRANCH-MADR M=0016D8;LATIN SMALL LETTER K WITH ACUTE=001E31" \o
      ";LOWER ONE QUARTER BLOCK=002582;TRIGRAM FOR LAKE=002631;HEAVY OPEN CENTRE CROSS=00271C" \o
      ";HEAVY BLACK-FEATHERED SOUTH EAST ARROW=0027B7;BRAILLE PATTERN DOTS-235=002816" \o
      ";BRAILLE PATTERN DOTS-145=002819;BRAILLE PATTERN DOTS-136=002825;BRAILLE PATTERN DOTS-127=002843" \o
      ";DOWNWARDS TRIANGLE-HEADED ARROW TO BAR=002B73;VERTICAL TAB KEY=002B7F;YI SYLLABLE BIEP=00A01D" \o
      ";YI SYLLABLE NDIE=00A156;YI SYLLABLE CHAT=00A361;YI SYLLABLE CHEP=00A370;VAI SYLLABLE DOO=00A585" \o
      ";BAMUM LETTER RAE=00A6D1;REJANG LETTER RA=00A93D;ARABIC LETTER DYEH INITIAL FORM=00FB74" \o
      ";ARABIC LIGATURE WASALLAM ISOLATED FORM=00FDF8;ARABIC LETTER REH ISOLATED FORM=00FEAD" \o
      ";LYCIAN LETTER BH=010283;CARIAN LETTER NN=0102B3;MANICHAEAN LETTER SSHIN=010AE3" \o
      ";OLD HUNGARIAN CAPITAL LETTER EK=010C93;BRAHMI LETTER VA=01102F;SORA SOMPENG LETTER SAH=0110D0" \o
      ";KHOJKI LETTER AI=011205;KHUDAWADI VOWEL SIGN UU=0112E4;MODI SIGN VIRAMA=01163F" \o
      ";DOGRA LETTER NNA=011818;DOGRA LETTER THA=01181A;CUNEIFORM SIGN A=012000" \o
      ";CUNEIFORM SIGN LAK-449 TIMES IGI=0124F3;CUNEIFORM SIGN LAK-617 TIMES ASH=012502" \o
      ";BAMUM LETTER PHASE-E SAA=016985;TANGSA LETTER IC=016A81;TANGSA LETTER KA=016AA0" \o
      ";DUPLOYAN LETTER NASAL O=01BC62;ZNAMENNY COMBINING MARK GORAZDO NIZKO ON LEFT=01CF03" \o
      ";ZNAMENNY COMBINING MARK SREDNE ON LEFT=01CF05;MATHEMATICAL BOLD CAPITAL SIGMA=01D6BA" \o
      ";MATHEMATICAL SANS-SERIF BOLD SMALL FINAL SIGMA=01D781;ADLAM CAPITAL LETTER DHA=01E90D" \o
      ";ARABIC MATHEMATICAL LOOPED SEEN=01EE8E;DIGIT FOUR COMMA=01F105;HIBISCUS=01F33A" \o
      ";BANKNOTE WITH EURO SIGN=01F4B6;NEGATIVE CIRCLED SQUARE=01F7D8",
    ";LATIN SMALL LETTER I WITH GRAVE=0000EC;LATIN CAPITAL LETTER G WITH CIRCUMFLEX=00011C" \o
      ";LATIN SMALL LETTER L WITH ACUTE=00013A;LATIN SMALL LETTER K WITH CARON=0001E9" \o
      ";COMBINING RETROFLEX HOOK BELOW=000322;GREEK SMALL DOTTED LUNATE SIGMA SYMBOL=00037C" \o
      ";GREEK UPSILON WITH HOOK SYMBOL=0003D2;ARABIC LETTER GAF WITH THREE DOTS ABOVE=0006B4" \o
      ";ARABIC FULL STOP=0006D4;CANADIAN SYLLABICS WEST-CREE RE=00158A" \o
      ";CANADIAN SYLLABICS CARRIER JJEE=00161F;CANADIAN SYLLABICS CARRIER LHEE=001631" \o
      ";KHMER LETTER KHA=001781;NEW TAI LUE VOWEL SIGN O=0019B7;BATAK LETTER NYA=001BE0" \o
      ";GREEK SMALL LETTER ETA WITH PSILI AND VARIA AND YPOGEGRAMMENI=001F92" \o
      ";DOUBLE EXCLAMATION MARK=00203C;NORDIC MARK SIGN=0020BB;SCRIPT CAPITAL H=00210B" \o
      ";BOX DRAWINGS HEAVY UP AND RIGHT=002517;BRAILLE PATTERN DOTS-245=00281A" \o
      ";BRAILLE PATTERN DOTS-236=002826;BRAILLE PATTERN DOTS-146=002829;BRAILLE PATTERN DOTS-137=002845" \o
      ";BRAILLE PATTERN DOTS-128=002883;SQUARE SANTIIMU=003320;YI SYLLABLE BBIT=00A056" \o
      ";YI SYLLABLE BBEX=00A069;YI SYLLABLE NBAP=00A080;YI SYLLABLE DDIP=00A139;YI SYLLABLE DDAX=00A13E" \o
      ";YI SYLLABLE CIEP=00A2B5;VAI SYLLABLE YEE=00A51D;VAI SYLLABLE ZHA=00A565;VAI SYMBOL FEENG=00A613" \o
      ";CYRILLIC CAPITAL LETTER ZEMLYA=00A640;REJANG LETTER SA=00A93C" \o
      ";ARABIC LETTER SEEN INITIAL FORM=00FEB3;GREEK LITRA SIGN=010183;DESERET SMALL LETTER OW=010435" \o
      ";ELBASAN LETTER U=01051F;HATRAN LETTER HE=0108E4;OLD SOUTH ARABIAN LETTER LAMEDH=010A61" \o
      ";OLD HUNGARIAN CAPITAL LETTER EL=010C96;SOGDIAN PUNCTUATION TWO VERTICAL BARS=010F55" \o
      ";KAITHI LETTER PA=0110A3;SORA SOMPENG LETTER TAH=0110D1;SORA SOMPENG DIGIT FOUR=0110F4" \o
      ";KHOJKI LETTER JA=011210;MODI DIGIT SEVEN=011657;TAKRI LETTER GHA=01168D" \o
      ";CUNEIFORM SIGN LAK-648 TIMES IGI=012510;CYPRO-MINOAN SIGN CM075B=012FCE" \o
      ";BAMUM LETTER PHASE-B KAM=016860;BAMUM LETTER PHASE-C MBI=0168DD;BAMUM LETTER PHASE-E TAA=0169DB" \o
      ";BAMUM LETTER PHASE-E NGA=0169F2;TANGSA LETTER LA=016AAE;MIAO LETTER NNHA=016F15" \o
      ";MATHEMATICAL SANS-SERIF BOLD ITALIC CAPITAL XI=01D79D" \o
      ";SIGNWRITING ROTATION-WALLPLANE DOUBLE HITTING CHEST=01D9B2;WANCHO LETTER JA=01E2D0" \o
      ";ADLAM CAPITAL LETTER GBE=01E91E;ARABIC MATHEMATICAL DOUBLE-STRUCK SEEN=01EEAE" \o
      ";LOWER LEFT FOUNTAIN PEN=01F58B;NORTH EAST POINTING BUD=01F662",
    ";LINE FEED=00000A;LATIN CAPITAL LETTER H WITH CIRCUMFLEX=000124" \o
      ";LATIN SMALL LETTER L WITH CARON=00013E;MODIFIER LETTER REVERSED GLOTTAL STOP=0002C1" \o
      ";COMBINING SEAGULL BELOW=00033C;GREEK SMALL LETTER IOTA WITH DIALYTIKA=0003CA" \o
      ";BENGALI CURRENCY NUMERATOR ONE=0009F4;CANADIAN SYLLABICS WEST-CREE WA=001418" \o
      ";CANADIAN SYLLABICS ATHAPASCAN S=001506;CANADIAN SYLLABICS RWOO=0018D2;LIMBU LETTER JHA=001909" \o
      ";TAI THAM LETTER HIGH KXA=001A22;COMBINING LATIN SMALL LETTER INSULAR G=001ACC" \o
      ";LATIN SMALL LETTER M WITH ACUTE=001E3F;LATIN SMALL LETTER E WITH CIRCUMFLEX AND GRAVE=001EC1" \o
      ";SCRIPT CAPITAL I=002110;DOUBLE-STRUCK CAPITAL Z=002124;BRAILLE PATTERN DOTS-345=00281C" \o
      ";BRAILLE PATTERN DOTS-246=00282A;BRAILLE PATTERN DOTS-156=002831;BRAILLE PATTERN DOTS-237=002846" \o
      ";BRAILLE PATTERN DOTS-147=002849;BRAILLE PATTERN DOTS-138=002885" \o
      ";N-ARY UNION OPERATOR WITH PLUS=002A04;COPTIC OLD NUBIAN DIRECT QUESTION MARK=002CFA" \o
      ";ETHIOPIC SYLLABLE GGWEE=002D95;CJK RADICAL SECOND THREE=002E84;YI SYLLABLE DIEP=00A106" \o
      ";YI SYLLABLE HLIE=00A19C;YI SYLLABLE MGIE=00A231;YI SYLLABLE JJIE=00A41E;VAI SYLLABLE ZEE=00A518" \o
      ";VAI SYLLABLE KPI=00A52E;VAI SYLLABLE SHI=00A53C;VAI SYLLABLE FOO=00A57D;VAI SYLLABLE MBU=00A59E" \o
      ";BAMUM LETTER TAE=00A6A6;BAMUM LETTER PEE=00A6CA;SYLOTI NAGRI LETTER DDO=00A812" \o
      ";REJANG LETTER TA=00A933" \o
      ";ARABIC LIGATURE UIGHUR KIRGHIZ YEH WITH HAMZA ABOVE WITH ALEF MAKSURA ISOLATED FORM=00FBF9" \o
      ";ARABIC LIGATURE TAH WITH YEH FINAL FORM=00FD12" \o
      ";PRESENTATION FORM FOR VERTICAL RIGHT TORTOISE SHELL BRACKET=00FE3A" \o
      ";ARABIC LETTER TEH ISOLATED FORM=00FE95;LINEAR B SYLLABLE B058 SU=010031" \o
      ";MEROITIC HIEROGLYPHIC LETTER I=010982;KHAROSHTHI VOWEL SIGN I=010A01" \o
      ";OLD HUNGARIAN CAPITAL LETTER II=010C91;OLD HUNGARIAN CAPITAL LETTER EM=010C98" \o
      ";KAITHI LETTER II=011086;KHOJKI LETTER KA=011208;NEWA SIGN VIRAMA=011442" \o
      ";MONGOLIAN ROTATED BIRGA=011661;CUNEIFORM PUNCTUATION SIGN DIAGONAL TRICOLON=012473" \o
      ";BAMUM LETTER PHASE-F TAA=016A0E;TANGSA LETTER MA=016AAB" \o
      ";ZNAMENNY NEUME STRELA GROMOPOVODNAYA WITH SINGLE ZAPYATAYA=01CFA1" \o
      ";MATHEMATICAL ITALIC SMALL GAMMA=01D6FE;MATHEMATICAL SANS-SERIF BOLD ITALIC CAPITAL MU=01D79B" \o
      ";SIGNWRITING MOUTH KISS=01DA4D;WANCHO LETTER KA=01E2D4;MENDE KIKAKUI SYLLABLE M184 NGEN=01E889" \o
      ";ADLAM CAPITAL LETTER BHE=01E907;ARABIC MATHEMATICAL INITIAL YEH=01EE29;COPYLEFT SYMBOL=01F12F" \o
      ";HIGH-SPEED TRAIN=01F684;MEDIUM EIGHT POINTED BLACK STAR=01F7CE;NEGATIVE DIAGONAL CROSS=01FBBD",
    ";LATIN CAPITAL LETTER I WITH CIRCUMFLEX=0000CE;LATIN SMALL LETTER N WITH TILDE=0000F1" \o
      ";LATIN SMALL LETTER N WITH ACUTE=000144;DEVANAGARI VOWEL SIGN VOCALIC L=000962" \o
      ";ORIYA LETTER DDA=000B21;TAMIL LETTER NGA=000B99;CANADIAN SYLLABICS SWOO=0014FE" \o
      ";CANADIAN SYLLABICS BLACKFOOT NE=0015B8;CANADIAN SYLLABICS CARRIER KKEE=0015FE" \o
      ";KHMER SYMBOL LEK ATTAK PRAM-PII=0017F7;LIMBU LETTER KHA=001902;BATAK SIGN TOMPI=001BE6" \o
      ";COMBINING LATIN SMALL LETTER AE=001DD4" \o
      ";GREEK CAPITAL LETTER ALPHA WITH PSILI AND PERISPOMENI=001F0E;VERSICLE=002123" \o
      ";NEGATIVE CIRCLED NUMBER TWENTY=0024F4;BOX DRAWINGS HEAVY DOWN=00257B" \o
      ";BRAILLE PATTERN DOTS-346=00282C;BRAILLE PATTERN DOTS-256=002832;BRAILLE PATTERN DOTS-247=00284A" \o
      ";BRAILLE PATTERN DOTS-157=002851;BRAILLE PATTERN DOTS-238=002886;BRAILLE PATTERN DOTS-148=002889" \o
      ";VERTICAL LINE WITH CIRCLE ABOVE=002AEF;RIBBON ARROW DOWN RIGHT=002BB1" \o
      ";RIBBON ARROW RIGHT DOWN=002BB7;CJK RADICAL C-SIMPLIFIED TANNED LEATHER=002ED9" \o
      ";KANGXI RADICAL MOUNTAIN=002F2D;KANGXI RADICAL MINISTER=002F82;YI SYLLABLE BBOP=00A068" \o
      ";YI SYLLABLE HMIE=00A096;YI SYLLABLE NDAP=00A15A;YI SYLLABLE GGAT=00A21A;YI SYLLABLE GGEP=00A229" \o
      ";YI SYLLABLE NGIE=00A25E;VAI SYLLABLE THI=00A534;VAI SYLLABLE GOO=00A591;VAI SYLLABLE HON=00A5BE" \o
      ";HEBREW LETTER ALTERNATIVE AYIN=00FB20;MODIFIER LETTER SMALL CAPITAL G=010792" \o
      ";OLD HUNGARIAN CAPITAL LETTER EN=010C99;OLD UYGHUR LETTER ALEPH=010F70;BRAHMI LETTER YA=01102C" \o
      ";KAITHI LETTER RA=0110A9;SORA SOMPENG LETTER VAH=0110DA;KHOJKI LETTER LA=011227" \o
      ";NEWA DIGIT SEVEN=011457;NANDINAGARI LETTER TTHA=0119B9;ZANABAZAR SQUARE SIGN ANUSVARA=011A38" \o
      ";PAU CIN HAU MID-LEVEL TONE FINAL=011AF2;CUNEIFORM SIGN A TIMES A=012001" \o
      ";CUNEIFORM SIGN TUR OVER TUR ZA OVER ZA=01230A;CUNEIFORM SIGN LAK-648 TIMES DUB=01250E" \o
      ";BAMUM LETTER PHASE-C LAM=0168C5;BAMUM LETTER PHASE-E RAE=0169F0;BAMUM LETTER PHASE-E FAQ=016A01" \o
      ";TANGSA LETTER NA=016AAC;MIAO LETTER DZHA=016F2F" \o
      ";MATHEMATICAL SANS-SERIF BOLD ITALIC CAPITAL NU=01D79C" \o
      ";SIGNWRITING ROTATION-FLOORPLANE ALTERNATING=01D9E1;WANCHO LETTER LA=01E2C8" \o
      ";MENDE KIKAKUI SYLLABLE M046 HUAN=01E876;ARABIC MATHEMATICAL DOTLESS FEH=01EE1E;FROG FACE=01F438" \o
      ";UPPER ONE QUARTER BLOCK=01FB82;STICK FIGURE WITH DRESS=01FBC9",
    ";GROUP SEPARATOR=00001D;LATIN SMALL LETTER O WITH ACUTE=0000F3" \o
      ";LATIN SMALL LETTER O WITH TILDE=0000F5;LATIN CAPITAL LETTER J WITH CIRCUMFLEX=000134" \o
      ";LATIN SMALL LETTER N WITH CARON=000148;LATIN SMALL LETTER U WITH DIAERESIS AND MACRON=0001D6" \o
      ";CYRILLIC SMALL LETTER KA WITH VERTICAL STROKE=00049D" \o
      ";CYRILLIC SMALL LETTER E WITH DIAERESIS=0004ED;ARABIC LETTER HAH WITH THREE DOTS ABOVE=000685" \o
      ";BENGALI LETTER KHANDA TA=0009CE;TIBETAN SUBJOINED LETTER FIXED-FORM RA=000FBC" \o
      ";HANGUL CHOSEONG KHIEUKH=00110F;CANADIAN SYLLABICS TWOO=00145F" \o
      ";CANADIAN SYLLABICS BLACKFOOT KI=0015BD;LATIN SMALL LETTER U WITH MACRON AND DIAERESIS=001E7B" \o
      ";SMALL ROMAN NUMERAL SIX=002175;NORTH EAST DOUBLE ARROW=0021D7" \o
      ";BOTTOM SQUARE BRACKET OVER TOP SQUARE BRACKET=0023B6;ENVELOPE=002709" \o
      ";BRAILLE PATTERN DOTS-356=002834;BRAILLE PATTERN DOTS-347=00284C;BRAILLE PATTERN DOTS-257=002852" \o
      ";BRAILLE PATTERN DOTS-167=002861;BRAILLE PATTERN DOTS-248=00288A;BRAILLE PATTERN DOTS-158=002891" \o
      ";RIGHTWARDS ARROW ABOVE SHORT LEFTWARDS ARROW=002942" \o
      ";LEFTWARDS ARROW ABOVE SHORT RIGHTWARDS ARROW=002943" \o
      ";SHORT RIGHTWARDS ARROW ABOVE LEFTWARDS ARROW=002944" \o
      ";PLUS SIGN WITH CIRCUMFLEX ACCENT ABOVE=002A23;LEFTWARDS TRIANGLE-HEADED DASHED ARROW=002B6A" \o
      ";LATIN SMALL LETTER E WITH NOTCH=002C78;COPTIC SMALL LETTER OOU=002CB1" \o
      ";CJK RADICAL C-SIMPLIFIED TURTLE=002EF3;IDEOGRAPHIC TELEGRAPH SYMBOL FOR DAY FOURTEEN=0033ED" \o
      ";YI SYLLABLE BIET=00A01A;YI SYLLABLE HNIE=00A16E;YI SYLLABLE CHAX=00A362;YI SYLLABLE CHET=00A36D" \o
      ";VAI SYLLABLE WAN=00A54F;VAI SYLLABLE HOO=00A573;BAMUM LETTER REE=00A6A5;BAMUM LETTER KPA=00A6E9" \o
      ";LATIN SMALL LETTER OLD POLISH O=00A7C1;LATIN EPIGRAPHIC LETTER I LONGA=00A7FE" \o
      ";SYLOTI NAGRI LETTER BHO=00A81C;ARABIC LETTER VEH ISOLATED FORM=00FB6A" \o
      ";ARABIC LETTER RNOON MEDIAL FORM=00FBA3;ARABIC LIGATURE YEH WITH REH FINAL FORM=00FC91" \o
      ";ARABIC LETTER ZAH ISOLATED FORM=00FEC5;FULLWIDTH RIGHT SQUARE BRACKET=00FF3D" \o
      ";AEGEAN NUMBER SEVENTY THOUSAND=010131;ROMAN UNCIA SIGN=010191" \o
      ";MODIFIER LETTER SMALL CAPITAL H=010796;BRAHMI DIGIT TWO=011068;KAITHI LETTER SA=0110AE" \o
      ";KHOJKI LETTER MA=011224;GRANTHA LETTER I=011307;TAKRI LETTER JHA=011692;CUNEIFORM SIGN E=01208A" \o
      ";CUNEIFORM SIGN NINDA2 TIMES U2 PLUS ASH=01225E;BAMUM LETTER PHASE-A KAQ=016850" \o
      ";BAMUM LETTER PHASE-C YAA=0168D9;BAMUM LETTER PHASE-D TAE=01694B;BAMUM LETTER PHASE-D PEE=01695A" \o
      ";TANGSA LETTER MC=016A9D;PAHAWH HMONG VOWEL KOOV=016B0D" \o
      ";SIGNWRITING TONGUE TIP TOUCHING INSIDE MOUTH=01DA5C;WANCHO LETTER MA=01E2D8" \o
      ";ETHIOPIC SYLLABLE HHWEE=01E7EA;MENDE KIKAKUI SYLLABLE M166 GUEI=01E887" \o
      ";MENDE KIKAKUI SYLLABLE M172 MBOO=01E899;DIGIT ZERO COMMA=01F101;RICE BALL=01F359" \o
      ";DERELICT HOUSE BUILDING=01F3DA;BLOWFISH=01F421;EXTRATERRESTRIAL ALIEN=01F47D" \o
      ";UPSIDE-DOWN FACE=01F643;BLACK CHESS EQUIHOPPER ROTATED NINETY DEGREES=01FA4C" \o
      ";TAG PERCENT SIGN=0E0025;TAG LATIN SMALL LETTER A=0E0061",
    ";REVERSE SOLIDUS=00005C;LATIN SMALL LETTER O WITH CARON=0001D2;ARABIC-INDIC DIGIT THREE=000663" \o
      ";DEVANAGARI LETTER GLOTTAL STOP=00097D;ORIYA LETTER BHA=000B2D;ORIYA DIGIT FIVE=000B6B" \o
      ";ORIYA DIGIT NINE=000B6F;ETHIOPIC SYLLABLE QHWAA=00125B;CANADIAN SYLLABICS WEST-CREE LO=00154A" \o
      ";CANADIAN SYLLABICS WEST-CREE RI=00158B;MONGOLIAN LETTER TODO U=001847;LIMBU LETTER NGA=001905" \o
      ";TAI THAM LETTER HIGH SSA=001A47;TAI THAM LETTER GREAT SA=001A54;TAI THAM HORA DIGIT FOUR=001A84" \o
      ";TAI THAM THAM DIGIT FOUR=001A94;MODIFIER LETTER SMALL CAPITAL I=001DA6" \o
      ";LATIN SMALL LETTER P WITH ACUTE=001E55;SCRIPT CAPITAL L=002112;STRICTLY EQUIVALENT TO=002263" \o
      ";APL FUNCTIONAL SYMBOL DOWN CARET TILDE=002371;DIE FACE-1=002680;BRAILLE PATTERN DOTS-456=002838" \o
      ";BRAILLE PATTERN DOTS-357=002854;BRAILLE PATTERN DOTS-267=002862;BRAILLE PATTERN DOTS-348=00288C" \o
      ";BRAILLE PATTERN DOTS-258=002892;BRAILLE PATTERN DOTS-168=0028A1" \o
      ";THREE-D TOP-LIGHTED RIGHTWARDS EQUILATERAL ARROWHEAD=002B9A;BOTTOM HALF BLACK CIRCLE=002BCB" \o
      ";KANGXI RADICAL PROFOUND=002F5E;KANGXI RADICAL SACRIFICIAL WINE=002FBF" \o
      ";CIRCLED HANGUL KHIEUKH A=003278;YI SYLLABLE BBIX=00A057;YI SYLLABLE NBAT=00A07D" \o
      ";YI SYLLABLE DDIT=00A136;YI SYLLABLE DDEX=00A148;YI SYLLABLE HLAP=00A1A1;YI SYLLABLE GIEP=00A1E1" \o
      ";YI SYLLABLE MGAP=00A235;YI SYLLABLE CIET=00A2B2;VAI SYLLABLE NDU=00A5AB;VAI SYLLABLE NJO=00A5D9" \o
      ";VAI SYLLABLE ZHE=00A5FE;MODIFIER LETTER HIGH DOTTED LEFT-STEM TONE BAR=00A70E" \o
      ";SYLOTI NAGRI LETTER CHO=00A80D;REJANG LETTER WA=00A940;ETHIOPIC SYLLABLE TTHAA=00AB03" \o
      ";HEBREW LETTER DALET WITH DAGESH=00FB33;PRESENTATION FORM FOR VERTICAL TWO DOT LEADER=00FE30" \o
      ";LINEAR B SYLLABLE B069 TU=010036;GREEK ACROPHONIC ATTIC TEN MNAS=010157" \o
      ";GREEK ACROPHONIC CYRENAIC TWO DRACHMAS=01015D;LYCIAN LETTER AN=010299;ELBASAN LETTER Y=010522" \o
      ";VITHKUQI SMALL LETTER A=010597;PHOENICIAN NUMBER THREE=01091B" \o
      ";OLD HUNGARIAN CAPITAL LETTER EP=010CA0;RUMI DIGIT EIGHT=010E67;CHORASMIAN LETTER ALEPH=010FB0" \o
      ";KAITHI LETTER TA=01109E;SORA SOMPENG DIGIT ZERO=0110F0;KHOJKI LETTER NA=01121E" \o
      ";SIDDHAM LETTER U=011584;TAKRI LETTER KHA=01168B;CANADIAN SYLLABICS NATTILIK HAA=011AB5" \o
      ";CUNEIFORM SIGN NINDA2 TIMES GUL=012524;TANGSA LETTER PA=016AA7;MIAO LETTER TLHA=016F1A" \o
      ";DUPLOYAN AFFIX LOW WAVE=01BC97;MUSICAL SYMBOL CUT TIME=01D135" \o
      ";MUSICAL SYMBOL ARPEGGIATO DOWN=01D184;MUSICAL SYMBOL GREGORIAN C CLEF=01D1D0" \o
      ";MATHEMATICAL SANS-SERIF SMALL A=01D5BA;MATHEMATICAL BOLD CAPITAL THETA=01D6AF" \o
      ";MATHEMATICAL ITALIC CAPITAL PHI=01D6F7;MATHEMATICAL ITALIC SMALL ALPHA=01D6FC" \o
      ";SIGNWRITING HAND-HINGE OPEN THUMB SIDE=01D87F;WANCHO LETTER NA=01E2C9" \o
      ";ADLAM CAPITAL LETTER KAF=01E911;FOUR LEAF CLOVER=01F340;CHIPMUNK=01F43F;DOCUMENT=01F5CE" \o
      ";WHITE CHESS TURNED PAWN=01FA23;TAG LATIN SMALL LETTER B=0E0062",
    ";LATIN SMALL LETTER O WITH BREVE=00014F;LATIN SMALL LETTER N WITH GRAVE=0001F9" \o
      ";LATIN SMALL LETTER FENG DIGRAPH=0002A9;CYRILLIC CAPITAL LETTER ZHE WITH BREVE=0004C1" \o
      ";HEBREW PUNCTUATION NUN HAFUKHA=0005C6;ARABIC LETTER SEEN WITH DOT BELOW AND DOT ABOVE=00069A" \o
      ";ARABIC LETTER YU=0006C8;THAANA LETTER TO=0007A0;ORIYA LETTER CHA=000B1B;TAMIL LETTER LLA=000BB3" \o
      ";SINHALA VOWEL SIGN GAYANUKITTA=000DDF;MYANMAR VOWEL SIGN SHAN FINAL Y=001086" \o
      ";HANGUL JONGSEONG RIEUL-KHIEUKH=0011D8;CANADIAN SYLLABICS WEST-CREE WE=00140D" \o
      ";CANADIAN SYLLABICS NASKAPI KWAA=001482;KHMER LETTER PHA=001795;KHMER SIGN ROBAT=0017CC" \o
      ";LATIN LETTER AIN=001D25;GREEK CAPITAL LETTER OMEGA WITH PSILI AND PERISPOMENI=001F6E" \o
      ";GREEK CAPITAL LETTER OMICRON WITH OXIA=001FF9;UNDERTIE=00203F;SUBSCRIPT SEVEN=002087" \o
      ";SCRIPT CAPITAL M=002133;FLATNESS=0023E5" \o
      ";BOX DRAWINGS LIGHT DIAGONAL UPPER RIGHT TO LOWER LEFT=002571" \o
      ";BOX DRAWINGS LIGHT DIAGONAL UPPER LEFT TO LOWER RIGHT=002572;WHITE CHESS KING=002654" \o
      ";DIE FACE-2=002681;BRAILLE PATTERN DOTS-457=002858;BRAILLE PATTERN DOTS-367=002864" \o
      ";BRAILLE PATTERN DOTS-358=002894;BRAILLE PATTERN DOTS-268=0028A2;BRAILLE PATTERN DOTS-178=0028C1" \o
      ";SUPERSET BESIDE AND JOINED BY DASH WITH SUBSET=002AD8;GLAGOLITIC SMALL LETTER TVRIDO=002C45" \o
      ";YI SYLLABLE HMAP=00A09B;YI SYLLABLE NGAP=00A263;YI SYLLABLE NJIE=00A437;VAI SYLLABLE NYA=00A570" \o
      ";VAI SYLLABLE JOO=00A58C;VAI SYMBOL KEENG=00A614;BAMUM LETTER KEN=00A6D2" \o
      ";SYLOTI NAGRI LETTER DHO=00A817;TAI VIET LETTER HIGH CHO=00AA8D" \o
      ";ARABIC LETTER DUL ISOLATED FORM=00FB86;ARABIC LIGATURE TEH WITH YEH FINAL FORM=00FC75" \o
      ";HALFWIDTH HANGUL LETTER TIKEUT=00FFA7;LYDIAN LETTER AN=010935;MANICHAEAN LETTER ZAYIN=010AC9" \o
      ";KAITHI LETTER AU=01108C;SORA SOMPENG LETTER YAH=0110DC;BAMUM LETTER PHASE-C LAP=0168B6" \o
      ";BAMUM LETTER PHASE-F TAE=016A08;BAMUM LETTER PHASE-F PEE=016A22;TANGSA LETTER OC=016A71" \o
      ";TANGSA LETTER AQ=016A76;DUPLOYAN LETTER NASAL U=01BC61" \o
      ";BYZANTINE MUSICAL SYMBOL PELASTON NEO=01D04D;TETRAGRAM FOR RESIDENCE=01D32C" \o
      ";MATHEMATICAL SANS-SERIF SMALL B=01D5BB;ETHIOPIC SYLLABLE HHYEE=01E7E4" \o
      ";MENDE KIKAKUI SYLLABLE M167 GUAN=01E888;DUMPLING=01F95F;TAG LATIN SMALL LETTER C=0E0063",
    ";LATIN SMALL LETTER O WITH GRAVE=0000F2;LATIN SMALL LETTER R WITH ACUTE=000155" \o
      ";ORIYA LETTER DHA=000B27;MALAYALAM SIGN ANUSVARA=000D02" \o
      ";HANGUL CHOSEONG CEONGCHIEUMSSANGCIEUC=001151;CANADIAN SYLLABICS BLACKFOOT NI=0015B9" \o
      ";KHMER LETTER CHO=001788;NEW TAI LUE VOWEL SIGN U=0019B3" \o
      ";GREEK SMALL LETTER ALPHA WITH PSILI AND YPOGEGRAMMENI=001F80;NOT IDENTICAL TO=002262" \o
      ";MICR DASH SYMBOL=002449;NUMBER ELEVEN FULL STOP=002492;DIE FACE-3=002682" \o
      ";BRAILLE PATTERN DOTS-467=002868;BRAILLE PATTERN DOTS-458=002898;BRAILLE PATTERN DOTS-368=0028A4" \o
      ";BRAILLE PATTERN DOTS-278=0028C2;POSEIDON=002BE7;YI SYLLABLE BBOT=00A065;YI SYLLABLE DDOP=00A147" \o
      ";YI SYLLABLE NDAT=00A157;YI SYLLABLE NDEP=00A161;YI SYLLABLE HNAP=00A173;YI SYLLABLE GGAX=00A21B" \o
      ";YI SYLLABLE GGET=00A226;VAI SYLLABLE KOO=00A58F;BAMUM COMBINING MARK TUKWENTIS=00A6F1" \o
      ";SAURASHTRA VOWEL SIGN E=00A8BE;DEVANAGARI CARET=00A8FA;REJANG LETTER YA=00A93F" \o
      ";ARMENIAN SMALL LIGATURE MEN INI=00FB15;ARABIC LETTER KIRGHIZ YU ISOLATED FORM=00FBE2" \o
      ";ARABIC LETTER YEH ISOLATED FORM=00FEF1;COMBINING OLD PERMIC LETTER DOI=010377" \o
      ";DESERET SMALL LETTER WU=010436;OLD HUNGARIAN CAPITAL LETTER ER=010CA2;KAITHI LETTER VA=0110AB" \o
      ";KHOJKI LETTER PA=01121F;TAKRI LETTER NGA=01168E;DOGRA SIGN NUKTA=01183A" \o
      ";CUNEIFORM SIGN MUG GUNU=01222F;BAMUM LETTER PHASE-A VEE=016852;BAMUM LETTER PHASE-A NAQ=016855" \o
      ";TANGSA LETTER RA=016AB2;BYZANTINE MUSICAL SYMBOL XIRON KLASMA=01D06A" \o
      ";MUSICAL SYMBOL END SLUR=01D178;MUSICAL SYMBOL COMBINING LOURE=01D182" \o
      ";TETRAGRAM FOR DARKENING=01D348;MATHEMATICAL SANS-SERIF SMALL C=01D5BC" \o
      ";SIGNWRITING MOVEMENT-FLOORPLANE FINGER CIRCLES HITTING WALL DOUBLE=01D9F4" \o
      ";WANCHO LETTER PA=01E2CA;ADLAM CAPITAL LETTER CHI=01E915;ADLAM CAPITAL LETTER KHA=01E91D" \o
      ";ARABIC MATHEMATICAL LOOPED ZAIN=01EE86;NOTEBOOK=01F4D3;PERSON FROWNING=01F64D;MONORAIL=01F69D" \o
      ";LION FACE=01F981;TAG LATIN SMALL LETTER D=0E0064",
    ";LATIN SMALL LETTER R WITH CARON=000159;LATIN SMALL LETTER S WITH ACUTE=00015B" \o
      ";CYRILLIC SMALL LETTER I WITH DIAERESIS=0004E5;CYRILLIC CAPITAL LETTER KOMI DE=000500" \o
      ";HEBREW LETTER PE=0005E4;ARABIC LETTER ALEF WASLA=000671;THAANA LETTER LHAVIYANI=000785" \o
      ";TELUGU SIGN CANDRABINDU=000C01;LAO LETTER SANSKRIT SSA=000EA9" \o
      ";CANADIAN SYLLABICS NASKAPI MWAA=0014BA;CANADIAN SYLLABICS BLACKFOOT WA=0015B7" \o
      ";CANADIAN SYLLABICS CARRIER SHEE=001657;RUNIC LETTER LAUKAZ LAGU LOGR L=0016DA" \o
      ";LIMBU LETTER PHA=001911;MODIFIER LETTER SMALL CAPITAL L=001DAB" \o
      ";CLOCKWISE TOP SEMICIRCLE ARROW=0021B7;RIGHTWARDS ARROW TO BAR=0021E5" \o
      ";DIRECT CURRENT SYMBOL FORM TWO=002393;WHITE TRAPEZIUM=0023E2;CIRCLED NUMBER THIRTEEN=00246C" \o
      ";DIE FACE-4=002683;EIGHT PETALLED OUTLINED BLACK FLORETTE=002741;BRAILLE PATTERN DOTS-567=002870" \o
      ";BRAILLE PATTERN DOTS-468=0028A8;BRAILLE PATTERN DOTS-378=0028C4;TWO LOGICAL OR OPERATOR=002A08" \o
      ";TRIPLE NESTED LESS-THAN=002AF7;COPTIC SMALL LETTER SOU=002C8B" \o
      ";TIFINAGH LETTER TAWELLEMET YAZ=002D64;CROSS PATTY WITH LEFT CROSSBAR=002E51" \o
      ";KATAKANA-HIRAGANA PROLONGED SOUND MARK=0030FC;CIRCLED IDEOGRAPH STUDY=0032AB" \o
      ";YI SYLLABLE BIEX=00A01B;YI SYLLABLE BBUO=00A063;YI SYLLABLE CHEX=00A36E;YI SYLLABLE JIEP=00A3E7" \o
      ";VAI SYLLABLE LOO=00A583;VAI SYLLABLE KPO=00A5C5;VAI SYLLABLE SHO=00A5D4;VAI SYLLABLE WEN=00A5E7" \o
      ";BAMUM LETTER MEN=00A6E2;CARIAN LETTER RR=0102C9;LINEAR A SIGN A301=010655" \o
      ";LINEAR A SIGN A310=010660;MEROITIC HIEROGLYPHIC LETTER O=010983;KHAROSHTHI VOWEL SIGN O=010A06" \o
      ";OLD SOUTH ARABIAN LETTER DALETH=010A75;OLD HUNGARIAN CAPITAL LETTER ES=010CA4" \o
      ";TAKRI ABBREVIATION SIGN=0116B9;DOGRA LETTER RRA=01182B;CUNEIFORM SIGN I=01213F" \o
      ";CUNEIFORM SIGN LAGAB TIMES LISH=0121D5;BAMUM LETTER PHASE-A NEN=016854" \o
      ";BAMUM LETTER PHASE-E LAP=016969;BAMUM LETTER PHASE-E SEE=016976;BAMUM LETTER PHASE-F REE=016A07" \o
      ";BAMUM LETTER PHASE-F KPA=016A36;TANGSA LETTER SA=016AA4" \o
      ";ZNAMENNY NEUME STRELA TIKHAYA PUTNAYA=01CF9A;BYZANTINE MUSICAL SYMBOL DIFTOGGOS OU=01D0E7" \o
      ";MUSICAL SYMBOL GREGORIAN F CLEF=01D1D1;MATHEMATICAL SANS-SERIF SMALL D=01D5BD" \o
      ";MATHEMATICAL ITALIC SMALL OMEGA=01D714;MATHEMATICAL SANS-SERIF BOLD ITALIC SMALL IOTA=01D7B2" \o
      ";SIGNWRITING HAND-HOOK INDEX RING LITTLE UNDER=01D8BF" \o
      ";SIGNWRITING ROTATION-WALLPLANE SINGLE HITTING CHEST=01D9B1" \o
      ";MENDE KIKAKUI SYLLABLE M154 MUAN=01E819;MENDE KIKAKUI SYLLABLE M082 NGGU=01E879" \o
      ";ARABIC MATHEMATICAL DOTLESS QAF=01EE1F;ARABIC MATHEMATICAL DOUBLE-STRUCK ZAIN=01EEA6" \o
      ";SQUARED SEVEN POINT ONE=01F1A1;NOTEBOOK WITH DECORATIVE COVER=01F4D4;NO MOBILE PHONES=01F4F5" \o
      ";MINIMIZE=01F5D5;SMILING CAT FACE WITH HEART-SHAPED EYES=01F63B;ELEVATOR=01F6D7" \o
      ";TAG LATIN SMALL LETTER E=0E0065",
    ";LATIN CAPITAL LETTER O WITH CIRCUMFLEX=0000D4;LATIN SMALL LETTER S WITH CARON=000161" \o
      ";ARABIC NUMBER MARK ABOVE=000605;ARABIC LETTER HIGH HAMZA=000674;THAANA LETTER GNAVIYANI=00078F" \o
      ";DEVANAGARI VOWEL SIGN VOCALIC R=000943;TAMIL LETTER SHA=000BB6" \o
      ";TIBETAN SUBJOINED LETTER FIXED-FORM WA=000FBA;HANGUL JUNGSEONG YO-YAE=001185" \o
      ";HANGUL JUNGSEONG YEO-YA=0011A5;CANADIAN SYLLABICS NASKAPI NWAA=0014CF" \o
      ";CANADIAN SYLLABICS YWOO=001537;CANADIAN SYLLABICS CARRIER THEE=0015DF;KHMER LETTER SHA=00179D" \o
      ";KHMER SYMBOL DAP-BEI ROC=0019FD;TAI THAM HORA DIGIT ZERO=001A80;TAI THAM THAM DIGIT ZERO=001A90" \o
      ";LATIN SMALL LETTER O WITH CIRCUMFLEX AND ACUTE=001ED1" \o
      ";LATIN SMALL LETTER O WITH CIRCUMFLEX AND TILDE=001ED7" \o
      ";GREEK SMALL LETTER UPSILON WITH DASIA AND OXIA=001F55" \o
      ";GREEK CAPITAL LETTER EPSILON WITH OXIA=001FC9;SCRIPT CAPITAL P=002118;TRIGRAM FOR FIRE=002632" \o
      ";DIE FACE-5=002684;MATHEMATICAL LEFT WHITE SQUARE BRACKET=0027E6;BRAILLE PATTERN DOTS-568=0028B0" \o
      ";BRAILLE PATTERN DOTS-478=0028C8;CIRCLED PARALLEL=0029B7;UP ARROW THROUGH CIRCLE=0029BD" \o
      ";SUBSET OF ABOVE ALMOST EQUAL TO=002AC9;HANGUL LETTER EO=003153;HANGUL LETTER OE=00315A" \o
      ";IDEOGRAPHIC TELEGRAPH SYMBOL FOR MARCH=0032C2;YI SYLLABLE BBUP=00A06F;YI SYLLABLE NBIP=00A079" \o
      ";YI SYLLABLE NBAX=00A07E;YI SYLLABLE DDIX=00A137;YI SYLLABLE HLAT=00A19E;YI SYLLABLE HLEP=00A1AA" \o
      ";YI SYLLABLE GIET=00A1DE;YI SYLLABLE KIEP=00A1FE;YI SYLLABLE MGAT=00A232;YI SYLLABLE MGEP=00A23F" \o
      ";YI SYLLABLE CIEX=00A2B3;VAI SYLLABLE ZHI=00A53E;VAI SYLLABLE MOO=00A592;VAI SYLLABLE HUN=00A598" \o
      ";VAI SYLLABLE THO=00A5CC;SYLOTI NAGRI LETTER GHO=00A80A;NORTH INDIC FRACTION ONE EIGHTH=00A834" \o
      ";COMBINING DEVANAGARI DIGIT FIVE=00A8E5;COMBINING DEVANAGARI DIGIT NINE=00A8E9" \o
      ";HEBREW LETTER GIMEL WITH DAGESH=00FB32;PRESENTATION FORM FOR VERTICAL EM DASH=00FE31" \o
      ";LYCIAN LETTER EN=01029A;VITHKUQI SMALL LETTER E=01059F;LINEAR A SIGN A302=010656" \o
      ";LINEAR A SIGN A311=010661;LINEAR A SIGN A320=01066C;HATRAN LETTER PE=0108F0" \o
      ";AVESTAN LETTER A=010B00;OLD HUNGARIAN CAPITAL LETTER ET=010CA6;CHORASMIAN LETTER GIMEL=010FB3" \o
      ";KHOJKI LETTER RA=011226;BHAIKSUKI VOWEL SIGN UU=011C33;BAMUM LETTER PHASE-C FUE=0168BC" \o
      ";BAMUM LETTER PHASE-C NAQ=0168EC;BAMUM LETTER PHASE-E MAP=01698B;BAMUM LETTER PHASE-E LAQ=0169D9" \o
      ";TANGSA LETTER TA=016AB0;TANGSA DIGIT SIX=016AC6;DUPLOYAN LETTER SLOAN J=01BC15" \o
      ";ZNAMENNY COMBINING MARK MALO POVYSHE ON RIGHT=01CF12" \o
      ";ZNAMENNY NEUME STRELA KLYUCHENEPOSTOYANNAYA=01CF99;MATHEMATICAL SANS-SERIF SMALL E=01D5BE" \o
      ";MATHEMATICAL ITALIC SMALL DELTA=01D6FF;WANCHO LETTER RA=01E2D7;WANCHO LETTER EN=01E2E7" \o
      ";ADLAM SMALL LETTER DAALI=01E923;MAHJONG TILE FOUR OF CHARACTERS=01F00A" \o
      ";SUNRISE OVER MOUNTAINS=01F304;LIPSTICK=01F484;LEFT-POINTING MAGNIFYING GLASS=01F50D" \o
      ";SOUTH EAST POINTING BUD=01F663;ALCHEMICAL SYMBOL FOR ROCK SALT=01F718" \o
      ";VERY HEAVY SIX SPOKED ASTERISK=01F7B9;MEDIUM THREE POINTED BLACK STAR=01F7C1" \o
      ";WIDE-HEADED NORTH EAST LIGHT BARB ARROW=01F865;TAG LATIN SMALL LETTER F=0E0066",
    ";LATIN SMALL LETTER U WITH ACUTE=0000FA;LATIN SMALL LETTER T WITH CARON=000165" \o
      ";LATIN SMALL LETTER U WITH TILDE=000169;LATIN SMALL LETTER CLOSED OMEGA=000277" \o
      ";CYRILLIC SMALL LETTER IOTIFIED BIG YUS=00046D;ORIYA LETTER GHA=000B18;TAMIL LETTER NNA=000BA3" \o
      ";TAMIL DIGIT FOUR=000BEA;TIBETAN DIGIT HALF EIGHT=000F31;CANADIAN SYLLABICS WEST-CREE WI=00140F" \o
      ";CANADIAN SYLLABICS BLACKFOOT KO=0015BE;TAGALOG LETTER U=001702;KHMER LETTER THA=001790" \o
      ";KHMER DIGIT FOUR=0017E4;CANADIAN SYLLABICS PWOY=0018B6;MODIFIER LETTER SMALL CAPITAL N=001DB0" \o
      ";GREEK SMALL LETTER OMEGA WITH PSILI AND YPOGEGRAMMENI=001FA0;OVERLINE=00203E" \o
      ";BLACK RIGHTWARDS BULLET=00204D;SMALL ROMAN NUMERAL TWO=002171;DOWNWARDS ARROW=002193" \o
      ";APL FUNCTIONAL SYMBOL CIRCLE BACKSLASH=002349" \o
      ";DENTISTRY SYMBOL LIGHT UP AND HORIZONTAL WITH CIRCLE=0023C2;DOUBLE CIRCLED DIGIT ONE=0024F5" \o
      ";DIE FACE-6=002685;FOUNTAIN=0026F2;BRAILLE PATTERN DOTS-578=0028D0" \o
      ";GLAGOLITIC SMALL LETTER CAUDATE CHRIVI=002C5F;YI SYLLABLE HMAT=00A098;YI SYLLABLE DIEX=00A104" \o
      ";YI SYLLABLE LIEP=00A1BE;YI SYLLABLE NGAT=00A260;YI SYLLABLE NGEP=00A26D;YI SYLLABLE CHOP=00A36C" \o
      ";VAI SYLLABLE OON=00A572;VAI SYLLABLE NOO=00A593;VAI SYLLABLE NYE=00A60A" \o
      ";VAI SYLLABLE LENGTHENER=00A60C;BAMUM LETTER FOM=00A6D9;LATIN SMALL LETTER BASELINE ESH=00AB4D" \o
      ";ARABIC LETTER NYEH INITIAL FORM=00FB78;PRESENTATION FORM FOR VERTICAL EN DASH=00FE32" \o
      ";FULLWIDTH COMMERCIAL AT=00FF20;LINEAR B IDEOGRAM B220 FOOTSTOOL=0100C4" \o
      ";GREEK ACROPHONIC THESPIAN FIVE HUNDRED=01016E;CARIAN LETTER SS=0102B8" \o
      ";COPTIC EPACT NUMBER ONE HUNDRED=0102F3;LINEAR A SIGN A303=010657;LINEAR A SIGN A312=010662" \o
      ";LINEAR A SIGN A321=01066D;LINEAR A SIGN A330=010676;LINEAR A SIGN A501=0106B3" \o
      ";LINEAR A SIGN A510=0106BB;LINEAR A SIGN A600=010703;LYDIAN LETTER EN=010936" \o
      ";RUMI NUMBER SIX HUNDRED=010E77;KAITHI LETTER YA=0110A8;KHOJKI LETTER SA=011229" \o
      ";KHUDAWADI SIGN ANUSVARA=0112DF;TAKRI LETTER PHA=01169F;DOGRA LETTER SSA=011828" \o
      ";SOYOMBO FINAL CONSONANT SIGN -A=011A95;CUNEIFORM SIGN KUL GUNU=0121B1" \o
      ";BAMUM LETTER PHASE-E MAQ=0169FC;BAMUM LETTER PHASE-F KEN=016A26;TANGSA LETTER EQ=016A7E" \o
      ";MIAO LETTER LHYA=016F19;MATHEMATICAL SANS-SERIF SMALL F=01D5BF" \o
      ";MATHEMATICAL BOLD ITALIC SMALL UPSILON=01D74A;WANCHO LETTER SA=01E2CE" \o
      ";MENDE KIKAKUI SYLLABLE M112 KPOO=01E8A4;MENDE KIKAKUI SYLLABLE M067 NDOO=01E8B3" \o
      ";ADLAM CAPITAL LETTER NHA=01E91B;ARABIC MATHEMATICAL ALEF=01EE00;HOSPITAL=01F3E5;MAXIMIZE=01F5D6" \o
      ";THREE RAYS ABOVE=01F5E4;WHITE CHESS TURNED ROOK=01FA20;WHITE CHESS KNIGHT-ROOK=01FA4F" \o
      ";TAG LATIN SMALL LETTER G=0E0067",
    ";LATIN SMALL LETTER U WITH CARON=0001D4;GREEK PHI SYMBOL=0003D5" \o
      ";ARABIC LETTER SAD WITH THREE DOTS ABOVE=00069E;ARABIC LETTER AIN WITH THREE DOTS ABOVE=0006A0" \o
      ";ARABIC LETTER QAF WITH THREE DOTS ABOVE=0006A8;TIBETAN SUBJOINED LETTER FIXED-FORM YA=000FBB" \o
      ";MYANMAR SIGN SHAN TONE-2=001087;CANADIAN SYLLABICS WEST-CREE RO=00158C" \o
      ";CANADIAN SYLLABICS CARRIER DZEE=00164B;LIMBU LETTER SHA=001919" \o
      ";LATIN SMALL LETTER V WITH TILDE=001E7D;SCRIPT CAPITAL R=00211B;BULLSEYE=0025CE;SPARKLES=002728" \o
      ";BRAILLE PATTERN DOTS-678=0028E0;CJK RADICAL J-SIMPLIFIED TURTLE=002EF2;YI SYLLABLE BBOX=00A066" \o
      ";YI SYLLABLE BBUR=00A071;YI SYLLABLE MIEP=00A0B4;YI SYLLABLE DDOT=00A144;YI SYLLABLE NDIP=00A154" \o
      ";YI SYLLABLE NDAX=00A158;YI SYLLABLE HNAT=00A170;YI SYLLABLE HNEP=00A17B;YI SYLLABLE GGIT=00A214" \o
      ";YI SYLLABLE GGEX=00A227;VAI SYLLABLE NJU=00A5B2;SAURASHTRA VOWEL SIGN I=00A8B6" \o
      ";ARABIC LETTER TTEH INITIAL FORM=00FB68;ARABIC LIGATURE YEH WITH YEH FINAL FORM=00FC96" \o
      ";CARIAN LETTER ST=0102C2;LINEAR A SIGN A304=010658;LINEAR A SIGN A322=01066E" \o
      ";LINEAR A SIGN A331=010677;LINEAR A SIGN A340=010680;LINEAR A SIGN A502=0106B4" \o
      ";LINEAR A SIGN A511=0106BC;LINEAR A SIGN A520=0106C1;LINEAR A SIGN A601=010704" \o
      ";LINEAR A SIGN A610=01070B;OLD HUNGARIAN CAPITAL LETTER EV=010CAE;YEZIDI LETTER BE=010E81" \o
      ";YEZIDI LETTER FA=010E99;KHOJKI LETTER TA=011219" \o
      ";MONGOLIAN INVERTED BIRGA WITH DOUBLE ORNAMENT=011668;DOGRA LETTER NYA=011813" \o
      ";CUNEIFORM SIGN AB TIMES U PLUS U PLUS U=012014;CUNEIFORM SIGN LAK-617 TIMES TAR=012507" \o
      ";BAMUM LETTER PHASE-A KET=016833;BAMUM LETTER PHASE-C NSA=0168BE;BAMUM LETTER PHASE-D NJI=0168F3" \o
      ";BAMUM LETTER PHASE-D PAP=016935;BAMUM LETTER PHASE-E FUE=0169B4;BAMUM LETTER PHASE-E VEE=0169EC" \o
      ";BAMUM LETTER PHASE-E MEN=0169FA;MATHEMATICAL SANS-SERIF SMALL G=01D5C0" \o
      ";MATHEMATICAL BOLD PARTIAL DIFFERENTIAL=01D6DB" \o
      ";SIGNWRITING HEAD MOVEMENT-WALLPLANE STRAIGHT=01DA01;WANCHO LETTER TA=01E2CB" \o
      ";WANCHO DIGIT SIX=01E2F6;MENDE KIKAKUI SYLLABLE M057 NGON=01E88A" \o
      ";MENDE KIKAKUI SYLLABLE M134 NJOO=01E8B8;ALCHEMICAL SYMBOL FOR DAY-NIGHT=01F770" \o
      ";TAG LATIN SMALL LETTER H=0E0068",
    ";ASTERISK=00002A;SUPERSCRIPT ONE=0000B9;LATIN SMALL LETTER U WITH BREVE=00016D" \o
      ";CYRILLIC CAPITAL LETTER HA WITH STROKE=0004FE;THAANA LETTER ZO=0007A1" \o
      ";MALAYALAM VOWEL SIGN VOCALIC LL=000D63;MYANMAR LETTER A=001021;MYANMAR SIGN SHAN TONE-3=001088" \o
      ";CANADIAN SYLLABICS BLACKFOOT WE=0015B4;CANADIAN SYLLABICS CARRIER HWEE=0015D9" \o
      ";CANADIAN SYLLABICS CARRIER TLHA=001639;LIMBU LETTER THA=00190C;LIMBU DIGIT FOUR=00194A" \o
      ";COMBINING LATIN SMALL LETTER R ROTUNDA=001DE3;LATIN SMALL LETTER W WITH ACUTE=001E83" \o
      ";LATIN SMALL LETTER O WITH CIRCUMFLEX AND GRAVE=001ED3" \o
      ";GREEK CAPITAL LETTER ALPHA WITH DASIA AND VARIA=001F0B;CEDI SIGN=0020B5" \o
      ";SOUTH EAST DOUBLE ARROW=0021D8;WHITE UP POINTING INDEX=00261D;HELMET WITH WHITE CROSS=0026D1" \o
      ";BOTTOM ARC ANTICLOCKWISE ARROW=00293B;LOGICAL OR WITH DOUBLE UNDERBAR=002A63" \o
      ";TIFINAGH SEPARATOR MARK=002D70;KANGXI RADICAL STOPPING=002F89;SQUARE ESUKUUDO=003307" \o
      ";YI SYLLABLE DDUO=00A142;YI SYLLABLE NIEP=00A183;YI SYLLABLE SHAP=00A3AE;YI SYLLABLE JIET=00A3E4" \o
      ";VAI SYLLABLE WIN=00A529;VAI SYLLABLE POO=00A576;COMBINING CYRILLIC LETTER YERU=00A679" \o
      ";BAMUM LETTER RII=00A6AC;BAMUM LETTER KET=00A6BB;SYLOTI NAGRI LETTER JHO=00A80F" \o
      ";MEETEI MAYEK VOWEL SIGN CHEINAP=00ABE9;ARMENIAN SMALL LIGATURE MEN XEH=00FB17" \o
      ";WHITE SESAME DOT=00FE46;LYCIAN LETTER KK=010294;CARIAN LETTER TT=0102C7" \o
      ";LINEAR A SIGN A305=010659;LINEAR A SIGN A314=010666;LINEAR A SIGN A323=01066F" \o
      ";LINEAR A SIGN A332=010678;LINEAR A SIGN A341=010681;LINEAR A SIGN A350=01068A" \o
      ";LINEAR A SIGN A503=0106B5;LINEAR A SIGN A512=0106BD;LINEAR A SIGN A521=0106C2" \o
      ";LINEAR A SIGN A530=0106CA;LINEAR A SIGN A602=010705;LINEAR A SIGN A611=01070C" \o
      ";LINEAR A SIGN A620=010715;LINEAR A SIGN A800=010760;KHAROSHTHI NUMBER ONE THOUSAND=010A47" \o
      ";RUMI DIGIT THREE=010E62;CHORASMIAN NUMBER THREE=010FC7;KHOJKI LETTER AU=011207" \o
      ";AHOM LETTER TTHA=011742;DOGRA LETTER TTA=011814;CUNEIFORM SIGN NUN TENU=012269" \o
      ";BAMUM LETTER PHASE-C PEN=0168EF;BAMUM LETTER PHASE-D MFO=01691D;MRO DANDA=016A6E" \o
      ";TANGSA LETTER UC=016A85;TANGSA LETTER WA=016AA6;MIAO LETTER NYHA=016F2D;MIAO LETTER TSHA=016F2E" \o
      ";VIETNAMESE ALTERNATE READING MARK NHAY=016FF1" \o
      ";BYZANTINE MUSICAL SYMBOL DIASTOLI APLI MEGALI=01D0DB;MATHEMATICAL SANS-SERIF SMALL H=01D5C1" \o
      ";MATHEMATICAL ITALIC SMALL KAPPA=01D705;WANCHO LETTER AU=01E2D6;PLAYING CARD BLACK JOKER=01F0CF" \o
      ";BULLHORN=01F56B;PLACE OF WORSHIP=01F6D0;ALCHEMICAL SYMBOL FOR REGULUS-2=01F733" \o
      ";TAG LATIN SMALL LETTER I=0E0069",
    ";LATIN SMALL LETTER U WITH GRAVE=0000F9;LATIN CAPITAL LETTER S WITH CIRCUMFLEX=00015C" \o
      ";ARABIC LETTER LAM WITH THREE DOTS ABOVE=0006B7;ORIYA LETTER JHA=000B1D;TAMIL NUMBER TEN=000BF0" \o
      ";ETHIOPIC SYLLABLE QHWEE=00125C;CANADIAN SYLLABICS BLACKFOOT NO=0015BA" \o
      ";CANADIAN SYLLABICS CARRIER TLEE=00163D;OGHAM LETTER ONN=001691;RUNIC LETTER CEN=0016B3" \o
      ";COMBINING LATIN SMALL LETTER INSULAR R=001ACD;BALINESE LETTER LA LENGA=001B0D" \o
      ";SUNDANESE SIGN PANYECEK=001B80;MODIFIER LETTER SMALL GREEK PHI=001D60" \o
      ";COMBINING LATIN SMALL LETTER AO=001DD5;PRECEDES UNDER RELATION=0022B0" \o
      ";CIRCLED NUMBER FOURTEEN=00246D;ALMOST EQUAL TO WITH CIRCUMFLEX ACCENT=002A6F" \o
      ";GLAGOLITIC CAPITAL LETTER INITIAL IZHE=002C0A;LEFT SQUARE BRACKET WITH DOUBLE STROKE=002E57" \o
      ";HANGUL LETTER WA=003158;YI SYLLABLE BBUT=00A06C;YI SYLLABLE BBYP=00A075;YI SYLLABLE NBIT=00A076" \o
      ";YI SYLLABLE DDUP=00A14E;YI SYLLABLE HLIP=00A19A;YI SYLLABLE HLAX=00A19F;YI SYLLABLE GIEX=00A1DF" \o
      ";YI SYLLABLE GGOP=00A225;YI SYLLABLE MGAX=00A233;YI SYLLABLE JJIP=00A41B;BAMUM LETTER REN=00A6E1" \o
      ";SYLOTI NAGRI LETTER KHO=00A808;ETHIOPIC SYLLABLE TTHEE=00AB04;VITHKUQI SMALL LETTER I=0105A5" \o
      ";LINEAR A SIGN A306=01065A;LINEAR A SIGN A315=010667;LINEAR A SIGN A324=010670" \o
      ";LINEAR A SIGN A333=010679;LINEAR A SIGN A342=010682;LINEAR A SIGN A351=01068B" \o
      ";LINEAR A SIGN A360=010694;LINEAR A SIGN A504=0106B6;LINEAR A SIGN A513=0106BE" \o
      ";LINEAR A SIGN A531=0106CB;LINEAR A SIGN A540=0106D3;LINEAR A SIGN A603=010706" \o
      ";LINEAR A SIGN A612=01070D;LINEAR A SIGN A621=010716;LINEAR A SIGN A801=010761" \o
      ";AVESTAN LETTER E=010B08;BRAHMI SIGN JIHVAMULIYA=011003;KHOJKI LETTER VA=011228" \o
      ";TAKRI LETTER SHA=0116A7;CUNEIFORM SIGN LU2 CROSSING LU2=012212" \o
      ";CUNEIFORM SIGN NINDA2 TIMES USH=01225F;CUNEIFORM NUMERIC SIGN OLD ASSYRIAN ONE SIXTH=012461" \o
      ";BAMUM LETTER PHASE-A MVEUAENGAM=016810;BAMUM LETTER PHASE-B LET=016889" \o
      ";BAMUM LETTER PHASE-B KIQ=01688D;BAMUM LETTER PHASE-C KET=0168C9;BAMUM LETTER PHASE-E TAM=016972" \o
      ";BAMUM LETTER PHASE-E FOM=0169D3;TANGSA LETTER AX=016A77;TANGSA LETTER VC=016A79" \o
      ";TANGSA LETTER XA=016ABA;BYZANTINE MUSICAL SYMBOL THEMA=01D02D;MUSICAL SYMBOL SHARP UP=01D130" \o
      ";TETRAGRAM FOR GATHERING=01D328;MATHEMATICAL SANS-SERIF SMALL I=01D5C2" \o
      ";MATHEMATICAL ITALIC CAPITAL RHO=01D6F2;WANCHO LETTER VA=01E2D3;WOLF FACE=01F43A;PRINCESS=01F478" \o
      ";BAR CHART=01F4CA;ALCHEMICAL SYMBOL FOR REGULUS-3=01F734;ALCHEMICAL SYMBOL FOR POT ASHES=01F758" \o
      ";TAG LATIN SMALL LETTER J=0E006A",
    ";FORM FEED=00000C;LATIN SMALL LETTER Y WITH ACUTE=0000FD;MODIFIER LETTER RIGHT HALF RING=0002BE" \o
      ";CYRILLIC SMALL LETTER O WITH DIAERESIS=0004E7;ARABIC-INDIC DIGIT SEVEN=000667" \o
      ";SYRIAC LETTER HE=000717;ORIYA LETTER KHA=000B16;TAMIL DIGIT ZERO=000BE6;TELUGU LETTER AA=000C06" \o
      ";SINHALA VOWEL SIGN DIGA KOMBUVA=000DDA;MYANMAR SIGN SHAN TONE-5=001089" \o
      ";HANGUL CHOSEONG PHIEUPH=001111;ETHIOPIC NUMBER HUNDRED=00137B" \o
      ";CANADIAN SYLLABICS NASKAPI SWAA=001504;KHMER DIGIT ZERO=0017E0" \o
      ";BALINESE VOWEL SIGN TALING REPA=001B3F;BALINESE MUSICAL SYMBOL COMBINING GONG=001B73" \o
      ";LATIN SMALL LETTER Y WITH TILDE=001EF9;ASTERISM=002042;SUPERSCRIPT RIGHT PARENTHESIS=00207E" \o
      ";APL FUNCTIONAL SYMBOL COMMA BAR=00236A;RIGHT SQUARE BRACKET EXTENSION=0023A5" \o
      ";Z NOTATION LEFT BINDING BRACKET=002989;SLOPING LARGE OR=002A57" \o
      ";UPWARDS TRIANGLE-HEADED ARROW WITH DOUBLE HORIZONTAL STROKE=002B7B" \o
      ";IDEOGRAPHIC NUMBER ZERO=003007;YI SYLLABLE PIEP=00A03E;YI SYLLABLE HMIP=00A094" \o
      ";YI SYLLABLE HMAX=00A099;YI SYLLABLE LIET=00A1BB;YI SYLLABLE HXIE=00A24C;YI SYLLABLE NGAX=00A261" \o
      ";YI SYLLABLE HIEX=00A26F;YI SYLLABLE CHOT=00A369;YI RADICAL ZZIET=00A4C4;VAI SYLLABLE NYI=00A548" \o
      ";VAI SYLLABLE ROO=00A584;VAI SYLLABLE KPU=00A59F;VAI SYLLABLE SHU=00A5AD" \o
      ";TAI VIET LETTER HIGH KHO=00AA83;LATIN SMALL LETTER X WITH LONG LEFT LEG=00AB57" \o
      ";ARABIC LIGATURE SHEEN WITH MEEM WITH KHAH INITIAL FORM=00FD6B" \o
      ";PRESENTATION FORM FOR VERTICAL LEFT BLACK LENTICULAR BRACKET=00FE3B;CARIAN LETTER UU=0102BF" \o
      ";LINEAR A SIGN A307=01065B;LINEAR A SIGN A316=010668;LINEAR A SIGN A325=010671" \o
      ";LINEAR A SIGN A334=01067A;LINEAR A SIGN A343=010683;LINEAR A SIGN A352=01068C" \o
      ";LINEAR A SIGN A361=010695;LINEAR A SIGN A370=01069E;LINEAR A SIGN A505=0106B7" \o
      ";LINEAR A SIGN A523=0106C3;LINEAR A SIGN A532=0106CC;LINEAR A SIGN A541=0106D4" \o
      ";LINEAR A SIGN A550=0106DA;LINEAR A SIGN A604=010707;LINEAR A SIGN A613=01070E" \o
      ";LINEAR A SIGN A622=010717;LINEAR A SIGN A640=010721;LINEAR A SIGN A802=010762" \o
      ";MODIFIER LETTER SMALL CAPITAL R=0107AA;PALMYRENE LETTER LAMEDH=01086B" \o
      ";MEROITIC CURSIVE NUMBER FOUR THOUSAND=0109DE;KHAROSHTHI VOWEL SIGN U=010A02" \o
      ";OLD HUNGARIAN CAPITAL LETTER OO=010C9C;TAKRI LETTER NNA=011698;TAKRI LETTER THA=01169A" \o
      ";TAKRI DIGIT FOUR=0116C4;CUNEIFORM SIGN NINDA2 TIMES NUN=012259;BAMUM LETTER PHASE-D KET=016904" \o
      ";BAMUM LETTER PHASE-D SAP=016907;BAMUM LETTER PHASE-D RII=01694E;BAMUM LETTER PHASE-F FOM=016A2B" \o
      ";TANGSA LETTER IQ=016A82;TANGSA LETTER YA=016AA5;MATHEMATICAL SANS-SERIF SMALL J=01D5C3" \o
      ";MATHEMATICAL ITALIC CAPITAL TAU=01D6F5" \o
      ";SIGNWRITING MOVEMENT-FLOORPLANE FINGER CIRCLES HITTING WALL SINGLE=01D9F3" \o
      ";SIGNWRITING MOUTH OPEN RECTANGLE YAWN=01DA4C;WANCHO LETTER WA=01E2D2" \o
      ";ARABIC MATHEMATICAL KHAH=01EE17;INPUT SYMBOL FOR LATIN LETTERS=01F524;FRAME WITH TILES=01F5BD" \o
      ";ALCHEMICAL SYMBOL FOR VITRIOL-2=01F717;ALCHEMICAL SYMBOL FOR REGULUS-4=01F735" \o
      ";WIDE-HEADED NORTH EAST HEAVY BARB ARROW=01F87D;GUIDE DOG=01F9AE;TAG SPACE=0E0020" \o
      ";TAG LATIN SMALL LETTER K=0E006B",
    ";LATIN CAPITAL LETTER U WITH CIRCUMFLEX=0000DB;LATIN SMALL LETTER Z WITH ACUTE=00017A" \o
      ";COMBINING GREEK KORONIS=000343;CYRILLIC CAPITAL LETTER KA WITH STROKE=00049E" \o
      ";ARABIC LETTER YEH BARREE=0006D2;THAANA LETTER SHAVIYANI=000781;TAMIL RUPEE SIGN=000BF9" \o
      ";TELUGU LETTER BA=000C2C;TELUGU DIGIT ONE=000C67;THAI CHARACTER KHO KHWAI=000E04" \o
      ";MYANMAR SIGN SHAN TONE-6=00108A;ETHIOPIC SYLLABLE KXWAA=0012C3" \o
      ";CANADIAN SYLLABICS NASKAPI TWAA=001465;RUNIC LETTER EAR=0016E0;HANUNOO LETTER A=001720" \o
      ";KHMER LETTER KHO=001783;COMBINING LATIN SMALL LETTER INSULAR T=001ACE" \o
      ";LATIN SMALL LETTER W WITH GRAVE=001E81;GREEK CAPITAL LETTER OMEGA WITH DASIA AND VARIA=001F6B" \o
      ";MULTIMAP=0022B8;SYMBOL FOR SPACE=002420;PARENTHESIZED DIGIT ONE=002474;ICE SKATE=0026F8" \o
      ";VERTICAL LINE WITH CIRCLE BELOW=002AF0;LEFTWARDS TWO-HEADED TRIPLE DASH ARROW=002B37" \o
      ";HANGUL LETTER YA=003151;HANGUL LETTER EU=003161;CIRCLED HANGUL PHIEUPH A=00327A" \o
      ";YI SYLLABLE NBOP=00A084;YI SYLLABLE DDOX=00A145;YI SYLLABLE DDUR=00A150;YI SYLLABLE NDIT=00A151" \o
      ";YI SYLLABLE NDEX=00A15F;YI SYLLABLE HNIP=00A16B;YI SYLLABLE HNAX=00A171;YI SYLLABLE GGIX=00A215" \o
      ";YI SYLLABLE CHUO=00A367;YI SYLLABLE QIEP=00A403;VAI SYLLABLE SOO=00A587;VAI SYLLABLE THU=00A5A5" \o
      ";VAI SYLLABLE ZHO=00A5D6;BAMUM LETTER TEN=00A6EA" \o
      ";PRESENTATION FORM FOR VERTICAL IDEOGRAPHIC FULL STOP=00FE12;OSMANYA LETTER A=010496" \o
      ";OSAGE CAPITAL LETTER CHA=0104B5;LINEAR A SIGN A308=01065C;LINEAR A SIGN A317=010669" \o
      ";LINEAR A SIGN A326=010672;LINEAR A SIGN A335=01067B;LINEAR A SIGN A344=010684" \o
      ";LINEAR A SIGN A353=01068D;LINEAR A SIGN A362=010696;LINEAR A SIGN A371=01069F" \o
      ";LINEAR A SIGN A506=0106B8;LINEAR A SIGN A515=0106BF;LINEAR A SIGN A524=0106C4" \o
      ";LINEAR A SIGN A542=0106D5;LINEAR A SIGN A551=0106DB;LINEAR A SIGN A614=01070F" \o
      ";LINEAR A SIGN A623=010718;LINEAR A SIGN A803=010763;OLD SOUTH ARABIAN LETTER SAMEKH=010A6F" \o
      ";OLD HUNGARIAN CAPITAL LETTER EZ=010CAF;HANIFI ROHINGYA LETTER KINNA WA=010D17" \o
      ";YEZIDI LETTER JA=010E90;WARANG CITI CAPITAL LETTER HOLO=0118BA" \o
      ";CUNEIFORM NUMERIC SIGN TWO BAN2=012450;BAMUM LETTER PHASE-C LIQ=0168ED" \o
      ";BAMUM LETTER PHASE-D LET=016930;BAMUM LETTER PHASE-D SAQ=016964;BAMUM LETTER PHASE-E RAQ=01696E" \o
      ";BAMUM LETTER PHASE-E KET=0169B7;TANGSA LETTER AZ=016A74;TANGSA LETTER ZA=016ABE" \o
      ";TANGSA DIGIT TWO=016AC2;ZNAMENNY COMBINING MARK TSATA ON RIGHT=01CF0E" \o
      ";MATHEMATICAL SANS-SERIF SMALL K=01D5C4;MATHEMATICAL SANS-SERIF BOLD ITALIC SMALL ZETA=01D7AF" \o
      ";COMBINING GLAGOLITIC LETTER IOTATED SMALL YUS=01E027" \o
      ";NYIAKENG PUACHUE HMONG SIGN FOR PERSON=01E137;WANCHO NGUN SIGN=01E2FF" \o
      ";ADLAM CAPITAL LETTER SHA=01E921;ARABIC MATHEMATICAL LOOPED NOON=01EE8D" \o
      ";BEAMED DESCENDING MUSICAL NOTES=01F39D;REVERSED THUMBS UP SIGN=01F592;TAG COMMA=0E002C" \o
      ";TAG LATIN SMALL LETTER L=0E006C",
    ";LATIN SMALL LETTER Z WITH CARON=00017E;COMBINING TILDE OVERLAY=000334" \o
      ";ARABIC LETTER TAH WITH THREE DOTS ABOVE=00069F;ARABIC LETTER DAL WITH THREE DOTS BELOW=0008AE" \o
      ";ORIYA LETTER NGA=000B19;TELUGU LETTER CA=000C1A;MYANMAR LETTER E=001027" \o
      ";HANGUL JONGSEONG RIEUL-PHIEUPH=0011B5;CANADIAN SYLLABICS WEST-CREE WO=001413" \o
      ";CANADIAN SYLLABICS NASKAPI SCWA=00150F;CANADIAN SYLLABICS BLACKFOOT WI=0015B5" \o
      ";CANADIAN SYLLABICS CARRIER TLHE=001636;LIMBU DIGIT ZERO=001946" \o
      ";LATIN CAPITAL LETTER A WITH BREVE AND DOT BELOW=001EB6;TRICOLON=00205D;INFINITY=00221E" \o
      ";SYMBOL FOR VERTICAL TABULATION=00240B;SYMBOL FOR END OF MEDIUM=002419" \o
      ";WHITE FOUR POINTED STAR=002727;DINGBAT NEGATIVE CIRCLED SANS-SERIF DIGIT FOUR=00278D" \o
      ";SUBSET WITH MULTIPLICATION SIGN BELOW=002AC1;COPTIC OLD NUBIAN VERSE DIVIDER=002CFC" \o
      ";YI SYLLABLE CHUP=00A373;YI SYLLABLE SHAT=00A3AB;YI SYLLABLE SHEP=00A3B9;YI SYLLABLE JIEX=00A3E5" \o
      ";VAI SYLLABLE TOO=00A57F;TAI VIET LETTER HIGH NGO=00AA89;HEBREW LETTER TSADI WITH DAGESH=00FB46" \o
      ";ARABIC LETTER NOON INITIAL FORM=00FEE7;ARABIC LETTER WAW ISOLATED FORM=00FEED" \o
      ";AEGEAN CHECK MARK=010102;LYCIAN LETTER MM=010290;COMBINING OLD PERMIC LETTER SII=01037A" \o
      ";OSAGE CAPITAL LETTER DHA=0104CD;LINEAR A SIGN A318=01066A;LINEAR A SIGN A327=010673" \o
      ";LINEAR A SIGN A336=01067C;LINEAR A SIGN A345=010685;LINEAR A SIGN A354=01068E" \o
      ";LINEAR A SIGN A363=010697;LINEAR A SIGN A516=0106C0;LINEAR A SIGN A525=0106C5" \o
      ";LINEAR A SIGN A534=0106CD;LINEAR A SIGN A552=0106DC;LINEAR A SIGN A570=0106E9" \o
      ";LINEAR A SIGN A606=010708;LINEAR A SIGN A615=010710;LINEAR A SIGN A624=010719" \o
      ";LINEAR A SIGN A642=010722;LINEAR A SIGN A651=010729;LINEAR A SIGN A660=010732" \o
      ";LINEAR A SIGN A804=010764;RUMI NUMBER TWO HUNDRED=010E73;KHOJKI LETTER YA=011225" \o
      ";GRANTHA LETTER U=011309;MODI LETTER TTHA=011619;TAKRI LETTER ARCHAIC KHA=0116B8" \o
      ";BAMUM LETTER PHASE-A PET=01682A;BAMUM LETTER PHASE-C PIN=0168EE;BAMUM LETTER PHASE-F RII=016A0B" \o
      ";BAMUM LETTER PHASE-F KET=016A17;BYZANTINE MUSICAL SYMBOL DIPLI=01D086" \o
      ";TETRAGRAM FOR SEVERANCE=01D34B;MATHEMATICAL SANS-SERIF SMALL L=01D5C5" \o
      ";MATHEMATICAL ITALIC CAPITAL PSI=01D6F9;MATHEMATICAL ITALIC SMALL SIGMA=01D70E" \o
      ";SIGNWRITING HAND-HOOK CURLICUE=01D86A;WANCHO LETTER YA=01E2C6" \o
      ";MENDE KIKAKUI SYLLABLE M058 NYAN=01E8C1;ARABIC MATHEMATICAL DOUBLE-STRUCK NOON=01EEAD" \o
      ";HARD DISK=01F5B4;TAG LATIN SMALL LETTER M=0E006D",
    ";LATIN CAPITAL LETTER W WITH CIRCUMFLEX=000174;LATIN CAPITAL LETTER REVERSED E=00018E" \o
      ";LATIN SMALL LETTER U BAR=000289;LATIN SMALL LETTER DEZH DIGRAPH=0002A4" \o
      ";COMBINING LONG SOLIDUS OVERLAY=000338;ARABIC SEMICOLON=00061B" \o
      ";ARABIC LETTER KAF WITH THREE DOTS BELOW=0006AE;TELUGU LETTER DA=000C26" \o
      ";KANNADA LETTER VOCALIC L=000C8C;TIBETAN DIGIT HALF THREE=000F2C;RUNIC LETTER ENG=0016B6" \o
      ";RUNIC LETTER GAR=0016B8;KHMER LETTER NGO=001784" \o
      ";COMBINING STRONG CENTRALIZATION STROKE BELOW=001ABA;MODIFIER LETTER SMALL CAPITAL U=001DB8" \o
      ";LATIN SMALL LETTER Y WITH GRAVE=001EF3;SUBSCRIPT MINUS=00208B;SUCCEEDS UNDER RELATION=0022B1" \o
      ";CURLY LOGICAL OR=0022CE;PASSIVE-PULL-UP-OUTPUT SYMBOL=002392;OCR CHAIR=002441;AQUARIUS=002652" \o
      ";MOUNTAIN=0026F0;LEFTWARDS ARROW ABOVE REVERSE ALMOST EQUAL TO=002B42" \o
      ";DOWNWARDS TRIANGLE-HEADED DASHED ARROW=002B6D;WHITE FOUR POINTED CUSP=002BCE" \o
      ";KATAKANA-HIRAGANA DOUBLE HYPHEN=0030A0;HANGUL LETTER WE=00315E" \o
      ";HANGUL LETTER RIEUL-PIEUP-SIOS=00316B;YI SYLLABLE BBUX=00A06D;YI SYLLABLE BBYT=00A072" \o
      ";YI SYLLABLE NBIX=00A077;YI SYLLABLE DDUT=00A14B;YI SYLLABLE NDOP=00A15E;YI SYLLABLE HLIT=00A197" \o
      ";YI SYLLABLE HLEX=00A1A8;YI SYLLABLE KIEX=00A1FC;YI SYLLABLE GGOT=00A222;YI SYLLABLE MGEX=00A23D" \o
      ";YI SYLLABLE HXAP=00A251;YI SYLLABLE SIEP=00A30F;YI SYLLABLE NRAP=00A397;YI SYLLABLE JJIT=00A418" \o
      ";YI SYLLABLE NJIP=00A434;SAURASHTRA VOWEL SIGN O=00A8C1;LINEAR A SIGN A319=01066B" \o
      ";LINEAR A SIGN A328=010674;LINEAR A SIGN A337=01067D;LINEAR A SIGN A346=010686" \o
      ";LINEAR A SIGN A355=01068F;LINEAR A SIGN A364=010698;LINEAR A SIGN A508=0106B9" \o
      ";LINEAR A SIGN A526=0106C6;LINEAR A SIGN A535=0106CE;LINEAR A SIGN A553=0106DD" \o
      ";LINEAR A SIGN A571=0106EA;LINEAR A SIGN A580=0106F3;LINEAR A SIGN A616=010711" \o
      ";LINEAR A SIGN A634=01071E;LINEAR A SIGN A643=010723;LINEAR A SIGN A652=01072A" \o
      ";LINEAR A SIGN A661=010733;LINEAR A SIGN A805=010765;AVESTAN LETTER I=010B0C" \o
      ";HANIFI ROHINGYA LETTER KINNA YA=010D19;MULTANI LETTER A=011280;NEWA LETTER NYHA=011419" \o
      ";BAMUM LETTER PHASE-E TAQ=0169DC;BAMUM LETTER PHASE-F REN=016A31;TANGSA LETTER EX=016A7F" \o
      ";ZNAMENNY NEUME GOLUBCHIK TIKHY=01CF5F;MUSICAL SYMBOL SEMIMINIMA REST=01D1C6" \o
      ";MATHEMATICAL SANS-SERIF SMALL M=01D5C6;SIGNWRITING HAND-HINGE FOUR FINGERS CONJOINED=01D84B" \o
      ";SIGNWRITING HAND-CURLICUE OPEN=01D874" \o
      ";SIGNWRITING HAND-HOOK MIDDLE RING LITTLE CONJOINED IN=01D8D9;SIGNWRITING EXCITEMENT=01DA6C" \o
      ";NYIAKENG PUACHUE HMONG LETTER A=01E124;WANCHO LETTER ZA=01E2D1;WANCHO DIGIT TWO=01E2F2" \o
      ";INDIC SIYAQ NUMBER FIVE HUNDRED=01EC87;INDIC SIYAQ NUMBER NINE HUNDRED=01EC8B;LOLLIPOP=01F36D" \o
      ";THIN GREEK CROSS=01F7A1;HEAVY UPWARDS ARROW WITH LARGE EQUILATERAL ARROWHEAD=01F81D" \o
      ";WIDE-HEADED SOUTH EAST LIGHT BARB ARROW=01F866;NEGATIVE SQUARED QUESTION MARK=01FBC4" \o
      ";TAG LATIN SMALL LETTER N=0E006E",
    ";ARABIC LETTER FEH WITH THREE DOTS BELOW=0006A5;TAMIL LETTER RRA=000BB1" \o
      ";SINHALA SIGN ANUSVARAYA=000D82;HANGUL JONGSEONG PIEUP-PHIEUPH=0011E4" \o
      ";HANGUL JONGSEONG PHIEUPH-PIEUP=0011F3;ZERO WIDTH SPACE=00200B;PROPORTIONAL TO=00221D" \o
      ";GREATER-THAN WITH CIRCLE INSIDE=002A7A;LEFT DOUBLE PARENTHESIS=002E28;CJK RADICAL CLIFF=002E81" \o
      ";GETA MARK=003013;YI SYLLABLE HMIT=00A091;YI SYLLABLE TIEP=00A120;YI SYLLABLE LIEX=00A1BC" \o
      ";YI SYLLABLE GGUO=00A220;YI SYLLABLE NGEX=00A26B;YI SYLLABLE CHOX=00A36A;YI SYLLABLE CHUR=00A375" \o
      ";VAI SYLLABLE VOO=00A57E;VAI SYLLABLE WON=00A5C0;BAMUM LETTER PUE=00A6C8;BAMUM LETTER SHO=00A6D6" \o
      ";SYLOTI NAGRI LETTER PHO=00A81A;HEBREW LETTER SHIN WITH SIN DOT=00FB2B;LYCIAN LETTER TH=010289" \o
      ";LYCIAN LETTER NN=010291;LINEAR A SIGN A329=010675;LINEAR A SIGN A338=01067E" \o
      ";LINEAR A SIGN A347=010687;LINEAR A SIGN A356=010690;LINEAR A SIGN A365=010699" \o
      ";LINEAR A SIGN A509=0106BA;LINEAR A SIGN A527=0106C7;LINEAR A SIGN A536=0106CF" \o
      ";LINEAR A SIGN A545=0106D6;LINEAR A SIGN A554=0106DE;LINEAR A SIGN A563=0106E3" \o
      ";LINEAR A SIGN A572=0106EB;LINEAR A SIGN A581=0106F4;LINEAR A SIGN A608=010709" \o
      ";LINEAR A SIGN A617=010712;LINEAR A SIGN A626=01071A;LINEAR A SIGN A644=010724" \o
      ";LINEAR A SIGN A653=01072B;LINEAR A SIGN A662=010734;LINEAR A SIGN A806=010766" \o
      ";NEWA LETTER TTHA=01141B;TAKRI DIGIT ZERO=0116C0;MASARAM GONDI LETTER DDA=011D18" \o
      ";GUNJALA GONDI LETTER DDA=011D82;TAMIL TOTAL SIGN=011FED;BAMUM LETTER PHASE-C NZA=016890" \o
      ";BAMUM LETTER PHASE-D WAP=0168F2;BAMUM LETTER PHASE-E TEN=016A00;TANGSA LETTER MQ=016A9E" \o
      ";MIAO LETTER ZSHA=016F36;DUPLOYAN AFFIX HIGH TIGHT ACUTE=01BC81" \o
      ";BYZANTINE MUSICAL SYMBOL ANATRICHISMA=01D028;MATHEMATICAL SANS-SERIF SMALL N=01D5C7" \o
      ";SIGNWRITING HAND-FIST INDEX HINGED LOW=01D80C;CIRCLED TRIANGLE=01F7D5" \o
      ";NEGATIVE DIAGONAL MIDDLE RIGHT TO LOWER CENTRE=01FBBE;TAG LATIN SMALL LETTER O=0E006F",
    ";LATIN CAPITAL LETTER Y WITH CIRCUMFLEX=000176;GREEK RHO SYMBOL=0003F1" \o
      ";ARABIC LETTER REH WITH SMALL NOON ABOVE=0008B9;ORIYA LETTER PHA=000B2B;ORIYA LETTER LLA=000B33" \o
      ";HANGUL JUNGSEONG FILLER=001160;ETHIOPIC TONAL MARK DERET-HIDET=001398" \o
      ";RUNIC LETTER FRANKS CASKET AESC=0016F8;BALINESE LETTER PA KAPAL=001B28" \o
      ";APL FUNCTIONAL SYMBOL DEL TILDE=00236B;BOX DRAWINGS DOUBLE HORIZONTAL=002550" \o
      ";WHITE CHESS PAWN=002659;DINGBAT NEGATIVE CIRCLED SANS-SERIF NUMBER TEN=002793" \o
      ";RIGHTWARDS ARROW THROUGH GREATER-THAN=002B43;HANGUL LETTER YE=003156;YI SYLLABLE NBOT=00A081" \o
      ";YI SYLLABLE MIEX=00A0B2;YI SYLLABLE NDIX=00A152;YI SYLLABLE HNIT=00A168;YI SYLLABLE HNEX=00A179" \o
      ";YI SYLLABLE HLOP=00A1A7;YI SYLLABLE GGUP=00A22D;YI SYLLABLE MGOP=00A23C;YI SYLLABLE ZHAP=00A349" \o
      ";YI SYLLABLE QIET=00A400;YI SYLLABLE JJOP=00A426;VAI SYLLABLE WOO=00A574;VAI COMMA=00A60D" \o
      ";VAI SYMBOL DOONG=00A61B;TAI VIET LETTER HIGH PHO=00AA9F;OSMANYA LETTER E=010497" \o
      ";OSAGE CAPITAL LETTER GHA=0104D1;VITHKUQI SMALL LETTER O=0105AE;LINEAR A SIGN A339=01067F" \o
      ";LINEAR A SIGN A348=010688;LINEAR A SIGN A357=010691;LINEAR A SIGN A366=01069A" \o
      ";LINEAR A SIGN A528=0106C8;LINEAR A SIGN A537=0106D0;LINEAR A SIGN A555=0106DF" \o
      ";LINEAR A SIGN A564=0106E4;LINEAR A SIGN A573=0106EC;LINEAR A SIGN A582=0106F5" \o
      ";LINEAR A SIGN A591=0106FD;LINEAR A SIGN A609=01070A;LINEAR A SIGN A618=010713" \o
      ";LINEAR A SIGN A627=01071B;LINEAR A SIGN A645=010725;LINEAR A SIGN A654=01072C" \o
      ";LINEAR A SIGN A663=010735;LINEAR A SIGN A807=010767;LYDIAN LETTER NN=010938" \o
      ";BRAHMI LETTER UU=01100A;SIDDHAM SECTION MARK WITH CIRCLES AND FOUR ENCLOSURES=0115D7" \o
      ";BHAIKSUKI SIGN ANUSVARA=011C3D;BAMUM LETTER PHASE-C NSUOT NGOM=0168C7" \o
      ";BAMUM LETTER PHASE-D PIP=01692D;BAMUM LETTER PHASE-E LOM=01697B;TANGSA LETTER EZ=016A7C" \o
      ";PAHAWH HMONG SIGN CIM TXWV CHWV=016B75;ZNAMENNY NEUME SKAMEYTSA KLYUCHEVAYA TIKHAYA=01CF78" \o
      ";BYZANTINE MUSICAL SYMBOL TROMIKON NEO=01D063;MATHEMATICAL SANS-SERIF SMALL O=01D5C8" \o
      ";WANCHO LETTER ON=01E2E6;MENDE KIKAKUI SYLLABLE M128 HOOU=01E870;MENDE KIKAKUI DIGIT FIVE=01E8CB" \o
      ";MENDE KIKAKUI DIGIT NINE=01E8CF;ARABIC MATHEMATICAL JEEM=01EE02;ROUNDED SYMBOL FOR SHOU=01F262" \o
      ";RED APPLE=01F34E;CLOCK FACE TWELVE OCLOCK=01F55B;MOON CAKE=01F96E;SCORPION=01F982" \o
      ";SAUROPOD=01F995;ANATOMICAL HEART=01FAC0;TAG LATIN SMALL LETTER P=0E0070",
    ";MODIFIER LETTER VOICING=0002EC;COMBINING ALMOST EQUAL TO ABOVE=00034C" \o
      ";CYRILLIC SMALL LETTER U WITH DIAERESIS=0004F1;SYRIAC DOTTED ZLAMA HORIZONTAL=000738" \o
      ";TAMIL LETTER SSA=000BB7;TAMIL MONTH SIGN=000BF4;TELUGU LETTER GA=000C17;MYANMAR LETTER I=001023" \o
      ";CANADIAN SYLLABICS NASKAPI YWAA=00153D;CANADIAN SYLLABICS CARRIER TLHI=001638" \o
      ";CANADIAN SYLLABICS CARRIER TSEE=00165E;KHMER LETTER PHO=001797" \o
      ";COMBINING LATIN SMALL LETTER AV=001DD6;LATIN CAPITAL LETTER S WITH ACUTE AND DOT ABOVE=001E64" \o
      ";LATIN CAPITAL LETTER Z WITH CIRCUMFLEX=001E90;GREEK DIALYTIKA AND OXIA=001FEE" \o
      ";TIRONIAN SIGN ET=00204A;POP DIRECTIONAL ISOLATE=002069;LEFT TACK=0022A3;PERSON WITH BALL=0026F9" \o
      ";TELEPHONE LOCATION SIGN=002706;CIRCLED X=002BBE" \o
      ";RIGHTWARDS TWO-HEADED ARROW WITH TRIANGLE ARROWHEADS=002BEE;CJK RADICAL DEATH=002E9E" \o
      ";KATAKANA LETTER SMALL HA=0031F5;HEXAGRAM FOR LIMITATION=004DFB;YI SYLLABLE HMOP=00A0A2" \o
      ";YI SYLLABLE VIEP=00A0E9;YI SYLLABLE NIEX=00A181;YI SYLLABLE NGOP=00A26A;YI SYLLABLE SSIE=00A32F" \o
      ";YI SYLLABLE CHYP=00A379;YI SYLLABLE SHAX=00A3AC;YI SYLLABLE SHET=00A3B6;VAI SYLLABLE NYO=00A5E0" \o
      ";CYRILLIC CAPITAL LETTER SOFT DE=00A662;BAMUM LETTER LOQ=00A6DE" \o
      ";LATIN CAPITAL LETTER VOLAPUK AE=00A79A;TAI VIET MAI KANG=00AAB0" \o
      ";ARABIC LIGATURE RADI ALLAAHU ANH=00FD41;CAUCASIAN ALBANIAN LETTER GHEYS=010558" \o
      ";LINEAR A SIGN A349=010689;LINEAR A SIGN A358=010692;LINEAR A SIGN A367=01069B" \o
      ";LINEAR A SIGN A529=0106C9;LINEAR A SIGN A538=0106D1;LINEAR A SIGN A547=0106D7" \o
      ";LINEAR A SIGN A556=0106E0;LINEAR A SIGN A565=0106E5;LINEAR A SIGN A574=0106ED" \o
      ";LINEAR A SIGN A583=0106F6;LINEAR A SIGN A592=0106FE;LINEAR A SIGN A619=010714" \o
      ";LINEAR A SIGN A628=01071C;LINEAR A SIGN A637=01071F;LINEAR A SIGN A646=010726" \o
      ";LINEAR A SIGN A655=01072D;LINEAR A SIGN A664=010736;BHAIKSUKI NUMBER EIGHTY=011C6A" \o
      ";MASARAM GONDI LETTER BHA=011D23;MASARAM GONDI DIGIT FIVE=011D55;MASARAM GONDI DIGIT NINE=011D59" \o
      ";GUNJALA GONDI LETTER BHA=011D6F;GUNJALA GONDI DIGIT FIVE=011DA5;GUNJALA GONDI DIGIT NINE=011DA9" \o
      ";CUNEIFORM SIGN LU2 OPPOSING LU2=012213;CUNEIFORM SIGN SHESHLAM=0122C2;CUNEIFORM SIGN U=01230B" \o
      ";CUNEIFORM NUMERIC SIGN ONE QUARTER ASH=012460;EGYPTIAN HIEROGLYPH A001=013000" \o
      ";EGYPTIAN HIEROGLYPH A010=01300C;TANGSA LETTER OQ=016A72;TANGSA LETTER SHORT AWX=016A93" \o
      ";DUPLOYAN LETTER SLOAN U=01BC58;BYZANTINE MUSICAL SYMBOL LEMOI=01D02E" \o
      ";MATHEMATICAL SANS-SERIF SMALL P=01D5C9;MENDE KIKAKUI SYLLABLE M189 MUEN=01E81A" \o
      ";DINGBAT NEGATIVE CIRCLED SANS-SERIF DIGIT ZERO=01F10C;CHESTNUT=01F330;DOUGHNUT=01F369" \o
      ";ALCHEMICAL SYMBOL FOR STRATUM SUPER STRATUM-2=01F75D" \o
      ";BLACK RIGHT-POINTING ISOSCELES RIGHT TRIANGLE=01F782;HORIZONTAL ONE EIGHTH BLOCK-1358=01FB81" \o
      ";TAG LATIN SMALL LETTER Q=0E0071;TAG TILDE=0E007E",
    ";THAANA OOBOOFILI=0007AB;THAANA EYBEYFILI=0007AD;BENGALI LETTER VOCALIC L=00098C" \o
      ";ORIYA LETTER RHA=000B5D;TAMIL LETTER NYA=000B9E;TELUGU LETTER HA=000C39" \o
      ";CANADIAN SYLLABICS CARRIER TTEE=0015E5;RUNIC LETTER GER=0016C4;RUNIC LETTER ING=0016DD" \o
      ";LATIN CAPITAL LETTER S WITH CARON AND DOT ABOVE=001E66" \o
      ";GREEK SMALL LETTER OMICRON WITH PSILI AND OXIA=001F44;RESPONSE=00211F;TRIGRAM FOR WIND=002634" \o
      ";TURNED BLACK SHOGI PIECE=0026CA;THREE CONSECUTIVE EQUALS SIGNS=002A76;HANGUL LETTER WI=00315F" \o
      ";YI SYLLABLE BBYX=00A073;YI SYLLABLE NBUP=00A088;YI SYLLABLE DDUX=00A14C;YI SYLLABLE NDOT=00A15B" \o
      ";YI SYLLABLE HNOP=00A178;YI SYLLABLE HLIX=00A198;YI SYLLABLE GGOX=00A223;YI SYLLABLE GGUR=00A22F" \o
      ";YI SYLLABLE HXAT=00A24E;YI SYLLABLE HXEP=00A25C;YI SYLLABLE NRAT=00A394;YI SYLLABLE NREP=00A39E" \o
      ";YI SYLLABLE JJIX=00A419;YI SYLLABLE NJIT=00A431;YI SYLLABLE NYIE=00A450;VAI SYLLABLE YOO=00A58E" \o
      ";VAI SYLLABLE ZHU=00A5AF;BAMUM LETTER TET=00A6E8;JAVANESE SIGN CECAK TELU=00A9B3" \o
      ";LINEAR A SIGN A359=010693;LINEAR A SIGN A368=01069C;LINEAR A SIGN A539=0106D2" \o
      ";LINEAR A SIGN A548=0106D8;LINEAR A SIGN A557=0106E1;LINEAR A SIGN A566=0106E6" \o
      ";LINEAR A SIGN A575=0106EE;LINEAR A SIGN A584=0106F7;LINEAR A SIGN A629=01071D" \o
      ";LINEAR A SIGN A638=010720;LINEAR A SIGN A656=01072E;MODIFIER LETTER SMALL CAPITAL Y=0107B2" \o
      ";PALMYRENE LETTER DALETH=010863;NABATAEAN NUMBER TWENTY=0108AE;RUMI DIGIT SEVEN=010E66" \o
      ";MULTANI LETTER E=011283;TAKRI SIGN NUKTA=0116B7;WARANG CITI CAPITAL LETTER NUNG=0118B3" \o
      ";CANADIAN SYLLABICS NATTILIK HII=011AB1;MASARAM GONDI LETTER CHA=011D12" \o
      ";GUNJALA GONDI LETTER CHA=011D7C;CUNEIFORM SIGN LAGAB TIMES MUSH=0121DA" \o
      ";EGYPTIAN HIEROGLYPH A002=013001;EGYPTIAN HIEROGLYPH A011=01300D;EGYPTIAN HIEROGLYPH A020=013018" \o
      ";EGYPTIAN HIEROGLYPH B001=013050;BAMUM LETTER PHASE-A ROM=01683A;BAMUM LETTER PHASE-B PIT=016867" \o
      ";BAMUM LETTER PHASE-B SUE=01687D;BAMUM LETTER PHASE-E YAP=0169AC;BAMUM LETTER PHASE-E PUE=0169E9" \o
      ";BAMUM LETTER PHASE-E SHO=0169F3;BAMUM LETTER PHASE-E MON=0169FF;TANGSA LETTER IX=016A83" \o
      ";MIAO LETTER DZZA=016F2B;BYZANTINE MUSICAL SYMBOL ARGON=01D097" \o
      ";MATHEMATICAL SANS-SERIF SMALL Q=01D5CA;MATHEMATICAL ITALIC SMALL THETA=01D703" \o
      ";SIGNWRITING HAND-CIRCLE=01D876;SIGNWRITING HAND-FIST INDEX THUMB SIDE THUMB DIAGONAL=01D8DE" \o
      ";NYIAKENG PUACHUE HMONG LETTER E=01E12A" \o
      ";NEUTRAL CHESS KNIGHT ROTATED ONE HUNDRED THIRTY-FIVE DEGREES=01FA1D" \o
      ";TAG LATIN SMALL LETTER R=0E0072",
    ";GREEK CAPITAL LETTER CHI=0003A7;CYRILLIC SMALL LETTER GHE WITH STROKE AND HOOK=0004FB" \o
      ";SYRIAC LETTER PE=000726;ORIYA LETTER SHA=000B36;TAMIL LETTER TTA=000B9F;TELUGU LETTER EE=000C0F" \o
      ";TELUGU LETTER AI=000C10;HANGUL CHOSEONG THIEUTH=001110;HANGUL JONGSEONG NIEUN-THIEUTH=0011C9" \o
      ";HANGUL JONGSEONG MIEUM-PANSIOS=0011DF;CANADIAN SYLLABICS BLACKFOOT WO=0015B6" \o
      ";RUNIC LETTER GEBO GYFU G=0016B7;LIMBU LETTER SSA=00191A;LIMBU LETTER TRA=00191E" \o
      ";MODIFIER LETTER SMALL TURNED AE=001D46;MALE SIGN=002642;MUSIC SHARP SIGN=00266F" \o
      ";RUSSIAN ASTROLOGICAL SYMBOL TREDECILE=002BF8;CJK RADICAL TABLE=002E87" \o
      ";IDEOGRAPHIC DESCRIPTION CHARACTER SURROUND FROM UPPER RIGHT=002FF9" \o
      ";HIRAGANA LETTER SMALL KA=003095;IDEOGRAPHIC TELEGRAPH SYMBOL FOR APRIL=0032C3" \o
      ";YI SYLLABLE BUOP=00A024;YI SYLLABLE PIEX=00A03C;YI SYLLABLE HMIX=00A092;YI SYLLABLE NZIE=00A2F2" \o
      ";YI SYLLABLE CHYR=00A37B;YI SYLLABLE XIEP=00A464;VAI SYLLABLE ZOO=00A589" \o
      ";SYLOTI NAGRI LETTER THO=00A815;MYANMAR LETTER SHWE PALAUNG CHA=00AA7E" \o
      ";ARABIC LIGATURE SHEEN WITH MEEM WITH MEEM INITIAL FORM=00FD6D;LINEAR A SIGN A369=01069D" \o
      ";LINEAR A SIGN A549=0106D9;LINEAR A SIGN A576=0106EF;LINEAR A SIGN A585=0106F8" \o
      ";LINEAR A SIGN A594=0106FF;LINEAR A SIGN A648=010727;LINEAR A SIGN A657=01072F" \o
      ";TAKRI LETTER RRA=0116AA;WARANG CITI CAPITAL LETTER HIYO=0118B9;MASARAM GONDI LETTER DHA=011D1E" \o
      ";GUNJALA GONDI LETTER DHA=011D79;EGYPTIAN HIEROGLYPH A003=013002;EGYPTIAN HIEROGLYPH A012=01300E" \o
      ";EGYPTIAN HIEROGLYPH A021=013019;EGYPTIAN HIEROGLYPH A030=013022;EGYPTIAN HIEROGLYPH B002=013051" \o
      ";EGYPTIAN HIEROGLYPH C001=01305A;EGYPTIAN HIEROGLYPH C010=013066;BAMUM LETTER PHASE-C TET=0168F0" \o
      ";BAMUM LETTER PHASE-D YEN=01690D;BAMUM LETTER PHASE-D LOQ=01695F;BAMUM LETTER PHASE-F SHO=016A29" \o
      ";DUPLOYAN THICK LETTER SELECTOR=01BC9D;ZNAMENNY NEUME STOPITSA WITH SOROCHYA NOZHKA=01CF5A" \o
      ";MATHEMATICAL SANS-SERIF SMALL R=01D5CB;MATHEMATICAL DOUBLE-STRUCK DIGIT EIGHT=01D7E0" \o
      ";SIGNWRITING HAND-FIST INDEX THUMB SIDE=01D8DC;MENDE KIKAKUI SYLLABLE M187 MBUU=01E89B" \o
      ";MENDE KIKAKUI SYLLABLE M164 NYIN=01E8C0;INDIC SIYAQ NUMBER PREFIXED ONE=01ECA3" \o
      ";ARABIC MATHEMATICAL MEEM=01EE0C;NEGATIVE CIRCLED LATIN CAPITAL LETTER A=01F150;JOYSTICK=01F579" \o
      ";THREE RAYS BELOW=01F5E5;GRINNING FACE WITH SMILING EYES=01F601" \o
      ";WIDE-HEADED SOUTH EAST HEAVY BARB ARROW=01F87E;TAG LATIN SMALL LETTER S=0E0073",
    ";ARABIC LETTER SAD WITH THREE DOTS BELOW=0008AF;ARABIC LETTER AIN WITH THREE DOTS BELOW=0008B3" \o
      ";ORIYA LETTER NNA=000B23;ORIYA LETTER THA=000B25;ORIYA DIGIT FOUR=000B6A;TELUGU LETTER JA=000C1C" \o
      ";KANNADA LETTER VOCALIC R=000C8B;SINHALA LETTER ILUYANNA=000D8F;HANGUL JUNGSEONG YO-YEO=001186" \o
      ";ETHIOPIC SYLLABLE KXWEE=0012C4;HANUNOO LETTER I=001721;LIMBU LETTER YAN=00190A" \o
      ";KHMER SYMBOL PATHAMASAT=0019E0;BALINESE LETTER EF SASAK=001B48" \o
      ";VEDIC SIGN RTHANG LONG ANUSVARA=001CF0;APL FUNCTIONAL SYMBOL CIRCLE DIAERESIS=002365" \o
      ";WHITE SQUARE WITH CENTRE VERTICAL LINE=002385;WHITE VERY SMALL SQUARE=002B1E;VULCANUS=002BE6" \o
      ";IDEOGRAPHIC DESCRIPTION CHARACTER SURROUND FROM LEFT=002FF7;KATAKANA LETTER SMALL KA=0030F5" \o
      ";HANGUL LETTER YI=003162;CIRCLED HANGUL THIEUTH A=003279;HEXAGRAM FOR FELLOWSHIP=004DCC" \o
      ";YI SYLLABLE NBOX=00A082;YI SYLLABLE NBUR=00A08A;YI SYLLABLE NDUP=00A165;YI SYLLABLE HNIX=00A169" \o
      ";YI SYLLABLE GGUT=00A22A;YI SYLLABLE MGOT=00A239;YI SYLLABLE CUOP=00A2BC;YI SYLLABLE SSAP=00A334" \o
      ";YI SYLLABLE ZHAT=00A346;YI SYLLABLE ZHEP=00A354;YI SYLLABLE QIEX=00A401;YI SYLLABLE JJOT=00A423" \o
      ";YI SYLLABLE NJOP=00A43E;YI SYLLABLE YIEP=00A478;COMBINING CYRILLIC LETTER UKRAINIAN IE=00A674" \o
      ";LATIN CAPITAL LETTER EGYPTOLOGICAL AIN=00A724;SAURASHTRA VOWEL SIGN U=00A8B8" \o
      ";TAI VIET LETTER HIGH THO=00AA97;MEETEI MAYEK LETTER DDHA=00AAE7;COPTIC EPACT DIGIT EIGHT=0102E8" \o
      ";OSMANYA LETTER I=010498;OSAGE CAPITAL LETTER KHA=0104D0;OSAGE SMALL LETTER EHCHA=0104DE" \o
      ";LINEAR A SIGN A559=0106E2;LINEAR A SIGN A568=0106E7;LINEAR A SIGN A577=0106F0" \o
      ";LINEAR A SIGN A586=0106F9;LINEAR A SIGN A595=010700;LINEAR A SIGN A649=010728" \o
      ";LINEAR A SIGN A658=010730;AVESTAN LETTER O=010B0A;YEZIDI LETTER RA=010E8D" \o
      ";SHARADA LETTER VOCALIC L=01118B;CUNEIFORM SIGN KAL CROSSING KAL=012199" \o
      ";EGYPTIAN HIEROGLYPH A004=013003;EGYPTIAN HIEROGLYPH A013=01300F;EGYPTIAN HIEROGLYPH A022=01301A" \o
      ";EGYPTIAN HIEROGLYPH A031=013023;EGYPTIAN HIEROGLYPH A040=01302D;EGYPTIAN HIEROGLYPH B003=013052" \o
      ";EGYPTIAN HIEROGLYPH C002=01305B;EGYPTIAN HIEROGLYPH C011=013068;EGYPTIAN HIEROGLYPH C020=013071" \o
      ";EGYPTIAN HIEROGLYPH D001=013076;EGYPTIAN HIEROGLYPH D010=013080;BAMUM LETTER PHASE-A NYI=01684F" \o
      ";BAMUM LETTER PHASE-D SUE=016903;BAMUM LETTER PHASE-E SET=016990;BAMUM LETTER PHASE-E MVI=0169C9" \o
      ";BAMUM LETTER PHASE-E LOQ=0169F8;TANGSA LETTER IZ=016A80;MIAO LETTER TSSA=016F2A" \o
      ";TETRAGRAM FOR LABOURING=01D355;MATHEMATICAL SANS-SERIF SMALL S=01D5CC" \o
      ";SIGNWRITING MOVEMENT-DIAGONAL TOWARDS MEDIUM=01D95A;MENDE KIKAKUI SYLLABLE M060 NYON=01E8C4" \o
      ";NEGATIVE CIRCLED LATIN CAPITAL LETTER B=01F151;BACK WITH LEFTWARDS ARROW ABOVE=01F519" \o
      ";NORTH WEST POINTING BUD=01F660;LEFTWARDS ARROW WITH LARGE TRIANGLE ARROWHEAD=01F808" \o
      ";MONEY-MOUTH FACE=01F911;DIYA LAMP=01FA94;TAG LATIN SMALL LETTER T=0E0074",
    ";DEVANAGARI VOWEL SIGN AA=00093E;TELUGU LETTER KA=000C15;MALAYALAM VOWEL SIGN VOCALIC RR=000D44" \o
      ";MALAYALAM AU LENGTH MARK=000D57;THAI CHARACTER KHO KHUAT=000E03" \o
      ";MYANMAR LETTER RUMAI PALAUNG FA=00108E;HANGUL CHOSEONG PANSIOS=001140" \o
      ";HANGUL JONGSEONG RIEUL-THIEUTH=0011B4;HANGUL JONGSEONG NIEUN-PANSIOS=0011C8" \o
      ";CANADIAN SYLLABICS NASKAPI SKWA=00150E;RUNIC LETTER ETH=0016A7;KHMER LETTER NNO=00178E" \o
      ";KHMER LETTER THO=001792;CANADIAN SYLLABICS BEAVER DENE L=0018F3;BATAK PANONGONAN=001BF3" \o
      ";LATIN CAPITAL LETTER E WITH TILDE BELOW=001E1A" \o
      ";GREEK SMALL LETTER EPSILON WITH PSILI AND OXIA=001F14" \o
      ";DENTISTRY SYMBOL LIGHT VERTICAL AND TOP RIGHT=0023BE;WHITE CHESS ROOK=002656" \o
      ";GEAR WITHOUT HUB=0026ED;CJK RADICAL CHOKE=002E9B;KATAKANA LETTER SMALL HE=0031F8" \o
      ";YI SYLLABLE HMOT=00A09F;YI SYLLABLE VIET=00A0E6;YI SYLLABLE HLUO=00A1A3;YI SYLLABLE MGUO=00A237" \o
      ";YI SYLLABLE NGOT=00A267;YI SYLLABLE ZIEP=00A293;YI SYLLABLE CHUX=00A371;YI SYLLABLE CHYT=00A376" \o
      ";YI SYLLABLE SHEX=00A3B7;YI SYLLABLE JJUO=00A421;VAI SYLLABLE WUN=00A59A;BAMUM LETTER NYI=00A6A8" \o
      ";BAMUM LETTER SHU=00A6C0;MODIFIER LETTER LOW INVERTED EXCLAMATION MARK=00A71F" \o
      ";MEETEI MAYEK DIGIT EIGHT=00ABF8;OSAGE CAPITAL LETTER BRA=0104B4;LINEAR A SIGN A569=0106E8" \o
      ";LINEAR A SIGN A578=0106F1;LINEAR A SIGN A587=0106FA;LINEAR A SIGN A596=010701" \o
      ";LINEAR A SIGN A659=010731;OLD HUNGARIAN CAPITAL LETTER US=010CB2;KAITHI ENUMERATION SIGN=0110BC" \o
      ";TIRHUTA LETTER A=011481;WARANG CITI CAPITAL LETTER HORR=0118BB" \o
      ";ZANABAZAR SQUARE VOWEL SIGN REVERSED I=011A09;TAMIL SPENT SIGN=011FEC" \o
      ";CUNEIFORM NUMERIC SIGN FIVE ASH=012403;CUNEIFORM NUMERIC SIGN NINE ASH=012407" \o
      ";CUNEIFORM SIGN DUG TIMES KASKAL=01249A;EGYPTIAN HIEROGLYPH A005=013004" \o
      ";EGYPTIAN HIEROGLYPH A014=013010;EGYPTIAN HIEROGLYPH A023=01301B;EGYPTIAN HIEROGLYPH A032=013024" \o
      ";EGYPTIAN HIEROGLYPH A041=01302F;EGYPTIAN HIEROGLYPH A050=01303B;EGYPTIAN HIEROGLYPH B004=013053" \o
      ";EGYPTIAN HIEROGLYPH C003=01305F;EGYPTIAN HIEROGLYPH C012=013069;EGYPTIAN HIEROGLYPH C021=013072" \o
      ";EGYPTIAN HIEROGLYPH D002=013077;EGYPTIAN HIEROGLYPH D011=013081;EGYPTIAN HIEROGLYPH D020=01308A" \o
      ";EGYPTIAN HIEROGLYPH E001=0130D2;EGYPTIAN HIEROGLYPH E010=0130DD" \o
      ";BAMUM LETTER PHASE-A KEUKEUTNDA=016813;BAMUM LETTER PHASE-D LUM=01691E" \o
      ";BAMUM LETTER PHASE-D KUN=01693A;BAMUM LETTER PHASE-F LOQ=016A2E;TANGSA LETTER SHORT UEZ=016A92" \o
      ";BYZANTINE MUSICAL SYMBOL THITA=01D014;MATHEMATICAL SANS-SERIF SMALL T=01D5CD" \o
      ";SIGNWRITING HAND-FIST INDEX MIDDLE CROSSED THUMB SIDE=01D833" \o
      ";MENDE KIKAKUI SYLLABLE M098 NYEN=01E8C3;NEGATIVE CIRCLED LATIN CAPITAL LETTER C=01F152" \o
      ";OLDER MAN=01F474;MONEY BAG=01F4B0;TAG LATIN SMALL LETTER U=0E0075",
    ";DIGIT ONE=000031;ARABIC LETTER LAM WITH THREE DOTS BELOW=0006B8;TELUGU LETTER LA=000C32" \o
      ";SINHALA VOWEL SIGN GAETTA-PILLA=000DD8;SINHALA LITH DIGIT EIGHT=000DEE;TAI LE LETTER KHA=001960" \o
      ";NEW TAI LUE VOWEL SIGN VOWEL SHORTENER=0019B0;BALINESE SIGN ULU CANDRA=001B01" \o
      ";GREEK CAPITAL LETTER UPSILON WITH OXIA=001FEB;RIGHTWARDS DASHED ARROW=0021E2" \o
      ";NOT GREATER-THAN=00226F;NEGATIVE CIRCLED NUMBER FIFTEEN=0024EF" \o
      ";LOWER HALF INVERSE WHITE CIRCLE=0025DB;WHITE SPADE SUIT=002664;WAVE DASH=00301C" \o
      ";CIRCLED IDEOGRAPH FEMALE=00329B;SQUARE BUSSYERU=003334;SQUARE M SQUARED=0033A1" \o
      ";YI SYLLABLE NBUT=00A085;YI SYLLABLE NBYP=00A08E;YI SYLLABLE HMUO=00A09D;YI SYLLABLE NDOX=00A15C" \o
      ";YI SYLLABLE NDUR=00A167;YI SYLLABLE HNOT=00A176;YI SYLLABLE HLUP=00A1AE;YI SYLLABLE MGUP=00A243" \o
      ";YI SYLLABLE HXIP=00A249;YI SYLLABLE HXAX=00A24F;YI SYLLABLE NGUO=00A266;YI SYLLABLE NZAP=00A2F7" \o
      ";YI SYLLABLE SIEX=00A30D;YI SYLLABLE RREP=00A387;YI SYLLABLE NRAX=00A395;YI SYLLABLE NRET=00A39B" \o
      ";YI SYLLABLE JJUP=00A42A;YI SYLLABLE NJIX=00A432;BAMUM LETTER WUE=00A6C9" \o
      ";LINEAR B SYLLABLE B033 RA3=010049;DESERET CAPITAL LETTER SHORT AH=010409" \o
      ";VITHKUQI SMALL LETTER U=0105B7;LINEAR A SIGN A579=0106F2;LINEAR A SIGN A588=0106FB" \o
      ";KHAROSHTHI SIGN VISARGA=010A0F;YEZIDI LETTER PE=010E82;YEZIDI LETTER TA=010E95" \o
      ";MULTANI LETTER I=011281;SIDDHAM SECTION MARK WITH QUADRUPLE CRESCENTS=0115D3" \o
      ";TAKRI LETTER NYA=011693;MASARAM GONDI LETTER GHA=011D0F;GUNJALA GONDI LETTER GHA=011D77" \o
      ";TAMIL SIGN KUZHI=011FE2;EGYPTIAN HIEROGLYPH A006=013006;EGYPTIAN HIEROGLYPH A015=013012" \o
      ";EGYPTIAN HIEROGLYPH A024=01301C;EGYPTIAN HIEROGLYPH A033=013026;EGYPTIAN HIEROGLYPH A042=013030" \o
      ";EGYPTIAN HIEROGLYPH A051=01303C;EGYPTIAN HIEROGLYPH A060=013045;EGYPTIAN HIEROGLYPH B005=013054" \o
      ";EGYPTIAN HIEROGLYPH C004=013060;EGYPTIAN HIEROGLYPH C013=01306A;EGYPTIAN HIEROGLYPH C022=013073" \o
      ";EGYPTIAN HIEROGLYPH D003=013078;EGYPTIAN HIEROGLYPH D012=013082;EGYPTIAN HIEROGLYPH D021=01308B" \o
      ";EGYPTIAN HIEROGLYPH D030=013095;EGYPTIAN HIEROGLYPH E002=0130D3;EGYPTIAN HIEROGLYPH E011=0130DE" \o
      ";EGYPTIAN HIEROGLYPH E020=0130E9;EGYPTIAN HIEROGLYPH F001=0130FE;EGYPTIAN HIEROGLYPH F010=013108" \o
      ";BAMUM LETTER PHASE-C KEUSHEUAEP=01689F;BAMUM LETTER PHASE-E TEU=0169FD" \o
      ";BAMUM LETTER PHASE-F TET=016A35;TANGSA LETTER MX=016A9F;ZNAMENNY NEUME STRELA GROMNAYA=01CFA2" \o
      ";BYZANTINE MUSICAL SYMBOL REVMA=01D025;MUSICAL SYMBOL KIEVAN HALF NOTE=01D1E3" \o
      ";MATHEMATICAL SANS-SERIF SMALL U=01D5CE;MATHEMATICAL SANS-SERIF BOLD ITALIC PHI SYMBOL=01D7C7" \o
      ";SIGNWRITING MOVEMENT-FLOORPLANE CORNER LARGE=01D976" \o
      ";LATIN SMALL LETTER L WITH BELT AND PALATAL HOOK=01DF13;NYIAKENG PUACHUE HMONG LETTER I=01E126" \o
      ";ADLAM CAPITAL LETTER YHE=01E90E;NEGATIVE CIRCLED LATIN CAPITAL LETTER D=01F153;BLUE BOOK=01F4D8" \o
      ";NOTE PAGE=01F5C9;TAG LATIN SMALL LETTER V=0E0076",
    ";LATIN SMALL LETTER TESH DIGRAPH=0002A7;DOT ABOVE=0002D9;CYRILLIC SMALL LETTER HARD SIGN=00044A" \o
      ";ARABIC LETTER KEHEH WITH TWO DOTS ABOVE=00063B;ARABIC LETTER KAF WITH DOT ABOVE=0006AC" \o
      ";BENGALI CURRENCY NUMERATOR TWO=0009F5;GURMUKHI SIGN ADAK BINDI=000A01;TELUGU LETTER MA=000C2E" \o
      ";TIBETAN DIGIT HALF SEVEN=000F30;MYANMAR LETTER O=001029;HANGUL JONGSEONG RIEUL-PANSIOS=0011D7" \o
      ";CANADIAN SYLLABICS CARRIER TLHO=001635;BUGINESE PALLAWA=001A1E" \o
      ";SUNDANESE PUNCTUATION BINDU BA SATANGA=001CC7;LEFT RIGHT ARROW=002194" \o
      ";NORTH WEST DOUBLE ARROW=0021D6;BOTTOM LEFT CROP=00230D" \o
      ";LEFT SQUARE BRACKET WITH TICK IN BOTTOM CORNER=00298F;WHITE SMALL STAR=002B52" \o
      ";HIRAGANA LETTER SMALL KE=003096;HEXAGRAM FOR DISPERSION=004DFA;YI SYLLABLE HMUP=00A0A6" \o
      ";YI SYLLABLE TIEX=00A11E;YI SYLLABLE HNUO=00A175;YI SYLLABLE SHOP=00A3B5;YI SYLLABLE XIET=00A461" \o
      ";VAI SYLLABLE NYU=00A5B9;KAYAH LI LETTER A=00A922;CHEROKEE SMALL LETTER DA=00ABA3" \o
      ";LINEAR B IDEOGRAM B100 MAN=010080;LINEAR A SIGN A589=0106FC;LINEAR A SIGN A598=010702" \o
      ";OLD HUNGARIAN CAPITAL LETTER UU=010CAB;KAITHI LETTER UU=011088;TAKRI LETTER TTA=011694" \o
      ";CUNEIFORM SIGN UZ3 TIMES KASKAL=01235B;EGYPTIAN HIEROGLYPH A007=013009" \o
      ";EGYPTIAN HIEROGLYPH A016=013013;EGYPTIAN HIEROGLYPH A025=01301D;EGYPTIAN HIEROGLYPH A034=013027" \o
      ";EGYPTIAN HIEROGLYPH A043=013032;EGYPTIAN HIEROGLYPH A052=01303D;EGYPTIAN HIEROGLYPH A061=013046" \o
      ";EGYPTIAN HIEROGLYPH A070=01304F;EGYPTIAN HIEROGLYPH B006=013056;EGYPTIAN HIEROGLYPH C005=013061" \o
      ";EGYPTIAN HIEROGLYPH C014=01306B;EGYPTIAN HIEROGLYPH C023=013074;EGYPTIAN HIEROGLYPH D004=013079" \o
      ";EGYPTIAN HIEROGLYPH D013=013083;EGYPTIAN HIEROGLYPH D022=01308C;EGYPTIAN HIEROGLYPH D031=013096" \o
      ";EGYPTIAN HIEROGLYPH D040=0130A1;EGYPTIAN HIEROGLYPH E003=0130D4;EGYPTIAN HIEROGLYPH E012=0130DF" \o
      ";EGYPTIAN HIEROGLYPH E021=0130EB;EGYPTIAN HIEROGLYPH E030=0130F5;EGYPTIAN HIEROGLYPH F002=013100" \o
      ";EGYPTIAN HIEROGLYPH F011=013109;EGYPTIAN HIEROGLYPH F020=013113;EGYPTIAN HIEROGLYPH G001=01313F" \o
      ";EGYPTIAN HIEROGLYPH G010=01314B;BAMUM LETTER PHASE-A SOQ=01683C" \o
      ";BAMUM LETTER PHASE-C MBAA PICKET=0168E3;BAMUM LETTER PHASE-D NYI=01694D" \o
      ";BAMUM LETTER PHASE-D SHU=016958;BAMUM LETTER PHASE-E SOM=01696D;TANGSA LETTER UQ=016A86" \o
      ";PAHAWH HMONG DIGIT EIGHT=016B58;MATHEMATICAL SANS-SERIF SMALL V=01D5CF" \o
      ";SIGNWRITING HAND-ANGLE INDEX THUMB OUT=01D8F2" \o
      ";SIGNWRITING MOVEMENT-FLOORPLANE PEAKS MEDIUM=01D97F;SIGNWRITING EYE BLINK MULTIPLE=01DA18" \o
      ";ADLAM CAPITAL LETTER ZAL=01E91F;NEGATIVE CIRCLED LATIN CAPITAL LETTER E=01F154" \o
      ";LOWER RIGHT BLOCK DIAGONAL LOWER CENTRE TO LOWER MIDDLE RIGHT=01FB47" \o
      ";TAG LATIN SMALL LETTER W=0E0077",
    ";CYRILLIC SMALL LETTER OMEGA WITH TITLO=00047D;NKO LOW TONE APOSTROPHE=0007F5;NKO COMMA=0007F8" \o
      ";BENGALI LETTER VOCALIC R=00098B;ORIYA DIGIT ZERO=000B66;TELUGU LETTER NA=000C28" \o
      ";HANGUL JONGSEONG KIYEOK=0011A8;CANADIAN SYLLABICS NGAAI=00158E;TAI LE LETTER NGA=001952" \o
      ";KHMER SYMBOL DAP-PII ROC=0019FC;COMBINING DOT ABOVE LEFT=001DF8" \o
      ";DOWNWARDS ARROW WITH CORNER LEFTWARDS=0021B5;N-ARY LOGICAL AND=0022C0" \o
      ";LEFT SEMIDIRECT PRODUCT=0022CB;APL FUNCTIONAL SYMBOL DIAMOND UNDERBAR=00235A" \o
      ";BOX DRAWINGS LIGHT DOWN AND HORIZONTAL=00252C;CIRCLED REVERSE SOLIDUS=0029B8" \o
      ";COPTIC FRACTION ONE HALF=002CFD;KANGXI RADICAL HIDING ENCLOSURE=002F16" \o
      ";KATAKANA LETTER SMALL KE=0030F6;HEXAGRAM FOR ENTHUSIASM=004DCF;YI SYLLABLE NBYR=00A090" \o
      ";YI SYLLABLE NDUT=00A162;YI SYLLABLE HLOX=00A1A5;YI SYLLABLE HLUR=00A1B0;YI SYLLABLE GUOP=00A1E9" \o
      ";YI SYLLABLE GGUX=00A22B;YI SYLLABLE MGOX=00A23A;YI SYLLABLE MGUR=00A245;YI SYLLABLE SSAT=00A331" \o
      ";YI SYLLABLE SSEP=00A33B;YI SYLLABLE ZHAX=00A347;YI SYLLABLE ZHET=00A351;YI SYLLABLE JJOX=00A424" \o
      ";YI SYLLABLE JJUR=00A42C;YI SYLLABLE NJOT=00A43B;YI SYLLABLE YIET=00A475" \o
      ";COMBINING DEVANAGARI DIGIT FOUR=00A8E4;ARMENIAN SMALL LIGATURE MEN NOW=00FB13" \o
      ";FULLWIDTH VERTICAL LINE=00FF5C;OSAGE CAPITAL LETTER AIN=0104B2;YEZIDI LETTER VA=010E9A" \o
      ";BRAHMI PUNCTUATION LINE=01104B;EGYPTIAN HIEROGLYPH A008=01300A;EGYPTIAN HIEROGLYPH A017=013014" \o
      ";EGYPTIAN HIEROGLYPH A026=01301E;EGYPTIAN HIEROGLYPH A035=013028;EGYPTIAN HIEROGLYPH A044=013034" \o
      ";EGYPTIAN HIEROGLYPH A053=01303E;EGYPTIAN HIEROGLYPH A062=013047;EGYPTIAN HIEROGLYPH B007=013057" \o
      ";EGYPTIAN HIEROGLYPH C006=013062;EGYPTIAN HIEROGLYPH C015=01306C;EGYPTIAN HIEROGLYPH C024=013075" \o
      ";EGYPTIAN HIEROGLYPH D005=01307A;EGYPTIAN HIEROGLYPH D014=013084;EGYPTIAN HIEROGLYPH D023=01308D" \o
      ";EGYPTIAN HIEROGLYPH D032=013098;EGYPTIAN HIEROGLYPH D041=0130A2;EGYPTIAN HIEROGLYPH D050=0130AD" \o
      ";EGYPTIAN HIEROGLYPH E004=0130D5;EGYPTIAN HIEROGLYPH E013=0130E0;EGYPTIAN HIEROGLYPH E022=0130EC" \o
      ";EGYPTIAN HIEROGLYPH E031=0130F6;EGYPTIAN HIEROGLYPH F003=013101;EGYPTIAN HIEROGLYPH F012=01310A" \o
      ";EGYPTIAN HIEROGLYPH F021=013114;EGYPTIAN HIEROGLYPH F030=01311E;EGYPTIAN HIEROGLYPH G002=013140" \o
      ";EGYPTIAN HIEROGLYPH G011=01314C;EGYPTIAN HIEROGLYPH G020=013156;EGYPTIAN HIEROGLYPH H001=01317F" \o
      ";BAMUM LETTER PHASE-D KUQ=01693F;TANGSA LETTER OX=016A73;TANGSA LETTER VQ=016A7A" \o
      ";TANGSA LETTER MZ=016A9C;DUPLOYAN LETTER SHORT I=01BC49;MUSICAL SYMBOL CLIMACUS=01D1D7" \o
      ";MATHEMATICAL SANS-SERIF SMALL W=01D5D0;ADLAM CAPITAL LETTER NYA=01E919" \o
      ";ARABIC MATHEMATICAL THEH=01EE16;ARABIC MATHEMATICAL THAL=01EE18" \o
      ";NEGATIVE CIRCLED LATIN CAPITAL LETTER F=01F155;THREE RAYS RIGHT=01F5E7" \o
      ";MEDIUM BOLD WHITE CIRCLE=01F785;VERY HEAVY WHITE SQUARE=01F792" \o
      ";BLACK CHESS QUEEN ROTATED TWO HUNDRED SEVENTY DEGREES=01FA3A;BLOCK SEXTANT-123=01FB06" \o
      ";TAG LATIN SMALL LETTER X=0E0078",
    ";VULGAR FRACTION THREE QUARTERS=0000BE;LATIN CAPITAL LETTER GHA=0001A2;COMBINING MACRON=000304" \o
      ";GREEK CAPITAL LETTER ETA=000397;GREEK SMALL LETTER LAMDA=0003BB;ARABIC SIGN SAFHA=000603" \o
      ";ARABIC LETTER HEH WITH YEH ABOVE=0006C0;ARABIC LETTER TAH WITH THREE DOTS BELOW=00088C" \o
      ";RUNIC LETTER AC A=0016AA;BALINESE MUSICAL SYMBOL COMBINING KEMPLI WITH JEGOGAN=001B71" \o
      ";SUNDANESE PUNCTUATION BINDU DA SATANGA=001CC6;LATIN CAPITAL LETTER I WITH TILDE BELOW=001E2C" \o
      ";SMALL ROMAN NUMERAL ONE HUNDRED=00217D;APL FUNCTIONAL SYMBOL SLASH BAR=00233F" \o
      ";DECIMAL EXPONENT SYMBOL=0023E8;DOUBLE CIRCLED DIGIT SIX=0024FA" \o
      ";UPPER HALF INVERSE WHITE CIRCLE=0025DA;WHITE CIRCLE WITH LOWER RIGHT QUADRANT=0025F6" \o
      ";LEFTWARDS HARPOON WITH BARB UP ABOVE RIGHTWARDS HARPOON WITH BARB UP=002966" \o
      ";RIGHTWARDS HARPOON WITH BARB UP ABOVE LEFTWARDS HARPOON WITH BARB UP=002968" \o
      ";TRIPLE SOLIDUS BINARY RELATION=002AFB;KATAKANA LETTER SMALL HI=0031F6" \o
      ";IDEOGRAPHIC TELEGRAPH SYMBOL FOR HOUR SIXTEEN=003368;SQUARE DA=003372" \o
      ";HEXAGRAM FOR STANDSTILL=004DCB;YI SYLLABLE HMOX=00A0A0;YI SYLLABLE HMUR=00A0A8" \o
      ";YI SYLLABLE VIEX=00A0E7;YI SYLLABLE NGOX=00A268;YI SYLLABLE HUOP=00A278;YI SYLLABLE CHYX=00A377" \o
      ";YI SYLLABLE NJUO=00A43A;CYRILLIC CAPITAL LETTER SOFT EL=00A664;SAURASHTRA DANDA=00A8CE" \o
      ";HANGUL JONGSEONG PANSIOS-PIEUP=00D7F3;COPTIC EPACT NUMBER SIX HUNDRED=0102F8" \o
      ";PALMYRENE LETTER SAMEKH=01086F;LYDIAN LETTER LY=010937;YEZIDI LETTER SE=010E85" \o
      ";TIRHUTA LETTER E=01148B;DIVES AKURU DOUBLE DANDA=011944;MASARAM GONDI LETTER JHA=011D14" \o
      ";GUNJALA GONDI LETTER JHA=011D81;CUNEIFORM SIGN KU4 VARIANT FORM=0121AE" \o
      ";CUNEIFORM SIGN LAGAB TIMES GUD PLUS GUD=0121C7;CUNEIFORM SIGN LAGAB TIMES HI TIMES NUN=0121CA" \o
      ";EGYPTIAN HIEROGLYPH A009=01300B;EGYPTIAN HIEROGLYPH A018=013016;EGYPTIAN HIEROGLYPH A027=01301F" \o
      ";EGYPTIAN HIEROGLYPH A036=013029;EGYPTIAN HIEROGLYPH A045=013035;EGYPTIAN HIEROGLYPH A054=01303F" \o
      ";EGYPTIAN HIEROGLYPH A063=013048;EGYPTIAN HIEROGLYPH B008=013058;EGYPTIAN HIEROGLYPH C007=013063" \o
      ";EGYPTIAN HIEROGLYPH C016=01306D;EGYPTIAN HIEROGLYPH D006=01307B;EGYPTIAN HIEROGLYPH D015=013085" \o
      ";EGYPTIAN HIEROGLYPH D024=01308E;EGYPTIAN HIEROGLYPH D033=013099;EGYPTIAN HIEROGLYPH D042=0130A3" \o
      ";EGYPTIAN HIEROGLYPH D051=0130B7;EGYPTIAN HIEROGLYPH D060=0130C2;EGYPTIAN HIEROGLYPH E005=0130D6" \o
      ";EGYPTIAN HIEROGLYPH E014=0130E1;EGYPTIAN HIEROGLYPH E023=0130ED;EGYPTIAN HIEROGLYPH E032=0130F7" \o
      ";EGYPTIAN HIEROGLYPH F004=013102;EGYPTIAN HIEROGLYPH F013=01310B;EGYPTIAN HIEROGLYPH F022=013116" \o
      ";EGYPTIAN HIEROGLYPH F031=01311F;EGYPTIAN HIEROGLYPH F040=01312B;EGYPTIAN HIEROGLYPH G003=013141" \o
      ";EGYPTIAN HIEROGLYPH G012=01314E;EGYPTIAN HIEROGLYPH G021=013158;EGYPTIAN HIEROGLYPH G030=013162" \o
      ";EGYPTIAN HIEROGLYPH H002=013180;EGYPTIAN HIEROGLYPH I001=013188;EGYPTIAN HIEROGLYPH I010=013193" \o
      ";BAMUM LETTER PHASE-A PUP=01682D;BAMUM LETTER PHASE-E WUE=0169EA;BAMUM LETTER PHASE-F NYI=016A09" \o
      ";BAMUM LETTER PHASE-F SHU=016A1C;MIAO LETTER DZYI=016F47;MATHEMATICAL SANS-SERIF SMALL X=01D5D1" \o
      ";SIGNWRITING MOVEMENT-FLOORPLANE ZIGZAG LARGE=01D97D" \o
      ";LATIN SMALL LETTER ESH WITH DOUBLE BAR AND CURL=01DF0C" \o
      ";NEGATIVE CIRCLED LATIN CAPITAL LETTER G=01F156;RUNNING SHIRT WITH SASH=01F3BD;FLAT SHOE=01F97F" \o
      ";BLOCK SEXTANT-124=01FB0A;TAG LATIN SMALL LETTER Y=0E0079",
    ";GREEK CAPITAL KAI SYMBOL=0003CF;ARABIC LETTER DAD WITH DOT BELOW=0006FB;TELUGU LETTER PA=000C2A" \o
      ";SINHALA LETTER IRUYANNA=000D8D;HANGUL JUNGSEONG YU-YEO=001191" \o
      ";CANADIAN SYLLABICS NASKAPI SPWA=00150C;MONGOLIAN LETTER ALI GALI HALF U=0018A6" \o
      ";GEORGIAN MTAVRULI CAPITAL LETTER ELIFI=001CB8;LATIN CAPITAL LETTER H WITH BREVE BELOW=001E2A" \o
      ";LATIN SMALL LETTER LONG S WITH DIAGONAL STROKE=001E9C;MULTISET=00228C;MONOGRAM FOR YIN=00268B" \o
      ";HEAVY TEARDROP-SPOKED ASTERISK=00273D;SMALLER THAN OR EQUAL TO=002AAC" \o
      ";N-ARY WHITE VERTICAL BAR=002AFF;BOTTOM LEFT HALF BRACKET=002E24;HANGUL LETTER YO=00315B" \o
      ";SQUARE CC=0033C4;SQUARE DB=0033C8;YI SYLLABLE NBUX=00A086;YI SYLLABLE NBYT=00A08B" \o
      ";YI SYLLABLE HNOX=00A177;YI SYLLABLE HLUT=00A1AB;YI SYLLABLE HLYP=00A1B4;YI SYLLABLE MGUT=00A240" \o
      ";YI SYLLABLE HXIT=00A246;YI SYLLABLE HXEX=00A25A;YI SYLLABLE NZAT=00A2F4;YI SYLLABLE RRAX=00A37C" \o
      ";YI SYLLABLE RRET=00A384;YI SYLLABLE NREX=00A39C;YI SYLLABLE JJUT=00A427;YI SYLLABLE JJYP=00A430" \o
      ";YI SYLLABLE NJUP=00A441;CYRILLIC CAPITAL LETTER SOFT EM=00A666;KAYAH LI SIGN CWI=00A92E" \o
      ";CHEROKEE SMALL LETTER GA=00AB76;HANGUL JUNGSEONG ARAEA-A=00D7C5" \o
      ";GREEK ACROPHONIC ATTIC FIFTY THOUSAND STATERS=010156;OSMANYA LETTER O=010499" \o
      ";VITHKUQI SMALL LETTER Y=0105BB;MODIFIER LETTER SUPERSCRIPT TRIANGULAR COLON=010781" \o
      ";LYDIAN LETTER SS=01092E;AVESTAN LETTER U=010B0E;YEZIDI LETTER XA=010E8A;YEZIDI LETTER ET=010EA9" \o
      ";SHARADA LETTER VOCALIC R=011189;SIDDHAM LETTER VOCALIC L=011588" \o
      ";NANDINAGARI VOWEL SIGN PRISHTHAMATRA E=0119E4;MASARAM GONDI LETTER KHA=011D0D" \o
      ";GUNJALA GONDI LETTER KHA=011D72;EGYPTIAN HIEROGLYPH A019=013017;EGYPTIAN HIEROGLYPH A028=013020" \o
      ";EGYPTIAN HIEROGLYPH A037=01302A;EGYPTIAN HIEROGLYPH A046=013037;EGYPTIAN HIEROGLYPH A055=013040" \o
      ";EGYPTIAN HIEROGLYPH A064=013049;EGYPTIAN HIEROGLYPH B009=013059;EGYPTIAN HIEROGLYPH C008=013064" \o
      ";EGYPTIAN HIEROGLYPH C017=01306E;EGYPTIAN HIEROGLYPH D007=01307C;EGYPTIAN HIEROGLYPH D016=013086" \o
      ";EGYPTIAN HIEROGLYPH D025=01308F;EGYPTIAN HIEROGLYPH D034=01309A;EGYPTIAN HIEROGLYPH D043=0130A4" \o
      ";EGYPTIAN HIEROGLYPH D052=0130B8;EGYPTIAN HIEROGLYPH D061=0130C3;EGYPTIAN HIEROGLYPH E006=0130D7" \o
      ";EGYPTIAN HIEROGLYPH E015=0130E2;EGYPTIAN HIEROGLYPH E024=0130EE;EGYPTIAN HIEROGLYPH E033=0130F8" \o
      ";EGYPTIAN HIEROGLYPH F005=013103;EGYPTIAN HIEROGLYPH F014=01310D;EGYPTIAN HIEROGLYPH F023=013117" \o
      ";EGYPTIAN HIEROGLYPH F032=013121;EGYPTIAN HIEROGLYPH F041=01312C;EGYPTIAN HIEROGLYPH F050=013138" \o
      ";EGYPTIAN HIEROGLYPH G004=013142;EGYPTIAN HIEROGLYPH G013=01314F;EGYPTIAN HIEROGLYPH G022=013159" \o
      ";EGYPTIAN HIEROGLYPH G031=013163;EGYPTIAN HIEROGLYPH G040=01316E;EGYPTIAN HIEROGLYPH H003=013181" \o
      ";EGYPTIAN HIEROGLYPH I002=013189;EGYPTIAN HIEROGLYPH I011=013195;BAMUM LETTER PHASE-A SOT=01684B" \o
      ";BAMUM LETTER PHASE-B MA NJEUAENA=016887;BAMUM LETTER PHASE-C KUT=0168CE" \o
      ";BAMUM LETTER PHASE-E VOM=01696A;BAMUM LETTER PHASE-E TOO=016979;BAMUM LETTER PHASE-E PUM=016991" \o
      ";BAMUM LETTER PHASE-F WUE=016A21;TANGSA LETTER OZ=016A70" \o
      ";ZNAMENNY COMBINING MARK NIZKO ON RIGHT=01CF10" \o
      ";MUSICAL SYMBOL ONE HUNDRED TWENTY-EIGHTH NOTE=01D164;MUSICAL SYMBOL GRACE NOTE SLASH=01D194" \o
      ";MAYAN NUMERAL SEVENTEEN=01D2F1;TETRAGRAM FOR ENDEAVOUR=01D31F" \o
      ";MATHEMATICAL SANS-SERIF SMALL Y=01D5D2;MATHEMATICAL DOUBLE-STRUCK DIGIT THREE=01D7DB" \o
      ";SIGNWRITING MOVEMENT-WALLPLANE CORNER MEDIUM=01D93C" \o
      ";SIGNWRITING MOVEMENT-WALLPLANE CURVE QUARTER MEDIUM=01D989;ADLAM CAPITAL LETTER KPO=01E920" \o
      ";ARABIC MATHEMATICAL SEEN=01EE0E;NEGATIVE CIRCLED LATIN CAPITAL LETTER H=01F157" \o
      ";FACE WITH DIAGONAL MOUTH=01FAE4;BLOCK SEXTANT-134=01FB0C;BLOCK SEXTANT-125=01FB12" \o
      ";LOWER RIGHT BLOCK DIAGONAL LOWER CENTRE TO UPPER MIDDLE RIGHT=01FB49;TAG COLON=0E003A" \o
      ";TAG LATIN SMALL LETTER Z=0E007A",
    ";ARMENIAN SMALL LETTER CA=00056E;ORIYA SIGN NUKTA=000B3C;TELUGU LETTER II=000C08" \o
      ";SINHALA LETTER SANYAKA DDAYANNA=000DAC;HANGUL JONGSEONG TIKEUT-KIYEOK=0011CA" \o
      ";CANADIAN SYLLABICS BEAVER DENE R=0018F4;TAI LE LETTER PHA=00195A;SUPERSCRIPT SIX=002076" \o
      ";RIGHTWARDS ARROW WITH VERTICAL STROKE=0021F8" \o
      ";DENTISTRY SYMBOL LIGHT DOWN AND HORIZONTAL WITH WAVE=0023C7;SCORPIUS=00264F" \o
      ";COPTIC CAPITAL LETTER OLD COPTIC GANGIA=002CD6;KATAKANA LETTER SMALL RA=0031FB;SQUARE CD=0033C5" \o
      ";YI SYLLABLE BUOX=00A022;YI SYLLABLE HMUT=00A0A3;YI SYLLABLE HMYP=00A0AB;YI SYLLABLE SHOT=00A3B2" \o
      ";YI SYLLABLE JUOP=00A3EB;YI SYLLABLE XIEX=00A462;SYLOTI NAGRI LETTER RRO=00A820" \o
      ";DEVANAGARI SIGN CANDRABINDU TWO=00A8F5;JAVANESE LETTER PA CEREK=00A989" \o
      ";CHEROKEE SMALL LETTER HA=00AB7D;CHEROKEE SMALL LETTER DE=00ABA5;MEETEI MAYEK LETTER BHAM=00ABDA" \o
      ";ARABIC SUKUN MEDIAL FORM=00FE7F;GREEK ACROPHONIC THESPIAN ONE THOUSAND=010171" \o
      ";LYCIAN LETTER TT=010298;COPTIC EPACT DIGIT THREE=0102E3;AHOM LETTER ALTERNATE BA=01171A" \o
      ";EGYPTIAN HIEROGLYPH A029=013021;EGYPTIAN HIEROGLYPH A038=01302B;EGYPTIAN HIEROGLYPH A047=013038" \o
      ";EGYPTIAN HIEROGLYPH A056=013041;EGYPTIAN HIEROGLYPH A065=01304A;EGYPTIAN HIEROGLYPH C009=013065" \o
      ";EGYPTIAN HIEROGLYPH C018=01306F;EGYPTIAN HIEROGLYPH D008=01307D;EGYPTIAN HIEROGLYPH D017=013087" \o
      ";EGYPTIAN HIEROGLYPH D026=013090;EGYPTIAN HIEROGLYPH D035=01309C;EGYPTIAN HIEROGLYPH D044=0130A5" \o
      ";EGYPTIAN HIEROGLYPH D053=0130BA;EGYPTIAN HIEROGLYPH D062=0130C4;EGYPTIAN HIEROGLYPH E007=0130D8" \o
      ";EGYPTIAN HIEROGLYPH E016=0130E3;EGYPTIAN HIEROGLYPH E025=0130EF;EGYPTIAN HIEROGLYPH E034=0130F9" \o
      ";EGYPTIAN HIEROGLYPH F006=013104;EGYPTIAN HIEROGLYPH F015=01310E;EGYPTIAN HIEROGLYPH F024=013118" \o
      ";EGYPTIAN HIEROGLYPH F033=013122;EGYPTIAN HIEROGLYPH F042=01312D;EGYPTIAN HIEROGLYPH F051=013139" \o
      ";EGYPTIAN HIEROGLYPH G005=013143;EGYPTIAN HIEROGLYPH G014=013150;EGYPTIAN HIEROGLYPH G023=01315A" \o
      ";EGYPTIAN HIEROGLYPH G032=013164;EGYPTIAN HIEROGLYPH G041=01316F;EGYPTIAN HIEROGLYPH G050=01317A" \o
      ";EGYPTIAN HIEROGLYPH H004=013182;EGYPTIAN HIEROGLYPH I003=01318A;EGYPTIAN HIEROGLYPH I012=013197" \o
      ";EGYPTIAN HIEROGLYPH K001=01319B;BAMUM LETTER PHASE-A PA LEERAEWA=016828" \o
      ";BAMUM LETTER PHASE-D KEUAETMEUN=0168FF;BAMUM LETTER PHASE-D TOQ=01694C" \o
      ";ZNAMENNY NEUME GOLUBCHIK BORZY=01CF5E;ZNAMENNY NEUME VRAKHIYA KLYUCHEVAYA SVETLAYA=01CF69" \o
      ";ZNAMENNY NEUME DERBITSA=01CF6D;MATHEMATICAL SANS-SERIF SMALL Z=01D5D3" \o
      ";NEGATIVE CIRCLED LATIN CAPITAL LETTER I=01F158;BLACK VERY SMALL DIAMOND=01F798" \o
      ";BLOCK SEXTANT-234=01FB0D;BLOCK SEXTANT-126=01FB21;RIGHT THIRD WHITE RIGHT POINTING INDEX=01FBC3",
    ";VERTICAL TABULATION SET=00008A;LATIN SMALL LETTER TURNED ALPHA=000252;COMBINING OGONEK=000328" \o
      ";ARMENIAN SMALL LETTER DA=000564;HEBREW POINT HATAF PATAH=0005B2;ARABIC FIVE POINTED STAR=00066D" \o
      ";ARABIC LETTER AFRICAN QAF WITH THREE DOTS ABOVE=0008C4;ORIYA LETTER RRA=000B5C" \o
      ";TELUGU LETTER RA=000C30;CANADIAN SYLLABICS CARRIER TTSA=00166C;TAI THAM LETTER A=001A4B" \o
      ";LATIN CAPITAL LETTER O WITH HORN AND HOOK ABOVE=001EDE;LIRA SIGN=0020A4;DONG SIGN=0020AB" \o
      ";LARI SIGN=0020BE;NUMBER TWELVE FULL STOP=002493;BOX DRAWINGS LIGHT LEFT AND HEAVY RIGHT=00257C" \o
      ";BOX DRAWINGS HEAVY LEFT AND LIGHT RIGHT=00257E;WHITE CIRCLE WITH UPPER RIGHT QUADRANT=0025F7" \o
      ";HEAVY BLACK-FEATHERED RIGHTWARDS ARROW=0027B8;NORTH EAST TRIANGLE-HEADED ARROW TO BAR=002B77" \o
      ";YI SYLLABLE NDUX=00A163;YI SYLLABLE HNUT=00A17C;YI SYLLABLE HLYR=00A1B6;YI SYLLABLE GUOT=00A1E6" \o
      ";YI SYLLABLE KUOP=00A205;YI SYLLABLE HXOP=00A259;YI SYLLABLE CUOX=00A2BA;YI SYLLABLE SSIP=00A32D" \o
      ";YI SYLLABLE SSAX=00A332;YI SYLLABLE ZHEX=00A352;YI SYLLABLE NROP=00A39A;YI SYLLABLE SHUO=00A3B0" \o
      ";YI SYLLABLE NJOX=00A43C;YI SYLLABLE NJUR=00A443;YI SYLLABLE YIEX=00A476" \o
      ";COMBINING DEVANAGARI DIGIT ZERO=00A8E0;JAVANESE LETTER BA MURDA=00A9A8" \o
      ";MEETEI MAYEK DIGIT THREE=00ABF3;HEBREW LETTER WIDE LAMED=00FB25;RIAL SIGN=00FDFC" \o
      ";LINEAR B SYLLABLE B076 RA2=010048;OSAGE CAPITAL LETTER EIN=0104B8" \o
      ";OSAGE CAPITAL LETTER SHA=0104C7;LYDIAN LETTER TT=010934;YEZIDI LETTER ZA=010E8F" \o
      ";OLD SOGDIAN LETTER SADHE=010F15;CHAKMA LETTER BAA=01111D;SOYOMBO LETTER A=011A50" \o
      ";MASARAM GONDI LETTER NGA=011D10;GUNJALA GONDI LETTER NGA=011D84;EGYPTIAN HIEROGLYPH A039=01302C" \o
      ";EGYPTIAN HIEROGLYPH A048=013039;EGYPTIAN HIEROGLYPH A057=013042;EGYPTIAN HIEROGLYPH A066=01304B" \o
      ";EGYPTIAN HIEROGLYPH C019=013070;EGYPTIAN HIEROGLYPH D009=01307F;EGYPTIAN HIEROGLYPH D018=013088" \o
      ";EGYPTIAN HIEROGLYPH D027=013091;EGYPTIAN HIEROGLYPH D036=01309D;EGYPTIAN HIEROGLYPH D045=0130A6" \o
      ";EGYPTIAN HIEROGLYPH D054=0130BB;EGYPTIAN HIEROGLYPH D063=0130C5;EGYPTIAN HIEROGLYPH E008=0130D9" \o
      ";EGYPTIAN HIEROGLYPH E017=0130E5;EGYPTIAN HIEROGLYPH E026=0130F0;EGYPTIAN HIEROGLYPH F007=013105" \o
      ";EGYPTIAN HIEROGLYPH F016=01310F;EGYPTIAN HIEROGLYPH F025=013119;EGYPTIAN HIEROGLYPH F034=013123" \o
      ";EGYPTIAN HIEROGLYPH F043=01312E;EGYPTIAN HIEROGLYPH F052=01313D;EGYPTIAN HIEROGLYPH G006=013144" \o
      ";EGYPTIAN HIEROGLYPH G015=013151;EGYPTIAN HIEROGLYPH G024=01315B;EGYPTIAN HIEROGLYPH G033=013165" \o
      ";EGYPTIAN HIEROGLYPH G042=013170;EGYPTIAN HIEROGLYPH G051=01317B;EGYPTIAN HIEROGLYPH H005=013183" \o
      ";EGYPTIAN HIEROGLYPH I004=01318B;EGYPTIAN HIEROGLYPH I013=013198;EGYPTIAN HIEROGLYPH K002=01319C" \o
      ";EGYPTIAN HIEROGLYPH L001=0131A3;BAMUM LETTER PHASE-E KUT=0169CC;BAMUM LETTER PHASE-E TOQ=0169D6" \o
      ";MEDEFAIDRIN CAPITAL LETTER ATIU=016E44;BYZANTINE MUSICAL SYMBOL PSILI=01D000" \o
      ";BYZANTINE MUSICAL SYMBOL SIMANSIS ARSEOS TETRASIMOU=01D0E5" \o
      ";SIGNWRITING HAND-FLAT HEEL FIVE FINGERS SPREAD=01D84D" \o
      ";SIGNWRITING HAND-FIST THUMB UNDER TWO FINGERS=01D8FE" \o
      ";SIGNWRITING SQUEEZE FLICK ALTERNATING=01D920" \o
      ";SIGNWRITING MOVEMENT-HINGE UP DOWN ALTERNATING LARGE=01D925" \o
      ";SIGNWRITING LOCATION-FLOORPLANE SPACE=01DA80;NYIAKENG PUACHUE HMONG LETTER O=01E128" \o
      ";MENDE KIKAKUI SYLLABLE M170 NYUN=01E8C2;NEGATIVE CIRCLED LATIN CAPITAL LETTER J=01F159" \o
      ";CIRCLED IDEOGRAPH ACCEPT=01F251;PERSEVERING FACE=01F623;SOUTH WEST POINTING BUD=01F661" \o
      ";ALCHEMICAL SYMBOL FOR MARCASITE=01F738;LIGHT TWELVE POINTED BLACK STAR=01F7D2" \o
      ";WIDE-HEADED NORTH WEST LIGHT BARB ARROW=01F864;BLOCK SEXTANT-235=01FB14" \o
      ";BLOCK SEXTANT-145=01FB17;BLOCK SEXTANT-136=01FB23",
    ";SINGLE SHIFT TWO=00008E;GREEK SMALL LETTER GAMMA=0003B3;GREEK LETTER YOT=0003F3" \o
      ";ARABIC LETTER QAF WITH DOT ABOVE=0006A7" \o
      ";ARABIC LETTER WAW WITH EXTENDED ARABIC-INDIC DIGIT THREE ABOVE=000779" \o
      ";ARABIC LETTER SEEN WITH EXTENDED ARABIC-INDIC DIGIT FOUR ABOVE=00077D" \o
      ";DEVANAGARI VOWEL SIGN AI=000948;TELUGU LETTER SA=000C38;KANNADA SIGN CANDRABINDU=000C81" \o
      ";SINHALA LITH DIGIT THREE=000DE9;THAI CHARACTER HO NOKHUK=000E2E;MYANMAR LETTER U=001025" \o
      ";HANGUL CHOSEONG SIOS-SSANGSIOS=001134;ETHIOPIC SYLLABLE PHARYNGEAL AA=0012D3" \o
      ";ETHIOPIC SYLLABLE SEBATBEIT BWA=001384;CANADIAN SYLLABICS CARRIER TLHU=001634" \o
      ";CANADIAN SYLLABICS NNGAA=001676;TAI LE LETTER AUE=00196C;COMBINING ALMOST EQUAL TO BELOW=001DFD" \o
      ";TOP RIGHT CORNER=00231D;BOX DRAWINGS HEAVY DOWN AND HORIZONTAL=002533" \o
      ";LEFT THREE EIGHTHS BLOCK=00258D;WHITE HEART SUIT=002661;WHITE NIB=002711" \o
      ";HEAVY MINUS SIGN=002796;EMPTY SET WITH LEFT ARROW ABOVE=0029B4;LEFT DOUBLE WIGGLY FENCE=0029DA" \o
      ";CJK RADICAL SNAKE=002E92;KANGXI RADICAL TWO HANDS=002F36;SQUARE GB=003387;SQUARE HA=0033CA" \o
      ";YI SYLLABLE HMYR=00A0AD;YI SYLLABLE DUOX=00A10B;YI SYLLABLE LUOP=00A1C6;YI SYLLABLE HUOT=00A275" \o
      ";YI SYLLABLE ZIEX=00A291;YI SYLLABLE SHUP=00A3BD;YI SYLLABLE NYIP=00A44D" \o
      ";LATIN CAPITAL LETTER CHI=00A7B3;KAYAH LI VOWEL EE=00A929;JAVANESE LETTER CA MURDA=00A996" \o
      ";ORNATE LEFT PARENTHESIS=00FD3E;LINEAR B SYLLABLE B066 TA2=01004B" \o
      ";MANICHAEAN PUNCTUATION FLEURON=010AF1;YEZIDI LETTER EW=010EA6;CHAKMA LETTER CAA=01110C" \o
      ";TIRHUTA LETTER I=011483;DIVES AKURU PREFIXED NASAL SIGN=01193F;CUNEIFORM SIGN NU11 TENU=0122D4" \o
      ";EGYPTIAN HIEROGLYPH A049=01303A;EGYPTIAN HIEROGLYPH A058=013043;EGYPTIAN HIEROGLYPH A067=01304C" \o
      ";EGYPTIAN HIEROGLYPH D019=013089;EGYPTIAN HIEROGLYPH D028=013093;EGYPTIAN HIEROGLYPH D037=01309E" \o
      ";EGYPTIAN HIEROGLYPH D046=0130A7;EGYPTIAN HIEROGLYPH D055=0130BD;EGYPTIAN HIEROGLYPH D064=0130C6" \o
      ";EGYPTIAN HIEROGLYPH E009=0130DB;EGYPTIAN HIEROGLYPH E018=0130E7;EGYPTIAN HIEROGLYPH E027=0130F1" \o
      ";EGYPTIAN HIEROGLYPH E036=0130FB;EGYPTIAN HIEROGLYPH F008=013106;EGYPTIAN HIEROGLYPH F017=013110" \o
      ";EGYPTIAN HIEROGLYPH F026=01311A;EGYPTIAN HIEROGLYPH F035=013124;EGYPTIAN HIEROGLYPH F044=01312F" \o
      ";EGYPTIAN HIEROGLYPH F053=01313E;EGYPTIAN HIEROGLYPH G007=013146;EGYPTIAN HIEROGLYPH G016=013152" \o
      ";EGYPTIAN HIEROGLYPH G025=01315C;EGYPTIAN HIEROGLYPH G034=013166;EGYPTIAN HIEROGLYPH G043=013171" \o
      ";EGYPTIAN HIEROGLYPH G052=01317C;EGYPTIAN HIEROGLYPH H006=013184;EGYPTIAN HIEROGLYPH I005=01318C" \o
      ";EGYPTIAN HIEROGLYPH I014=013199;EGYPTIAN HIEROGLYPH K003=01319D;EGYPTIAN HIEROGLYPH L002=0131A4" \o
      ";EGYPTIAN HIEROGLYPH M001=0131AD;EGYPTIAN HIEROGLYPH M010=0131B9;BAMUM LETTER PHASE-D SOT=016924" \o
      ";BAMUM LETTER PHASE-D PUQ=01695D;MUSICAL SYMBOL KIEVAN FLAT SIGN=01D1E8" \o
      ";TETRAGRAM FOR GREATNESS=01D332;TETRAGRAM FOR DEPARTURE=01D347" \o
      ";SIGNWRITING MOVEMENT-WALLPLANE ZIGZAG MEDIUM=01D946" \o
      ";NEGATIVE CIRCLED LATIN CAPITAL LETTER K=01F15A;PALM TREE=01F334;MUSHROOM=01F344" \o
      ";BLOCK SEXTANT-245=01FB18;BLOCK SEXTANT-236=01FB24;BLOCK SEXTANT-146=01FB27" \o
      ";UPPER RIGHT BLOCK DIAGONAL UPPER CENTRE TO LOWER MIDDLE RIGHT=01FB64",
    ";CENT SIGN=0000A2;LATIN CAPITAL LETTER S WITH COMMA BELOW=000218;ARABIC LETTER DAD=000636" \o
      ";ORIYA LETTER SSA=000B37;TELUGU LETTER TA=000C24;TELUGU DIGIT SIX=000C6C" \o
      ";CANADIAN SYLLABICS NASKAPI STWA=00150D;RUNIC LETTER IOR=0016E1;DOWN TACK=0022A4" \o
      ";PARENTHESIZED DIGIT SIX=002479;BOX DRAWINGS UP SINGLE AND RIGHT DOUBLE=002558" \o
      ";BOX DRAWINGS UP DOUBLE AND RIGHT SINGLE=002559;QUINCUNX=0026BB;EIGHT POINTED BLACK STAR=002734" \o
      ";LONG RIGHTWARDS SQUIGGLE ARROW=0027FF;LEFTWARDS DOUBLE ARROW FROM BAR=002906" \o
      ";PRECEDES ABOVE SINGLE-LINE NOT EQUAL TO=002AB1;GLAGOLITIC SMALL LETTER BIG YUS=002C58" \o
      ";COPTIC FULL STOP=002CFE;YI SYLLABLE BURX=00A030;YI SYLLABLE NBYX=00A08C;YI SYLLABLE MUOP=00A0BC" \o
      ";YI SYLLABLE HLUX=00A1AC;YI SYLLABLE HLYT=00A1B1;YI SYLLABLE MGUX=00A241;YI SYLLABLE HXIX=00A247" \o
      ";YI SYLLABLE NZIP=00A2F0;YI SYLLABLE NZAX=00A2F5;YI SYLLABLE ZHOP=00A350;YI SYLLABLE RREX=00A385" \o
      ";YI SYLLABLE JJUX=00A428;YI SYLLABLE JJYT=00A42D;YI SYLLABLE NJYP=00A447;BAMUM LETTER YOQ=00A6BF" \o
      ";MODIFIER LETTER HIGH LEFT-STEM TONE BAR=00A713;JAVANESE PANGKON=00A9C0" \o
      ";MEETEI MAYEK VOWEL SIGN VISARGA=00AAF5;CHEROKEE SMALL LETTER KA=00AB77" \o
      ";CHEROKEE SMALL LETTER GE=00AB78;HANGUL JUNGSEONG ARAEA-E=00D7C6" \o
      ";ARABIC SYMBOL DOUBLE VERTICAL BAR BELOW=00FBBC;CHAKMA LETTER DAA=011118" \o
      ";CANADIAN SYLLABICS NATTILIK HOO=011AB3;PAU CIN HAU GLOTTAL STOP=011AF5" \o
      ";BHAIKSUKI NUMBER NINETY=011C6B;MARCHEN HEAD MARK=011C70" \o
      ";CUNEIFORM SIGN UD TIMES U PLUS U PLUS U=012317;EGYPTIAN HIEROGLYPH A059=013044" \o
      ";EGYPTIAN HIEROGLYPH A068=01304D;EGYPTIAN HIEROGLYPH D029=013094;EGYPTIAN HIEROGLYPH D038=01309F" \o
      ";EGYPTIAN HIEROGLYPH D047=0130A9;EGYPTIAN HIEROGLYPH D056=0130BE;EGYPTIAN HIEROGLYPH D065=0130C7" \o
      ";EGYPTIAN HIEROGLYPH E019=0130E8;EGYPTIAN HIEROGLYPH E028=0130F2;EGYPTIAN HIEROGLYPH E037=0130FC" \o
      ";EGYPTIAN HIEROGLYPH F009=013107;EGYPTIAN HIEROGLYPH F018=013111;EGYPTIAN HIEROGLYPH F027=01311B" \o
      ";EGYPTIAN HIEROGLYPH F036=013125;EGYPTIAN HIEROGLYPH F045=013130;EGYPTIAN HIEROGLYPH G008=013149" \o
      ";EGYPTIAN HIEROGLYPH G017=013153;EGYPTIAN HIEROGLYPH G026=01315D;EGYPTIAN HIEROGLYPH G035=013167" \o
      ";EGYPTIAN HIEROGLYPH G044=013173;EGYPTIAN HIEROGLYPH G053=01317D;EGYPTIAN HIEROGLYPH H007=013186" \o
      ";EGYPTIAN HIEROGLYPH I006=01318E;EGYPTIAN HIEROGLYPH I015=01319A;EGYPTIAN HIEROGLYPH K004=01319E" \o
      ";EGYPTIAN HIEROGLYPH L003=0131A6;EGYPTIAN HIEROGLYPH M002=0131B0;EGYPTIAN HIEROGLYPH M011=0131BB" \o
      ";EGYPTIAN HIEROGLYPH M020=0131CF;EGYPTIAN HIEROGLYPH N001=0131EF;EGYPTIAN HIEROGLYPH N010=0131F8" \o
      ";BAMUM LETTER PHASE-E TUM=0169AA;BAMUM LETTER PHASE-E YIT=0169AE;TANGSA LETTER UX=016A87" \o
      ";PAHAWH HMONG DIGIT THREE=016B53;MUSICAL SYMBOL SEMIBREVIS REST=01D1C4" \o
      ";MATHEMATICAL BOLD ITALIC SMALL A=01D482;MATHEMATICAL BOLD SMALL OMICRON=01D6D0" \o
      ";MATHEMATICAL SANS-SERIF BOLD SMALL BETA=01D771" \o
      ";MATHEMATICAL SANS-SERIF BOLD ITALIC RHO SYMBOL=01D7C8" \o
      ";SIGNWRITING HAND-CUP INDEX RING LITTLE=01D8C0;SIGNWRITING SHOULDER HIP SPINE=01DA6D" \o
      ";LATIN SMALL LETTER REVERSED ENG=01DF07;NEGATIVE CIRCLED LATIN CAPITAL LETTER L=01F15B" \o
      ";HEART WITH ARROW=01F498;OPEN LOCK=01F513;RESTROOM=01F6BB;BLOCK SEXTANT-345=01FB1A" \o
      ";BLOCK SEXTANT-156=01FB2E",
    ";LATIN CAPITAL LETTER T WITH COMMA BELOW=00021A;CYRILLIC CAPITAL LETTER BIG YUS=00046A" \o
      ";ARABIC POETIC VERSE SIGN=00060E;ARABIC LETTER LAM WITH DOT ABOVE=0006B6" \o
      ";ARABIC LETTER SEEN WITH FOUR DOTS ABOVE=00075C;ORIYA LETTER NYA=000B1E;TELUGU LETTER AU=000C14" \o
      ";THAI CHARACTER PHO PHUNG=000E1C;LAO VOWEL SIGN AA=000EB2;KHMER LETTER SSO=00179E" \o
      ";MONGOLIAN LETTER SIBE DA=001869;TAI LE LETTER THA=001957;OL CHIKI PHAARKAA=001C7C" \o
      ";VEDIC SIGN ROTATED ARDHAVISARGA=001CF3;SOUTH WEST DOUBLE ARROW=0021D9" \o
      ";UPWARDS WHITE DOUBLE ARROW ON PEDESTAL=0021EF;APL FUNCTIONAL SYMBOL DEL STILE=002352" \o
      ";NEXT PAGE=002398;DOUBLE CIRCLED DIGIT TWO=0024F6;RADIOACTIVE SIGN=002622" \o
      ";RECYCLING SYMBOL FOR GENERIC MATERIALS=00267A;HEAVY CHEVRON SNOWFLAKE=002746" \o
      ";BENT ARROW POINTING DOWNWARDS THEN NORTH EAST=002B5E;HIRAGANA LETTER SMALL WA=00308E" \o
      ";KATAKANA LETTER SMALL HO=0031F9;KATAKANA LETTER SMALL RE=0031FE;YI SYLLABLE HMUX=00A0A4" \o
      ";YI SYLLABLE NUOP=00A189;YI SYLLABLE CURX=00A2C8;YI SYLLABLE ZZIE=00A2D6;YI SYLLABLE SHOX=00A3B3" \o
      ";YI SYLLABLE SHUR=00A3BF;YI SYLLABLE JUOT=00A3E8;LATIN CAPITAL LETTER VOLAPUK OE=00A79C" \o
      ";SYLOTI NAGRI LETTER TTO=00A810;SAURASHTRA SIGN VISARGA=00A881;KAYAH LI LETTER I=00A924" \o
      ";JAVANESE LETTER KA SASAK=00A990;TAI VIET LETTER HIGH NYO=00AA91;CHEROKEE SMALL LETTER HE=00AB7E" \o
      ";CHEROKEE SMALL LETTER LA=00AB83;CHEROKEE SMALL LETTER DI=00ABA7" \o
      ";COPTIC EPACT NUMBER TWO HUNDRED=0102F4;BRAHMI LETTER VOCALIC LL=01100E;MODI DOUBLE DANDA=011642" \o
      ";MARCHEN LETTER -A=011C88;MASARAM GONDI LETTER PHA=011D21;MASARAM GONDI LETTER LLA=011D2D" \o
      ";GUNJALA GONDI LETTER LLA=011D7F;GUNJALA GONDI LETTER PHA=011D86" \o
      ";CUNEIFORM NUMERIC SIGN TWO THIRDS DISH=01245B;EGYPTIAN HIEROGLYPH A069=01304E" \o
      ";EGYPTIAN HIEROGLYPH D039=0130A0;EGYPTIAN HIEROGLYPH D048=0130AA;EGYPTIAN HIEROGLYPH D057=0130BF" \o
      ";EGYPTIAN HIEROGLYPH D066=0130C8;EGYPTIAN HIEROGLYPH E029=0130F4;EGYPTIAN HIEROGLYPH E038=0130FD" \o
      ";EGYPTIAN HIEROGLYPH F019=013112;EGYPTIAN HIEROGLYPH F028=01311C;EGYPTIAN HIEROGLYPH F037=013126" \o
      ";EGYPTIAN HIEROGLYPH F046=013132;EGYPTIAN HIEROGLYPH G009=01314A;EGYPTIAN HIEROGLYPH G018=013154" \o
      ";EGYPTIAN HIEROGLYPH G027=01315F;EGYPTIAN HIEROGLYPH G036=013168;EGYPTIAN HIEROGLYPH G045=013174" \o
      ";EGYPTIAN HIEROGLYPH G054=01317E;EGYPTIAN HIEROGLYPH H008=013187;EGYPTIAN HIEROGLYPH I007=01318F" \o
      ";EGYPTIAN HIEROGLYPH K005=01319F;EGYPTIAN HIEROGLYPH L004=0131A7;EGYPTIAN HIEROGLYPH M003=0131B1" \o
      ";EGYPTIAN HIEROGLYPH M012=0131BC;EGYPTIAN HIEROGLYPH M021=0131D0;EGYPTIAN HIEROGLYPH M030=0131DC" \o
      ";EGYPTIAN HIEROGLYPH N002=0131F0;EGYPTIAN HIEROGLYPH N011=0131F9;EGYPTIAN HIEROGLYPH N020=013204" \o
      ";EGYPTIAN HIEROGLYPH O001=013250;EGYPTIAN HIEROGLYPH O010=013261;TANGSA LETTER VX=016A7B" \o
      ";PAHAWH HMONG SIGN VOS TSHAB CEEB=016B38;KATAKANA LETTER MINNAN NASALIZED TONE-1=01AFF7" \o
      ";MATHEMATICAL BOLD ITALIC SMALL B=01D483;SIGNWRITING HAND-FIST INDEX THUMB HOOK=01D8E6" \o
      ";ADLAM CAPITAL LETTER WAW=01E90F;OTTOMAN SIYAQ FRACTION ONE HALF=01ED3C" \o
      ";NEGATIVE CIRCLED LATIN CAPITAL LETTER M=01F15C;THUMBS DOWN SIGN=01F44E;HEART DECORATION=01F49F" \o
      ";BLOCK SEXTANT-346=01FB29;BLOCK SEXTANT-256=01FB2F",
    ";BACKSPACE=000008;LATIN SMALL LETTER TURNED DELTA=00018D;COMBINING INVERTED BRIDGE BELOW=00033A" \o
      ";GREEK CAPITAL LETTER PHI=0003A6;GREEK SMALL LETTER ALPHA=0003B1;ORIYA LETTER TTA=000B1F" \o
      ";TELUGU LETTER VA=000C35;HANGUL JONGSEONG YESIEUNG-SIOS=0011F1" \o
      ";CANADIAN SYLLABICS CARRIER TTSE=001669;HANUNOO LETTER U=001722;KHMER LETTER NYO=001789" \o
      ";BALINESE LETTER TA LATIK=001B1D;SUNDANESE PUNCTUATION BINDU KA SATANGA=001CC5" \o
      ";GREEK SMALL LETTER UPSILON WITH DASIA AND PERISPOMENI=001F57" \o
      ";GREEK SMALL LETTER UPSILON WITH MACRON=001FE1;TURNED DIGIT TWO=00218A" \o
      ";RIGHTWARDS ARROW OVER LEFTWARDS ARROW=0021C4;LEFTWARDS ARROW OVER RIGHTWARDS ARROW=0021C6" \o
      ";BLACK SHOGI PIECE=002617;RIGHT OUTER JOIN=0027D6;IDENTICAL WITH DOT ABOVE=002A67" \o
      ";CJK RADICAL SHEEP=002EB6;KATAKANA LETTER SMALL WA=0030EE;HANGUL LETTER YU=003160" \o
      ";SQUARE KA=003384;YI SYLLABLE DURX=00A118;YI SYLLABLE GUOX=00A1E7;YI SYLLABLE HXOT=00A256" \o
      ";YI SYLLABLE SSIT=00A32A;YI SYLLABLE SSEX=00A339;YI SYLLABLE RROP=00A383;YI SYLLABLE NJYR=00A449" \o
      ";LISU LETTER TSHA=00A4DE;TAI VIET MAI KHIT=00AAB7;CHEROKEE SMALL LETTER MA=00AB89" \o
      ";SMALL RIGHT PARENTHESIS=00FE5A;PHAISTOS DISC SIGN EAGLE=0101EE;OSMANYA LETTER U=01049A" \o
      ";YEZIDI LETTER ZE=010E96;SIDDHAM LETTER VOCALIC R=011586;AHOM LETTER ALTERNATE GA=011716" \o
      ";CUNEIFORM SIGN GAD OVER GAD GAR OVER GAR=0120F1;CUNEIFORM SIGN GAN2 TENU=0120F8" \o
      ";CUNEIFORM SIGN URU TIMES ASHGAB=012339;CUNEIFORM SIGN DUG TIMES KUSHU2=01249C" \o
      ";EGYPTIAN HIEROGLYPH D049=0130AC;EGYPTIAN HIEROGLYPH D058=0130C0;EGYPTIAN HIEROGLYPH D067=0130C9" \o
      ";EGYPTIAN HIEROGLYPH F029=01311D;EGYPTIAN HIEROGLYPH F038=013128;EGYPTIAN HIEROGLYPH F047=013134" \o
      ";EGYPTIAN HIEROGLYPH G019=013155;EGYPTIAN HIEROGLYPH G028=013160;EGYPTIAN HIEROGLYPH G037=01316A" \o
      ";EGYPTIAN HIEROGLYPH G046=013176;EGYPTIAN HIEROGLYPH I008=013190;EGYPTIAN HIEROGLYPH K006=0131A0" \o
      ";EGYPTIAN HIEROGLYPH L005=0131A8;EGYPTIAN HIEROGLYPH M004=0131B3;EGYPTIAN HIEROGLYPH M013=0131C5" \o
      ";EGYPTIAN HIEROGLYPH M022=0131D1;EGYPTIAN HIEROGLYPH M031=0131DD;EGYPTIAN HIEROGLYPH M040=0131E9" \o
      ";EGYPTIAN HIEROGLYPH N003=0131F1;EGYPTIAN HIEROGLYPH N012=0131FA;EGYPTIAN HIEROGLYPH N021=013205" \o
      ";EGYPTIAN HIEROGLYPH N030=01320F;EGYPTIAN HIEROGLYPH O002=013252;EGYPTIAN HIEROGLYPH O011=013265" \o
      ";EGYPTIAN HIEROGLYPH O020=01326F;EGYPTIAN HIEROGLYPH P001=01329B;EGYPTIAN HIEROGLYPH P010=0132A6" \o
      ";TANGSA LETTER UZ=016A84;KATAKANA LETTER MINNAN NASALIZED TONE-2=01AFF8" \o
      ";TETRAGRAM FOR CLOSENESS=01D326;MATHEMATICAL BOLD ITALIC SMALL C=01D484" \o
      ";MATHEMATICAL SANS-SERIF BOLD CAPITAL PI=01D765;SIGNWRITING MOVEMENT-FLOORPLANE CHECK=01D977" \o
      ";SIGNWRITING EYEGAZE-FLOORPLANE STRAIGHT ALTERNATING=01DA26" \o
      ";INDIC SIYAQ NUMBER FOUR HUNDRED=01EC86;NEGATIVE CIRCLED LATIN CAPITAL LETTER N=01F15D" \o
      ";OPEN BOOK=01F4D6;ALCHEMICAL SYMBOL FOR IRON ORE-2=01F71D;BLOCK SEXTANT-356=01FB31" \o
      ";UPPER RIGHT BLOCK DIAGONAL UPPER CENTRE TO UPPER MIDDLE RIGHT=01FB62",
    ";SUPERSCRIPT TWO=0000B2;COMBINING RIGHT ARROWHEAD ABOVE=000350;GREEK CAPITAL LETTER SAN=0003FA" \o
      ";ARABIC SIGN SANAH=000601;ARABIC LETTER KIRGHIZ OE=0006C5;MANDAIC AFFRICATION MARK=000859" \o
      ";ARABIC LETTER ALEF WITH ATTACHED LEFT ROUND DOT=000878;DEVANAGARI SIGN AVAGRAHA=00093D" \o
      ";BENGALI SIGN CANDRABINDU=000981;THAI CHARACTER THO THONG=000E18" \o
      ";ETHIOPIC SYLLABLE SEBATBEIT FWA=001388;MONGOLIAN LETTER SIBE FA=00186B" \o
      ";GREATER-THAN OR EQUAL TO=002265;EQUAL TO OR GREATER-THAN=0022DD" \o
      ";IDEOGRAPHIC DEPARTING TONE MARK=00302C;HIRAGANA LETTER SMALL YA=003083;SQUARE KB=003385" \o
      ";YI SYLLABLE PUOP=00A045;YI SYLLABLE LUOT=00A1C3;YI SYLLABLE HXUO=00A254;YI SYLLABLE HUOX=00A276" \o
      ";YI SYLLABLE SHUT=00A3BA;YI SYLLABLE SHYP=00A3C3;YI SYLLABLE NYIT=00A44A" \o
      ";JAVANESE LETTER GA MURDA=00A993;CHAM PUNCTUATION SPIRAL=00AA5C;CHEROKEE SMALL LETTER NA=00AB8E" \o
      ";MODIFIER LETTER SMALL AE=010783;OLD SOGDIAN LETTER ALEPH=010F00;OLD UYGHUR LETTER ZAYIN=010F74" \o
      ";CHAKMA LETTER GAA=011109;NEWA DOUBLE DANDA=01144C;WARANG CITI CAPITAL LETTER VIYO=0118BF" \o
      ";SOYOMBO GEMINATION MARK=011A98;BHAIKSUKI VOWEL SIGN VOCALIC RR=011C35" \o
      ";CUNEIFORM SIGN GUD PLUS GISH TIMES TAK4=0124CD;EGYPTIAN HIEROGLYPH D059=0130C1" \o
      ";EGYPTIAN HIEROGLYPH F039=01312A;EGYPTIAN HIEROGLYPH F048=013136;EGYPTIAN HIEROGLYPH G029=013161" \o
      ";EGYPTIAN HIEROGLYPH G038=01316C;EGYPTIAN HIEROGLYPH G047=013177;EGYPTIAN HIEROGLYPH I009=013191" \o
      ";EGYPTIAN HIEROGLYPH K007=0131A1;EGYPTIAN HIEROGLYPH L006=0131A9;EGYPTIAN HIEROGLYPH M005=0131B4" \o
      ";EGYPTIAN HIEROGLYPH M014=0131C6;EGYPTIAN HIEROGLYPH M023=0131D3;EGYPTIAN HIEROGLYPH M032=0131DF" \o
      ";EGYPTIAN HIEROGLYPH M041=0131EB;EGYPTIAN HIEROGLYPH N004=0131F2;EGYPTIAN HIEROGLYPH N013=0131FB" \o
      ";EGYPTIAN HIEROGLYPH N022=013206;EGYPTIAN HIEROGLYPH N031=013210;EGYPTIAN HIEROGLYPH N040=01321D" \o
      ";EGYPTIAN HIEROGLYPH O003=013253;EGYPTIAN HIEROGLYPH O012=013266;EGYPTIAN HIEROGLYPH O021=013271" \o
      ";EGYPTIAN HIEROGLYPH O030=01327D;EGYPTIAN HIEROGLYPH P002=01329D;EGYPTIAN HIEROGLYPH P011=0132A7" \o
      ";EGYPTIAN HIEROGLYPH Q001=0132A8;BAMUM LETTER PHASE-A SUU=016815;BAMUM LETTER PHASE-C YUM=016891" \o
      ";TANGSA LETTER VZ=016A78;MIAO LETTER ZZSA=016F3E;KATAKANA LETTER MINNAN NASALIZED TONE-3=01AFF9" \o
      ";BYZANTINE MUSICAL SYMBOL APESO EXO NEO=01D033" \o
      ";BYZANTINE MUSICAL SYMBOL FHTORA SKLIRON CHROMA VASIS=01D0C5" \o
      ";BYZANTINE MUSICAL SYMBOL FTHORA SKLIRON CHROMA VASIS=01D0C5;MUSICAL SYMBOL Z=01D18E" \o
      ";MATHEMATICAL BOLD ITALIC SMALL D=01D485;MATHEMATICAL BOLD SMALL EPSILON=01D6C6" \o
      ";ADLAM CAPITAL LETTER NUN=01E910;ARABIC MATHEMATICAL ZAIN=01EE06" \o
      ";NEGATIVE CIRCLED LATIN CAPITAL LETTER O=01F15E;MANS SHOE=01F45E;ENVELOPE WITH LIGHTNING=01F584" \o
      ";HEAVY TWELVE POINTED BLACK STAR=01F7D3;DOWNWARDS ARROW WITH LARGE TRIANGLE ARROWHEAD=01F80B" \o
      ";WIDE-HEADED NORTH WEST HEAVY BARB ARROW=01F87C;BLOCK SEXTANT-456=01FB35",
    ";ARMENIAN SMALL LETTER JA=000571;ARABIC LETTER DAL WITH DOT BELOW=00068A" \o
      ";ARABIC LETTER YEH WITH THREE DOTS BELOW=0006D1;HANGUL JUNGSEONG I-ARAEA=00119D" \o
      ";HANGUL JUNGSEONG ARAEA-I=0011A1;HANGUL JONGSEONG TIKEUT=0011AE;MONGOLIAN LETTER SIBE GA=001864" \o
      ";LATIN CAPITAL LETTER U WITH HORN AND HOOK ABOVE=001EEC;MILL SIGN=0020A5" \o
      ";LEFTWARDS PAIRED ARROWS=0021C7;NOT AN ELEMENT OF=002209;SURFACE INTEGRAL=00222F" \o
      ";ERASE TO THE LEFT=00232B;VERTICAL LINE EXTENSION=0023D0;SUPERSET ABOVE LEFTWARDS ARROW=00297B" \o
      ";VECTOR OR CROSS PRODUCT=002A2F;SUCCEEDS ABOVE SINGLE-LINE NOT EQUAL TO=002AB2" \o
      ";COPTIC SMALL LETTER ALFA=002C81;COPTIC CAPITAL LETTER FI=002CAA" \o
      ";COMBINING CYRILLIC LETTER ES-TE=002DF5;KATAKANA LETTER SMALL YA=0030E3;SQUARE MA=003383" \o
      ";SQUARE AM=0033C2;YI SYLLABLE BYRX=00A036;YI SYLLABLE MUOT=00A0B9;YI SYLLABLE FURX=00A0DC" \o
      ";YI SYLLABLE HLYX=00A1B2;YI SYLLABLE ZZAP=00A2DB;YI SYLLABLE NZIT=00A2ED;YI SYLLABLE NZEX=00A2FC" \o
      ";YI SYLLABLE SSOP=00A338;YI SYLLABLE ZHOT=00A34D;YI SYLLABLE NRUP=00A3A2;YI SYLLABLE QUOP=00A407" \o
      ";YI SYLLABLE JJYX=00A42E;YI SYLLABLE NJUX=00A43F;YI SYLLABLE NJYT=00A444;BAMUM LETTER SUU=00A6B4" \o
      ";CHEROKEE SMALL LETTER GI=00AB79;ARABIC LIGATURE YEH WITH HAMZA ABOVE WITH AE FINAL FORM=00FBED" \o
      ";ARABIC LIGATURE BEH WITH HEH MEDIAL FORM=00FCE2;LINEAR B IDEOGRAM B130 OIL=010095" \o
      ";CARIAN LETTER MB2=0102CB;OSAGE CAPITAL LETTER HYA=0104BA;CAUCASIAN ALBANIAN LETTER DZYAY=01054F" \o
      ";CHAKMA LETTER HAA=011126;MULTANI LETTER U=011282;NANDINAGARI VOWEL SIGN E=0119DA" \o
      ";MASARAM GONDI LETTER SHA=011D29;CUNEIFORM SIGN LUGAL OVER LUGAL=012218" \o
      ";CUNEIFORM PUNCTUATION SIGN OLD ASSYRIAN WORD DIVIDER=012470;EGYPTIAN HIEROGLYPH F049=013137" \o
      ";EGYPTIAN HIEROGLYPH G039=01316D;EGYPTIAN HIEROGLYPH G048=013178;EGYPTIAN HIEROGLYPH K008=0131A2" \o
      ";EGYPTIAN HIEROGLYPH L007=0131AB;EGYPTIAN HIEROGLYPH M006=0131B5;EGYPTIAN HIEROGLYPH M015=0131C7" \o
      ";EGYPTIAN HIEROGLYPH M024=0131D4;EGYPTIAN HIEROGLYPH M033=0131E0;EGYPTIAN HIEROGLYPH M042=0131EC" \o
      ";EGYPTIAN HIEROGLYPH N005=0131F3;EGYPTIAN HIEROGLYPH N014=0131FC;EGYPTIAN HIEROGLYPH N023=013207" \o
      ";EGYPTIAN HIEROGLYPH N032=013211;EGYPTIAN HIEROGLYPH N041=01321E;EGYPTIAN HIEROGLYPH O004=013254" \o
      ";EGYPTIAN HIEROGLYPH O013=013267;EGYPTIAN HIEROGLYPH O022=013272;EGYPTIAN HIEROGLYPH O031=01327F" \o
      ";EGYPTIAN HIEROGLYPH O040=01328D;EGYPTIAN HIEROGLYPH P003=01329E;EGYPTIAN HIEROGLYPH Q002=0132A9" \o
      ";EGYPTIAN HIEROGLYPH R001=0132AF;EGYPTIAN HIEROGLYPH R010=0132BB" \o
      ";BAMUM LETTER PHASE-A PON PA NJI PIPAEMBA=01680A;BAMUM LETTER PHASE-C WUP=0168D1" \o
      ";BAMUM LETTER PHASE-F YOQ=016A1B;KATAKANA LETTER MINNAN NASALIZED TONE-4=01AFFA" \o
      ";BYZANTINE MUSICAL SYMBOL PARAKALESMA ARCHAION=01D03D" \o
      ";BYZANTINE MUSICAL SYMBOL STRAGGISMATA=01D044" \o
      ";MUSICAL SYMBOL ONE HUNDRED TWENTY-EIGHTH REST=01D142;TETRAGRAM FOR FOLLOWING=01D318" \o
      ";TETRAGRAM FOR FOSTERING=01D356;MATHEMATICAL BOLD ITALIC SMALL E=01D486" \o
      ";NYIAKENG PUACHUE HMONG LETTER U=01E127;MENDE KIKAKUI DIGIT FOUR=01E8CA" \o
      ";INDIC SIYAQ NUMBER ONE THOUSAND=01EC8C;PLAYING CARD BACK=01F0A0" \o
      ";NEGATIVE CIRCLED LATIN CAPITAL LETTER P=01F15F;SQUARE DJ=01F190;MUSICAL KEYBOARD=01F3B9" \o
      ";LEFTWARDS ARROW WITH SMALL TRIANGLE ARROWHEAD=01F800" \o
      ";SMILING FACE WITH SMILING EYES AND HAND COVERING MOUTH=01F92D;RIGHT FIVE EIGHTHS BLOCK=01FB89",
    ";EXCLAMATION MARK=000021;LATIN CAPITAL LETTER ENG=00014A;COMBINING SHORT STROKE OVERLAY=000335" \o
      ";GREEK SMALL LETTER OMEGA=0003C9;ARMENIAN MODIFIER LETTER LEFT HALF RING=000559" \o
      ";ARABIC LETTER FARSI YEH WITH INVERTED V=00063D;ARABIC LETTER GAF=0006AF" \o
      ";MANDAIC LETTER AB=000841;ARABIC LETTER KAF WITH DOT BELOW=0008B4;TELUGU LETTER YA=000C2F" \o
      ";KANNADA LETTER AA=000C86;SINHALA PUNCTUATION KUNDDALIYA=000DF4;MONGOLIAN LETTER SIBE HA=001865" \o
      ";BALLOON-SPOKED ASTERISK=002749;PLUTO FORM THREE=002BD4;GLAGOLITIC CAPITAL LETTER NASHI=002C10" \o
      ";KATAKANA LETTER SMALL RI=0031FC;SQUARE HG=0032CC;SQUARE NA=003381;SQUARE MB=003386" \o
      ";YI SYLLABLE HMYX=00A0A9;YI SYLLABLE GURX=00A1F6;YI SYLLABLE CYRX=00A2CE;YI SYLLABLE ZHUO=00A34B" \o
      ";YI SYLLABLE SHYR=00A3C5;YI SYLLABLE RUOP=00A3CC;YI SYLLABLE JUOX=00A3E9;YI SYLLABLE NYOP=00A458" \o
      ";CHAM VOWEL SIGN I=00AA2A;MYANMAR LETTER SHWE PALAUNG SHA=00AA7F;CHEROKEE SMALL LETTER HI=00AB7F" \o
      ";CHEROKEE SMALL LETTER LE=00AB84;MEETEI MAYEK LETTER CHIL=00ABC6;MEETEI MAYEK LETTER JHAM=00ABD3" \o
      ";HEBREW LETTER WIDE DALET=00FB22;HEBREW LETTER ZAYIN WITH DAGESH=00FB36" \o
      ";GREEK ACROPHONIC HERMIONIAN ONE=01015A;CARIAN LETTER MB3=0102CC;CARIAN LETTER LD2=0102CE" \o
      ";OSAGE CAPITAL LETTER ZHA=0104D3;MEROITIC CURSIVE NUMBER FIVE HUNDRED THOUSAND=0109F1" \o
      ";MEROITIC CURSIVE NUMBER NINE HUNDRED THOUSAND=0109F5;MANICHAEAN LETTER LAMEDH=010AD3" \o
      ";YEZIDI LETTER UM=010EA3;YEZIDI HYPHENATION MARK=010EAD;CHORASMIAN LETTER ZAYIN=010FB8" \o
      ";CHAKMA DIGIT FIVE=01113B;CHAKMA DIGIT NINE=01113F;SHARADA SIGN CANDRABINDU=011180" \o
      ";TIRHUTA LETTER O=01148D;MASARAM GONDI LETTER NNA=011D1A;MASARAM GONDI LETTER THA=011D1C" \o
      ";MASARAM GONDI DIGIT FOUR=011D54;GUNJALA GONDI LETTER THA=011D74;GUNJALA GONDI DIGIT FOUR=011DA4" \o
      ";TAMIL FRACTION ONE FIFTH=011FCF;CUNEIFORM SIGN A TIMES GAN2 TENU=012003" \o
      ";CUNEIFORM NUMERIC SIGN ONE QUARTER GUR=012463;CUNEIFORM SIGN URU TIMES LAK-668=01253F" \o
      ";EGYPTIAN HIEROGLYPH G049=013179;EGYPTIAN HIEROGLYPH L008=0131AC;EGYPTIAN HIEROGLYPH M007=0131B6" \o
      ";EGYPTIAN HIEROGLYPH M016=0131C9;EGYPTIAN HIEROGLYPH M025=0131D6;EGYPTIAN HIEROGLYPH M034=0131E3" \o
      ";EGYPTIAN HIEROGLYPH M043=0131ED;EGYPTIAN HIEROGLYPH N006=0131F4;EGYPTIAN HIEROGLYPH N015=0131FD" \o
      ";EGYPTIAN HIEROGLYPH N024=013208;EGYPTIAN HIEROGLYPH N033=013212;EGYPTIAN HIEROGLYPH N042=01321F" \o
      ";EGYPTIAN HIEROGLYPH O005=013255;EGYPTIAN HIEROGLYPH O014=013268;EGYPTIAN HIEROGLYPH O023=013273" \o
      ";EGYPTIAN HIEROGLYPH O032=013280;EGYPTIAN HIEROGLYPH O041=01328E;EGYPTIAN HIEROGLYPH O050=013297" \o
      ";EGYPTIAN HIEROGLYPH P004=0132A0;EGYPTIAN HIEROGLYPH Q003=0132AA;EGYPTIAN HIEROGLYPH R002=0132B0" \o
      ";EGYPTIAN HIEROGLYPH R011=0132BD;EGYPTIAN HIEROGLYPH R020=0132C7;EGYPTIAN HIEROGLYPH S001=0132D1" \o
      ";EGYPTIAN HIEROGLYPH S010=0132DC;BAMUM LETTER PHASE-E WUO=016975" \o
      ";KATAKANA LETTER MINNAN NASALIZED TONE-5=01AFFB;HIRAGANA LETTER SMALL WE=01B151" \o
      ";TETRAGRAM FOR CONSTANCY=01D338;MATHEMATICAL BOLD ITALIC SMALL F=01D487" \o
      ";MATHEMATICAL DOUBLE-STRUCK DIGIT SEVEN=01D7DF;SIGNWRITING MOUTH TENSE SUCKED=01DA52" \o
      ";NEGATIVE CIRCLED LATIN CAPITAL LETTER Q=01F160;WIDE-HEADED LEFTWARDS MEDIUM BARB ARROW=01F870" \o
      ";RIGHT AND LOWER ONE EIGHTH BLOCK=01FB7F",
    ";GREEK SMALL LETTER DELTA=0003B4;CYRILLIC SMALL LETTER KOMI DZJE=000507" \o
      ";ARMENIAN SMALL LETTER EH=000567;HEBREW LIGATURE YIDDISH VAV YOD=0005F1;ARABIC LETTER BEH=000628" \o
      ";ARABIC LETTER U WITH HAMZA ABOVE=000677;ARABIC LETTER FEH WITH DOT BELOW=0006A3" \o
      ";THAANA LETTER BAA=000784;TELUGU DIGIT TWO=000C68;KANNADA LETTER BA=000CAC" \o
      ";KANNADA DIGIT ONE=000CE7;LAO LETTER FO FAY=000E9F;MYANMAR SHAN DIGIT EIGHT=001098" \o
      ";CANADIAN SYLLABICS CARRIER TTSI=00166B;CANADIAN SYLLABICS OJIBWAY NWII=0018C9" \o
      ";TAI THAM LETTER I=001A4D;BALINESE LETTER VE SASAK=001B49;COMBINING DOT BELOW LEFT=001DFA" \o
      ";NEITHER GREATER-THAN NOR EQUIVALENT TO=002275;PARENTHESIZED DIGIT TWO=002475" \o
      ";INTERLOCKED FEMALE AND MALE SIGN=0026A4;LEFT AND RIGHT DOUBLE TURNSTILE=0027DA" \o
      ";SOUTH EAST TRIANGLE-HEADED ARROW TO BAR=002B78;MASU MARK=00303C" \o
      ";IDEOGRAPHIC ANNOTATION MAN MARK=00319F;KATAKANA LETTER SMALL SI=0031F1;SQUARE DL=003397" \o
      ";SQUARE CM=00339D;YI SYLLABLE KUOX=00A203;YI SYLLABLE HXOX=00A257;YI SYLLABLE NZOP=00A2FB" \o
      ";YI SYLLABLE SUOP=00A316;YI SYLLABLE SSIX=00A32B;YI SYLLABLE ZHUP=00A358;YI SYLLABLE RROT=00A380" \o
      ";YI SYLLABLE NROX=00A398;YI SYLLABLE NRUR=00A3A4;BAMUM LETTER YUQ=00A6C1" \o
      ";CHEROKEE SMALL LETTER ME=00AB8A" \o
      ";ARABIC LIGATURE ALEF MAKSURA WITH SUPERSCRIPT ALEF FINAL FORM=00FC90;CARIAN LETTER MB4=0102CD" \o
      ";COPTIC EPACT DIGIT SEVEN=0102E7;DESERET SMALL LETTER BEE=01043A;HANIFI ROHINGYA LETTER A=010D00" \o
      ";KAITHI NUMBER SIGN ABOVE=0110CD;CHAKMA LETTER JAA=01110E" \o
      ";CUNEIFORM SIGN EZEN TIMES LAL TIMES LAL=0120B0;EGYPTIAN HIEROGLYPH M008=0131B7" \o
      ";EGYPTIAN HIEROGLYPH M017=0131CB;EGYPTIAN HIEROGLYPH M026=0131D7;EGYPTIAN HIEROGLYPH M035=0131E4" \o
      ";EGYPTIAN HIEROGLYPH M044=0131EE;EGYPTIAN HIEROGLYPH N007=0131F5;EGYPTIAN HIEROGLYPH N016=0131FE" \o
      ";EGYPTIAN HIEROGLYPH N025=013209;EGYPTIAN HIEROGLYPH N034=013214;EGYPTIAN HIEROGLYPH O006=013257" \o
      ";EGYPTIAN HIEROGLYPH O015=013269;EGYPTIAN HIEROGLYPH O024=013274;EGYPTIAN HIEROGLYPH O033=013281" \o
      ";EGYPTIAN HIEROGLYPH O042=01328F;EGYPTIAN HIEROGLYPH O051=01329A;EGYPTIAN HIEROGLYPH P005=0132A1" \o
      ";EGYPTIAN HIEROGLYPH Q004=0132AB;EGYPTIAN HIEROGLYPH R003=0132B2;EGYPTIAN HIEROGLYPH R012=0132BE" \o
      ";EGYPTIAN HIEROGLYPH R021=0132C8;EGYPTIAN HIEROGLYPH S002=0132D2;EGYPTIAN HIEROGLYPH S011=0132DD" \o
      ";EGYPTIAN HIEROGLYPH S020=0132E9;EGYPTIAN HIEROGLYPH T001=013307;EGYPTIAN HIEROGLYPH T010=013314" \o
      ";BAMUM LETTER PHASE-D SUU=016952;BAMUM LETTER PHASE-E YUN=0169E5;KATAKANA LETTER SMALL WE=01B165" \o
      ";MUSICAL SYMBOL LEFT REPEAT SIGN=01D106;MATHEMATICAL BOLD ITALIC SMALL G=01D488" \o
      ";MATHEMATICAL SANS-SERIF BOLD DIGIT FIVE=01D7F1;MATHEMATICAL SANS-SERIF BOLD DIGIT NINE=01D7F5" \o
      ";SIGNWRITING MOVEMENT-FLOORPLANE CORNER SMALL=01D974" \o
      ";SIGNWRITING MOVEMENT-FLOORPLANE CURVE HITTING CEILING LARGE=01D9B8" \o
      ";COMBINING GLAGOLITIC LETTER SHA=01E01E;NYIAKENG PUACHUE HMONG LETTER W=01E12C" \o
      ";ADLAM DIGIT EIGHT=01E958;NEGATIVE CIRCLED LATIN CAPITAL LETTER R=01F161;BENTO BOX=01F371" \o
      ";WIDE-HEADED SOUTH WEST LIGHT BARB ARROW=01F867;CLINKING GLASSES=01F942;MOSQUITO=01F99F" \o
      ";TAG HYPHEN-MINUS=0E002D",
    ";CYRILLIC CAPITAL LETTER SHORT I=000419;ARABIC DECIMAL SEPARATOR=00066B" \o
      ";EXTENDED ARABIC-INDIC DIGIT FIVE=0006F5;EXTENDED ARABIC-INDIC DIGIT NINE=0006F9" \o
      ";MANDAIC LETTER AD=000843;ARABIC LETTER KEHEH WITH SMALL V=0008C2" \o
      ";DEVANAGARI VOWEL SIGN II=000940;KANNADA LETTER CA=000C9A;TIBETAN KU RU KHA=000FBE" \o
      ";MYANMAR SYMBOL LOCATIVE=00104C;ETHIOPIC SYLLABLE PHARYNGEAL EE=0012D4" \o
      ";MONGOLIAN LETTER SIBE JA=00186A;BALINESE MUSICAL SYMBOL COMBINING KEMPUL WITH JEGOGAN=001B70" \o
      ";LATIN CAPITAL LETTER U WITH TILDE BELOW=001E74" \o
      ";GREEK SMALL LETTER UPSILON WITH PSILI AND OXIA=001F54;SINE WAVE=00223F" \o
      ";RIGHTWARDS ARROW ABOVE ALMOST EQUAL TO=002975;LOGICAL OR WITH HORIZONTAL DASH=002A5D" \o
      ";GEORGIAN SMALL LETTER HE=002D21;HANGUL LETTER YESIEUNG-PANSIOS=003183" \o
      ";KATAKANA LETTER SMALL HU=0031F7;SQUARE DM=003377;SQUARE PA=0033A9;YI SYLLABLE TUOP=00A128" \o
      ";YI SYLLABLE LUOX=00A1C4;YI SYLLABLE RRUO=00A37F;YI SYLLABLE SHUX=00A3BB;YI SYLLABLE SHYT=00A3C0" \o
      ";YI SYLLABLE NYIX=00A44B;LATIN CAPITAL LETTER VOLAPUK UE=00A79E;PHAGS-PA LETTER A=00A85D" \o
      ";JAVANESE LETTER KA MURDA=00A991;JAVANESE LETTER RA AGUNG=00A9AC;TAI VIET LETTER LOW KHHO=00AA84" \o
      ";CHEROKEE SMALL LETTER NE=00AB91;CHEROKEE SMALL LETTER DO=00ABA9;MEETEI MAYEK DIGIT SEVEN=00ABF7" \o
      ";ARABIC LETTER UIGHUR KAZAKH KIRGHIZ ALEF MAKSURA INITIAL FORM=00FBE8" \o
      ";DESERET CAPITAL LETTER H=010410;OSAGE CAPITAL LETTER KYA=0104BE" \o
      ";MODIFIER LETTER SMALL RAMS HORN=010791;OLD SOGDIAN LETTER GIMEL=010F04;CHAKMA LETTER KAA=011107" \o
      ";GRANTHA LETTER VOCALIC L=01130C;SIDDHAM VOWEL SIGN ALTERNATE UU=0115DD" \o
      ";EGYPTIAN HIEROGLYPH M009=0131B8;EGYPTIAN HIEROGLYPH M018=0131CD;EGYPTIAN HIEROGLYPH M027=0131D8" \o
      ";EGYPTIAN HIEROGLYPH M036=0131E5;EGYPTIAN HIEROGLYPH N008=0131F6;EGYPTIAN HIEROGLYPH N017=0131FF" \o
      ";EGYPTIAN HIEROGLYPH N026=01320B;EGYPTIAN HIEROGLYPH N035=013216;EGYPTIAN HIEROGLYPH O007=01325E" \o
      ";EGYPTIAN HIEROGLYPH O016=01326A;EGYPTIAN HIEROGLYPH O025=013276;EGYPTIAN HIEROGLYPH O034=013283" \o
      ";EGYPTIAN HIEROGLYPH O043=013290;EGYPTIAN HIEROGLYPH P006=0132A2;EGYPTIAN HIEROGLYPH Q005=0132AC" \o
      ";EGYPTIAN HIEROGLYPH R004=0132B5;EGYPTIAN HIEROGLYPH R013=0132BF;EGYPTIAN HIEROGLYPH R022=0132C9" \o
      ";EGYPTIAN HIEROGLYPH S003=0132D4;EGYPTIAN HIEROGLYPH S012=0132DE;EGYPTIAN HIEROGLYPH S021=0132EA" \o
      ";EGYPTIAN HIEROGLYPH S030=0132F5;EGYPTIAN HIEROGLYPH T002=013308;EGYPTIAN HIEROGLYPH T011=013315" \o
      ";EGYPTIAN HIEROGLYPH T020=013320;EGYPTIAN HIEROGLYPH U001=013333;EGYPTIAN HIEROGLYPH U010=01333E" \o
      ";KATAKANA LETTER MINNAN NASALIZED TONE-7=01AFFD;DUPLOYAN AFFIX HIGH LINE=01BC86" \o
      ";ZNAMENNY NEUME PARAKLIT=01CF52;ZNAMENNY NEUME VRAKHIYA KLYUCHEVAYA PROSTAYA=01CF67" \o
      ";MATHEMATICAL BOLD ITALIC SMALL H=01D489" \o
      ";SIGNWRITING HAND-ANGLE LITTLE INDEX THUMB INDEX THUMB=01D89F" \o
      ";INDIC SIYAQ NUMBER PREFIXED SIX=01ECA8;NEGATIVE CIRCLED LATIN CAPITAL LETTER S=01F162" \o
      ";FULL MOON SYMBOL=01F315;GEM STONE=01F48E;MOTORWAY=01F6E3;THREE POINTED BLACK STAR=01F7C2" \o
      ";WHITE CHESS EQUIHOPPER ROTATED NINETY DEGREES=01FA4B",
    ";ARABIC LETTER HAH=00062D;ARABIC LETTER DAL=00062F;KANNADA LETTER DA=000CA6" \o
      ";SINHALA LITH DIGIT SEVEN=000DED;LAO LETTER FO TAM=000E9D;MONGOLIAN LETTER SIBE KA=001863" \o
      ";COMBINING SQUARE BRACKETS ABOVE=001AC5;ADDRESSED TO THE SUBJECT=002101;NORTH EAST ARROW=002197" \o
      ";CUBE ROOT=00221B;NOT TILDE=002241;LEFT SEVEN EIGHTHS BLOCK=002589" \o
      ";GLAGOLITIC CAPITAL LETTER DOBRO=002C04;LATIN SMALL LETTER TAILLESS PHI=002C77" \o
      ";CJK RADICAL TIGER=002EC1;SQUARE KG=00338F;SQUARE CO=0033C7;YI SYLLABLE MUOX=00A0BA" \o
      ";YI SYLLABLE ZZAT=00A2D8;YI SYLLABLE ZZEP=00A2E1;YI SYLLABLE NZIX=00A2EE;YI SYLLABLE SSOT=00A335" \o
      ";YI SYLLABLE ZHOX=00A34E;YI SYLLABLE ZHUR=00A35A;YI SYLLABLE RRUP=00A38B;YI SYLLABLE NRUT=00A39F" \o
      ";YI SYLLABLE NRYP=00A3A8;YI SYLLABLE JURX=00A3F4;YI SYLLABLE QUOT=00A404;YI SYLLABLE NJYX=00A445" \o
      ";CHEROKEE SMALL LETTER SA=00AB9C;LATIN SMALL LIGATURE FFI=00FB03" \o
      ";ARABIC LIGATURE KAF WITH ALEF FINAL FORM=00FC80;HALFWIDTH HANGUL LETTER CHIEUCH=00FFBA" \o
      ";PHAISTOS DISC SIGN CHILD=0101D4;DESERET SMALL LETTER DEE=01043C;OSAGE CAPITAL LETTER OIN=0104C3" \o
      ";CHAKMA LETTER LAA=011123;NANDINAGARI VOWEL SIGN I=0119D2;EGYPTIAN HIEROGLYPH M019=0131CE" \o
      ";EGYPTIAN HIEROGLYPH M028=0131D9;EGYPTIAN HIEROGLYPH M037=0131E6;EGYPTIAN HIEROGLYPH N009=0131F7" \o
      ";EGYPTIAN HIEROGLYPH N018=013200;EGYPTIAN HIEROGLYPH N027=01320C;EGYPTIAN HIEROGLYPH N036=013218" \o
      ";EGYPTIAN HIEROGLYPH O008=01325F;EGYPTIAN HIEROGLYPH O017=01326B;EGYPTIAN HIEROGLYPH O026=013278" \o
      ";EGYPTIAN HIEROGLYPH O035=013284;EGYPTIAN HIEROGLYPH O044=013291;EGYPTIAN HIEROGLYPH P007=0132A3" \o
      ";EGYPTIAN HIEROGLYPH Q006=0132AD;EGYPTIAN HIEROGLYPH R005=0132B6;EGYPTIAN HIEROGLYPH R014=0132C0" \o
      ";EGYPTIAN HIEROGLYPH R023=0132CA;EGYPTIAN HIEROGLYPH S004=0132D5;EGYPTIAN HIEROGLYPH S013=0132DF" \o
      ";EGYPTIAN HIEROGLYPH S022=0132EB;EGYPTIAN HIEROGLYPH S031=0132F6;EGYPTIAN HIEROGLYPH S040=013300" \o
      ";EGYPTIAN HIEROGLYPH T003=013309;EGYPTIAN HIEROGLYPH T012=013317;EGYPTIAN HIEROGLYPH T021=013321" \o
      ";EGYPTIAN HIEROGLYPH T030=01332A;EGYPTIAN HIEROGLYPH U002=013334;EGYPTIAN HIEROGLYPH U011=01333F" \o
      ";EGYPTIAN HIEROGLYPH U020=013348;EGYPTIAN HIEROGLYPH V001=013362;EGYPTIAN HIEROGLYPH V010=013377" \o
      ";BAMUM LETTER PHASE-F SUU=016A12;KATAKANA LETTER MINNAN NASALIZED TONE-8=01AFFE" \o
      ";MATHEMATICAL BOLD ITALIC SMALL I=01D48A;MAHJONG TILE BACK=01F02B" \o
      ";NEGATIVE CIRCLED LATIN CAPITAL LETTER T=01F163;NIGHT WITH STARS=01F303;WAVING BLACK FLAG=01F3F4" \o
      ";UPWARDS HEAVY COMPRESSED ARROW=01F841;THIRD PLACE MEDAL=01F949;BLACK CHESS TURNED QUEEN=01FA25" \o
      ";BLACK CHESS KNIGHT-QUEEN=01FA51;RIGHT AND UPPER ONE EIGHTH BLOCK=01FB7E",
    ";VULGAR FRACTION ONE HALF=0000BD;LATIN SMALL LETTER GAMMA=000263;GREEK SMALL LETTER KAPPA=0003BA" \o
      ";ARABIC LETTER KAF=000643;DEVANAGARI VOWEL SIGN OE=00093A;BENGALI LETTER AA=000986" \o
      ";TELUGU LETTER OO=000C13;THAI CHARACTER THO THUNG=000E16;LAO LETTER FO FON=000E9D" \o
      ";LAO VOWEL SIGN AI=000EC4;HANGUL CHOSEONG CHIEUCH-KHIEUKH=001152;SMALL CONTAINS AS MEMBER=00220D" \o
      ";ALMOST EQUAL OR EQUAL TO=00224A;WHITE FLAG WITH HORIZONTAL MIDDLE BLACK STRIPE=0026FF" \o
      ";LEFTWARDS HARPOON WITH BARB UP FROM BAR=00295A;UPWARDS HARPOON WITH BARB LEFT FROM BAR=002960" \o
      ";GEORGIAN SMALL LETTER AN=002D00;SQUARE PC=003376;SQUARE FM=003399;SQUARE BQ=0033C3" \o
      ";HEXAGRAM FOR WORK ON THE DECAYED=004DD1;YI SYLLABLE NUOX=00A187;YI SYLLABLE KURX=00A212" \o
      ";YI SYLLABLE NYOT=00A455;LATIN SMALL LETTER TURNED O OPEN-O WITH STROKE=00AB44" \o
      ";CHEROKEE SMALL LETTER LI=00AB85;CHEROKEE SMALL LETTER TA=00ABA4;YEZIDI LETTER OW=010EA5" \o
      ";CHAKMA LETTER MAA=01111F;AHOM VOWEL SIGN A=011720;MASARAM GONDI DIGIT ZERO=011D50" \o
      ";GUNJALA GONDI DIGIT ZERO=011DA0;CUNEIFORM NUMERIC SIGN FOUR ASH=012402" \o
      ";EGYPTIAN HIEROGLYPH M029=0131DB;EGYPTIAN HIEROGLYPH M038=0131E7;EGYPTIAN HIEROGLYPH N019=013203" \o
      ";EGYPTIAN HIEROGLYPH N028=01320D;EGYPTIAN HIEROGLYPH N037=013219;EGYPTIAN HIEROGLYPH O009=013260" \o
      ";EGYPTIAN HIEROGLYPH O018=01326C;EGYPTIAN HIEROGLYPH O027=013279;EGYPTIAN HIEROGLYPH O036=013285" \o
      ";EGYPTIAN HIEROGLYPH O045=013292;EGYPTIAN HIEROGLYPH P008=0132A4;EGYPTIAN HIEROGLYPH Q007=0132AE" \o
      ";EGYPTIAN HIEROGLYPH R006=0132B7;EGYPTIAN HIEROGLYPH R015=0132C1;EGYPTIAN HIEROGLYPH R024=0132CB" \o
      ";EGYPTIAN HIEROGLYPH S005=0132D6;EGYPTIAN HIEROGLYPH S014=0132E0;EGYPTIAN HIEROGLYPH S023=0132EC" \o
      ";EGYPTIAN HIEROGLYPH S032=0132F7;EGYPTIAN HIEROGLYPH S041=013301;EGYPTIAN HIEROGLYPH T004=01330B" \o
      ";EGYPTIAN HIEROGLYPH T013=013318;EGYPTIAN HIEROGLYPH T022=013322;EGYPTIAN HIEROGLYPH T031=01332B" \o
      ";EGYPTIAN HIEROGLYPH U003=013335;EGYPTIAN HIEROGLYPH U012=013340;EGYPTIAN HIEROGLYPH U021=013349" \o
      ";EGYPTIAN HIEROGLYPH U030=013354;EGYPTIAN HIEROGLYPH V002=01336C;EGYPTIAN HIEROGLYPH V011=013378" \o
      ";EGYPTIAN HIEROGLYPH V020=013386;EGYPTIAN HIEROGLYPH W001=0133AF;EGYPTIAN HIEROGLYPH W010=0133BA" \o
      ";BAMUM LETTER PHASE-E YUQ=0169E4;PAHAWH HMONG DIGIT SEVEN=016B57;MIAO LETTER YI KA=016F20" \o
      ";MIAO LETTER ZZYA=016F40;HIRAGANA LETTER SMALL WI=01B150" \o
      ";ZNAMENNY COMBINING MARK VYSOKO ON LEFT=01CF08" \o
      ";ZNAMENNY COMBINING TONAL RANGE MARK TRESVETLO=01CF32;ZNAMENNY COMBINING MARK CHASHKA=01CF38" \o
      ";BYZANTINE MUSICAL SYMBOL VATHY=01D019;BYZANTINE MUSICAL SYMBOL SYRMA=01D066" \o
      ";MATHEMATICAL BOLD ITALIC SMALL J=01D48B;SIGNWRITING HAND-FLAT FIVE FINGERS SPREAD BENT=01D850" \o
      ";SIGNWRITING MOVEMENT-FLOORPLANE ZIGZAG SMALL=01D97B;INDIC SIYAQ NUMBER TEN THOUSAND=01EC95" \o
      ";NEGATIVE CIRCLED LATIN CAPITAL LETTER U=01F164;INFORMATION DESK PERSON=01F481;BRIEFCASE=01F4BC" \o
      ";LEFT ANGER BUBBLE=01F5EE",
    ";DIGIT SIX=000036;GREEK CAPITAL LETTER RHO=0003A1;CYRILLIC THOUSANDS SIGN=000482" \o
      ";HEBREW POINT HATAF SEGOL=0005B1;ARABIC LETTER FEH=000641;MANDAIC LETTER AG=000842" \o
      ";BENGALI LETTER BA=0009AC;BENGALI DIGIT ONE=0009E7;KANNADA LETTER FA=000CDE" \o
      ";LAO LETTER HO TAM=000EAE;TIBETAN LETTER -A=000F60;ETHIOPIC SYLLABLE SEBATBEIT MWA=001380" \o
      ";GREEK CAPITAL LETTER ALPHA WITH PSILI AND VARIA=001F0A;RIGHTWARDS DOUBLE ARROW=0021D2" \o
      ";NEITHER A SUBSET OF NOR EQUAL TO=002288;BENZENE RING WITH CIRCLE=0023E3" \o
      ";HEAVY TRIANGLE-HEADED RIGHTWARDS ARROW=00279E;RIGHT WHITE PARENTHESIS=002986" \o
      ";KATAKANA LETTER SMALL KU=0031F0;SQUARE NF=00338B;SQUARE MG=00338E;YI SYLLABLE LURX=00A1D2" \o
      ";YI SYLLABLE WUOP=00A286;YI SYLLABLE SSUP=00A33F;YI SYLLABLE ZHUT=00A355;YI SYLLABLE ZHYP=00A35E" \o
      ";YI SYLLABLE RROX=00A381;YI SYLLABLE RRUR=00A38D;YI SYLLABLE NRYR=00A3AA;YI SYLLABLE NYUO=00A453" \o
      ";LATIN CAPITAL LETTER THORN WITH STROKE=00A764;JAVANESE LETTER NA MURDA=00A99F" \o
      ";TAI VIET VOWEL AA=00AAB1;ETHIOPIC SYLLABLE CCHHAA=00AB23;CHEROKEE SMALL LETTER GO=00AB7A" \o
      ";CHEROKEE SMALL LETTER MI=00AB8B;GREEK ACROPHONIC HERMIONIAN TEN=010162" \o
      ";OSAGE CAPITAL LETTER TSA=0104CA;OLD SOGDIAN NUMBER THREE=010F1F;CHAKMA LETTER NAA=01111A" \o
      ";EGYPTIAN HIEROGLYPH M039=0131E8;EGYPTIAN HIEROGLYPH N029=01320E;EGYPTIAN HIEROGLYPH N038=01321B" \o
      ";EGYPTIAN HIEROGLYPH O019=01326D;EGYPTIAN HIEROGLYPH O028=01327A;EGYPTIAN HIEROGLYPH O037=01328A" \o
      ";EGYPTIAN HIEROGLYPH O046=013293;EGYPTIAN HIEROGLYPH P009=0132A5;EGYPTIAN HIEROGLYPH R007=0132B8" \o
      ";EGYPTIAN HIEROGLYPH R016=0132C2;EGYPTIAN HIEROGLYPH R025=0132CC;EGYPTIAN HIEROGLYPH S006=0132D7" \o
      ";EGYPTIAN HIEROGLYPH S015=0132E3;EGYPTIAN HIEROGLYPH S024=0132ED;EGYPTIAN HIEROGLYPH S033=0132F8" \o
      ";EGYPTIAN HIEROGLYPH S042=013302;EGYPTIAN HIEROGLYPH T005=01330C;EGYPTIAN HIEROGLYPH T014=013319" \o
      ";EGYPTIAN HIEROGLYPH T023=013323;EGYPTIAN HIEROGLYPH T032=01332C;EGYPTIAN HIEROGLYPH U004=013336" \o
      ";EGYPTIAN HIEROGLYPH U013=013341;EGYPTIAN HIEROGLYPH U022=01334A;EGYPTIAN HIEROGLYPH U031=013355" \o
      ";EGYPTIAN HIEROGLYPH U040=01335F;EGYPTIAN HIEROGLYPH V003=01336E;EGYPTIAN HIEROGLYPH V012=01337C" \o
      ";EGYPTIAN HIEROGLYPH V021=013393;EGYPTIAN HIEROGLYPH V030=01339F;EGYPTIAN HIEROGLYPH W002=0133B0" \o
      ";EGYPTIAN HIEROGLYPH W011=0133BC;EGYPTIAN HIEROGLYPH W020=0133C8;EGYPTIAN HIEROGLYPH X001=0133CF" \o
      ";MIAO VOWEL SIGN A=016F54;KATAKANA LETTER SMALL WI=01B164" \o
      ";ZNAMENNY NEUME STRELA GROMNAYA WITH SINGLE ZAPYATAYA=01CFA0" \o
      ";MUSICAL SYMBOL THREE-LINE STAFF=01D118" \o
      ";MUSICAL SYMBOL TEMPUS IMPERFECTUM CUM PROLATIONE IMPERFECTA=01D1CB" \o
      ";MATHEMATICAL BOLD ITALIC SMALL K=01D48C;MATHEMATICAL SANS-SERIF BOLD CAPITAL XI=01D763" \o
      ";SIGNWRITING HAND-HINGE NO THUMB=01D882;SIGNWRITING MOVEMENT-FLOORPLANE CURVE MEDIUM=01D9D6" \o
      ";SIGNWRITING EYES CLOSED=01DA16;PLAYING CARD ACE OF CLUBS=01F0D1" \o
      ";NEGATIVE CIRCLED LATIN CAPITAL LETTER V=01F165;MASK WORK SYMBOL=01F1AD;KISS MARK=01F48B" \o
      ";LARGE BLUE CIRCLE=01F535;NO PIRACY=01F572" \o
      ";SANS-SERIF HEAVY DOUBLE TURNED COMMA QUOTATION MARK ORNAMENT=01F676" \o
      ";BLACK CHESS KING ROTATED NINETY DEGREES=01FA0F;FLATBREAD=01FAD3",
    ";LATIN CAPITAL LETTER ESH=0001A9;COMBINING DOUBLE INVERTED BREVE=000361" \o
      ";GREEK CAPITAL LETTER TAU=0003A4;GREEK CAPITAL LETTER SHO=0003F7;ARMENIAN SMALL LETTER CO=000581" \o
      ";MANDAIC LETTER AH=000844;ARABIC LETTER QAF WITH DOT BELOW=0008A5" \o
      ";DEVANAGARI VOWEL SIGN AU=00094C;BENGALI LETTER CA=00099A;KANNADA LETTER GA=000C97" \o
      ";MYANMAR SYMBOL GENITIVE=00104F;LEPCHA LETTER DDA=001C4F" \o
      ";GREEK SMALL LETTER ALPHA WITH DASIA AND OXIA AND YPOGEGRAMMENI=001F85" \o
      ";SYMBOL FOR DEVICE CONTROL THREE=002413;BOX DRAWINGS DOWN LIGHT AND RIGHT HEAVY=00250D" \o
      ";BOX DRAWINGS DOWN HEAVY AND RIGHT LIGHT=00250E;MATHEMATICAL RIGHT DOUBLE ANGLE BRACKET=0027EB" \o
      ";LEFTWARDS HARPOON WITH BARB DOWN TO BAR=002956;DOWNWARDS HARPOON WITH BARB LEFT TO BAR=002959" \o
      ";COPTIC CAPITAL LETTER MI=002C98;COPTIC CAPITAL LETTER UA=002CA8;KATAKANA LETTER SMALL RO=0031FF" \o
      ";HEXAGRAM FOR OPPRESSION=004DEE;YI SYLLABLE PUOX=00A043;YI SYLLABLE MURX=00A0C7" \o
      ";YI SYLLABLE TUOT=00A125;YI SYLLABLE NZUO=00A2F9;YI SYLLABLE SHYX=00A3C1;YI SYLLABLE NYUP=00A45C" \o
      ";CYRILLIC SMALL LETTER CROSSED O=00A69B;LATIN CAPITAL LETTER L WITH HIGH STROKE=00A748" \o
      ";LATIN CAPITAL LETTER CON=00A76E;PHAGS-PA LETTER E=00A860;CHAM VOWEL SIGN O=00AA2F" \o
      ";CHEROKEE SMALL LETTER HO=00AB80;CHEROKEE SMALL LETTER NI=00AB92;MEETEI MAYEK LETTER PHAM=00ABD0" \o
      ";LATIN SMALL LIGATURE FFL=00FB04;KHAROSHTHI VOWEL SIGN VOCALIC R=010A03;SHARADA LETTER AA=011184" \o
      ";TIRHUTA LETTER U=011485;SIDDHAM SIGN CANDRABINDU=0115BC;DIVES AKURU VOWEL SIGN E=011935" \o
      ";EGYPTIAN HIEROGLYPH N039=01321C;EGYPTIAN HIEROGLYPH O029=01327B;EGYPTIAN HIEROGLYPH O038=01328B" \o
      ";EGYPTIAN HIEROGLYPH O047=013294;EGYPTIAN HIEROGLYPH R008=0132B9;EGYPTIAN HIEROGLYPH R017=0132C4" \o
      ";EGYPTIAN HIEROGLYPH R026=0132CD;EGYPTIAN HIEROGLYPH S007=0132D9;EGYPTIAN HIEROGLYPH S016=0132E4" \o
      ";EGYPTIAN HIEROGLYPH S025=0132EE;EGYPTIAN HIEROGLYPH S034=0132F9;EGYPTIAN HIEROGLYPH S043=013303" \o
      ";EGYPTIAN HIEROGLYPH T006=01330D;EGYPTIAN HIEROGLYPH T015=01331A;EGYPTIAN HIEROGLYPH T024=013324" \o
      ";EGYPTIAN HIEROGLYPH T033=01332E;EGYPTIAN HIEROGLYPH U005=013337;EGYPTIAN HIEROGLYPH U014=013342" \o
      ";EGYPTIAN HIEROGLYPH U023=01334B;EGYPTIAN HIEROGLYPH U032=013356;EGYPTIAN HIEROGLYPH U041=013360" \o
      ";EGYPTIAN HIEROGLYPH V004=01336F;EGYPTIAN HIEROGLYPH V013=01337F;EGYPTIAN HIEROGLYPH V022=013394" \o
      ";EGYPTIAN HIEROGLYPH V031=0133A1;EGYPTIAN HIEROGLYPH V040=0133AD;EGYPTIAN HIEROGLYPH W003=0133B1" \o
      ";EGYPTIAN HIEROGLYPH W012=0133BD;EGYPTIAN HIEROGLYPH W021=0133C9;EGYPTIAN HIEROGLYPH X002=0133D0" \o
      ";EGYPTIAN HIEROGLYPH Y001=0133DB;BAMUM LETTER PHASE-C KEN FATIGUE=0168EA" \o
      ";MATHEMATICAL BOLD ITALIC SMALL L=01D48D;MATHEMATICAL SANS-SERIF BOLD CAPITAL MU=01D761" \o
      ";OTTOMAN SIYAQ NUMBER SEVENTY THOUSAND=01ED2B;ARABIC MATHEMATICAL NOON=01EE0D" \o
      ";ARABIC MATHEMATICAL TAILED GHAIN=01EE5B;NEGATIVE CIRCLED LATIN CAPITAL LETTER W=01F166" \o
      ";INPUT SYMBOL FOR LATIN CAPITAL LETTERS=01F520;WORLD MAP=01F5FA" \o
      ";WIDE-HEADED SOUTH WEST HEAVY BARB ARROW=01F87F;LEFT HALF CIRCLE WITH THREE DOTS=01F904" \o
      ";EMOJI COMPONENT RED HAIR=01F9B0",
    ";NEXT LINE=000085;LATIN CAPITAL LETTER ETH=0000D0;LATIN SMALL LETTER ALPHA=000251" \o
      ";ARMENIAN SMALL LETTER RA=00057C;ARABIC LETTER HEH=000647;THAANA LETTER HAA=000780" \o
      ";BENGALI LETTER DA=0009A6;ORIYA LETTER YYA=000B5F;KANNADA LETTER HA=000CB9" \o
      ";HANGUL JONGSEONG YESIEUNG-SSANGKIYEOK=0011ED;CANADIAN SYLLABICS CARRIER TTSO=001668" \o
      ";CANADIAN SYLLABICS TTHAA=0018E7;TAI LE LETTER TSA=001953" \o
      ";GREEK CAPITAL LETTER ETA WITH DASIA AND PROSGEGRAMMENI=001F99" \o
      ";SYMBOL FOR SUBSTITUTE FORM TWO=002426;ASTRONOMICAL SYMBOL FOR URANUS=0026E2" \o
      ";RIGHT ANGLE VARIANT WITH SQUARE=00299C;GLAGOLITIC SMALL LETTER GLAGOLI=002C33" \o
      ";COPTIC CAPITAL LETTER NI=002C9A;WAVY DASH=003030" \o
      ";VERTICAL KANA REPEAT WITH VOICED SOUND MARK UPPER HALF=003034" \o
      ";IDEOGRAPHIC ANNOTATION ONE MARK=003192;KATAKANA LETTER SMALL MU=0031FA;SQUARE AU=003373" \o
      ";SQUARE PF=00338A;SQUARE KK=0033CD;YI SYLLABLE NURX=00A195;YI SYLLABLE ZZIP=00A2D3" \o
      ";YI SYLLABLE ZZAX=00A2D9;YI SYLLABLE NZUP=00A300;YI SYLLABLE SSOX=00A336;YI SYLLABLE ZHYR=00A360" \o
      ";YI SYLLABLE RRUT=00A388;YI SYLLABLE RRYP=00A391;YI SYLLABLE NRUX=00A3A0;YI SYLLABLE NRYT=00A3A5" \o
      ";YI SYLLABLE JYRX=00A3FA;YI SYLLABLE QUOX=00A405;YI SYLLABLE YUOP=00A47C" \o
      ";LISU LETTER TONE MYA CYA=00A4FA;MODIFIER LETTER RAISED UP ARROW=00A71B" \o
      ";LATIN SMALL LETTER DOUBLE THORN=00A7D3;JAVANESE LETTER PA MURDA=00A9A6" \o
      ";MYANMAR LETTER KHAMTI CA=00AA61;CHEROKEE SMALL LETTER SE=00AB9E;CHEROKEE SMALL LETTER WA=00ABB9" \o
      ";ARMENIAN SMALL LIGATURE VEW NOW=00FB16;ARABIC LIGATURE KAF WITH LAM MEDIAL FORM=00FCEB" \o
      ";ARABIC LIGATURE ALAYHI AS-SALAAM=00FD47;ARABIC SHADDA MEDIAL FORM=00FE7D" \o
      ";MANICHAEAN LETTER DALETH=010AC5;OLD HUNGARIAN NUMBER ONE=010CFA;CHAKMA LETTER PAA=01111B" \o
      ";SHARADA LETTER BA=0111A7;SHARADA DIGIT ONE=0111D1;NEWA SIGN FINAL ANUSVARA=011448" \o
      ";WARANG CITI CAPITAL LETTER SSUU=0118BD;NANDINAGARI SIGN SIDDHAM=0119E2" \o
      ";MASARAM GONDI SIGN NUKTA=011D42;CUNEIFORM SIGN SHA6 TENU=012531;EGYPTIAN HIEROGLYPH O039=01328C" \o
      ";EGYPTIAN HIEROGLYPH O048=013295;EGYPTIAN HIEROGLYPH R009=0132BA;EGYPTIAN HIEROGLYPH R018=0132C5" \o
      ";EGYPTIAN HIEROGLYPH R027=0132CE;EGYPTIAN HIEROGLYPH S008=0132DA;EGYPTIAN HIEROGLYPH S017=0132E5" \o
      ";EGYPTIAN HIEROGLYPH S026=0132EF;EGYPTIAN HIEROGLYPH S035=0132FA;EGYPTIAN HIEROGLYPH S044=013304" \o
      ";EGYPTIAN HIEROGLYPH T007=01330E;EGYPTIAN HIEROGLYPH T016=01331B;EGYPTIAN HIEROGLYPH T025=013325" \o
      ";EGYPTIAN HIEROGLYPH T034=013330;EGYPTIAN HIEROGLYPH U006=013338;EGYPTIAN HIEROGLYPH U015=013343" \o
      ";EGYPTIAN HIEROGLYPH U024=01334D;EGYPTIAN HIEROGLYPH U033=013358;EGYPTIAN HIEROGLYPH U042=013361" \o
      ";EGYPTIAN HIEROGLYPH V005=013370;EGYPTIAN HIEROGLYPH V014=013380;EGYPTIAN HIEROGLYPH V023=013395" \o
      ";EGYPTIAN HIEROGLYPH V032=0133A3;EGYPTIAN HIEROGLYPH W004=0133B3;EGYPTIAN HIEROGLYPH W013=0133BE" \o
      ";EGYPTIAN HIEROGLYPH W022=0133CA;EGYPTIAN HIEROGLYPH X003=0133D1;EGYPTIAN HIEROGLYPH Y002=0133DD" \o
      ";EGYPTIAN HIEROGLYPH Z001=0133E4;EGYPTIAN HIEROGLYPH Z010=0133F5" \o
      ";MUSICAL SYMBOL COMBINING DOUBLE TONGUE=01D18A;MUSICAL SYMBOL COMBINING UP BOW=01D1AB" \o
      ";MATHEMATICAL BOLD ITALIC SMALL M=01D48E;MATHEMATICAL SANS-SERIF BOLD CAPITAL NU=01D762" \o
      ";SIGNWRITING HAND-FIST MIDDLE UP=01D8C6" \o
      ";SIGNWRITING MOVEMENT-HINGE UP DOWN ALTERNATING SMALL=01D926" \o
      ";SIGNWRITING TRAVEL-FLOORPLANE SHAKING=01D987;SIGNWRITING HEAD=01D9FF" \o
      ";SIGNWRITING EYEGAZE-FLOORPLANE CURVED=01DA28;NEGATIVE CIRCLED LATIN CAPITAL LETTER X=01F167" \o
      ";ONE BUTTON MOUSE=01F5AF;HANDSHAKE=01F91D;TAG RIGHT SQUARE BRACKET=0E005D",
    ";LATIN SMALL LETTER EZH REVERSED=0001B9;GREEK CAPITAL LETTER PSI=0003A8" \o
      ";GREEK SMALL LETTER SIGMA=0003C3;DEVANAGARI VOWEL SIGN AW=00094F;KANNADA LETTER EE=000C8F" \o
      ";KANNADA LETTER AI=000C90;LAO VOWEL SIGN AM=000EB3;LAO VOWEL SIGN EI=000EC1" \o
      ";MYANMAR SHAN DIGIT THREE=001093;ETHIOPIC SYLLABLE SEBATBEIT PWA=00138C" \o
      ";MONGOLIAN LETTER SIBE PA=001866;LEPCHA DIGIT FIVE=001C45;LEPCHA DIGIT NINE=001C49" \o
      ";GREEK CAPITAL LETTER OMEGA WITH PSILI AND VARIA=001F6A;GREEK DIALYTIKA AND PERISPOMENI=001FC1" \o
      ";PESO SIGN=0020B1;DIAMOND OPERATOR=0022C4;CURLY BRACKET EXTENSION=0023AA" \o
      ";HAMMER AND SICKLE=00262D;GLAGOLITIC CAPITAL LETTER TROKUTASTI A=002C2D" \o
      ";COPTIC SMALL LETTER KAPA=002C95;COPTIC CAPITAL LETTER CRYPTOGRAMMIC NI=002CBC" \o
      ";GEORGIAN SMALL LETTER EN=002D04;COMBINING CYRILLIC LETTER SHCHA=002DF3" \o
      ";CJK RADICAL BOLT OF CLOTH=002EAA;KANGXI RADICAL GO=002F21;KATAKANA LETTER SMALL TO=0031F3" \o
      ";KATAKANA LETTER SMALL NU=0031F4;SQUARE KL=003398;SQUARE IN=0033CC" \o
      ";HEXAGRAM FOR OPPOSITION=004DE5;YI SYLLABLE ZUOP=00A29A;YI SYLLABLE RUOX=00A3CA" \o
      ";YI SYLLABLE NYOX=00A456;CHEROKEE SMALL LETTER TE=00ABA6;CHEROKEE SMALL LETTER DU=00ABAA" \o
      ";ARABIC LETTER TEH MARBUTA ISOLATED FORM=00FE93;LINEAR B SYLLABLE B068 RO2=01004A" \o
      ";DESERET CAPITAL LETTER SHORT OO=01040B;BRAHMI LETTER VOCALIC RR=01100C;SHARADA LETTER CA=011196" \o
      ";GRANTHA LETTER VOCALIC R=01130B;AHOM VOWEL SIGN E=011726;BHAIKSUKI NUMBER THIRTY=011C65" \o
      ";TAMIL FRACTION ONE HALF-1=011FD1;CUNEIFORM SIGN NUNUZ AB2 TIMES IGI GUNU=012272" \o
      ";CUNEIFORM NUMERIC SIGN SIX DISH=01240B;EGYPTIAN HIEROGLYPH O049=013296" \o
      ";EGYPTIAN HIEROGLYPH R019=0132C6;EGYPTIAN HIEROGLYPH R028=0132CF;EGYPTIAN HIEROGLYPH S009=0132DB" \o
      ";EGYPTIAN HIEROGLYPH S018=0132E7;EGYPTIAN HIEROGLYPH S027=0132F2;EGYPTIAN HIEROGLYPH S036=0132FC" \o
      ";EGYPTIAN HIEROGLYPH S045=013305;EGYPTIAN HIEROGLYPH T008=013310;EGYPTIAN HIEROGLYPH T017=01331D" \o
      ";EGYPTIAN HIEROGLYPH T026=013326;EGYPTIAN HIEROGLYPH T035=013331;EGYPTIAN HIEROGLYPH U007=01333B" \o
      ";EGYPTIAN HIEROGLYPH U016=013344;EGYPTIAN HIEROGLYPH U025=01334E;EGYPTIAN HIEROGLYPH U034=013359" \o
      ";EGYPTIAN HIEROGLYPH V006=013371;EGYPTIAN HIEROGLYPH V015=013381;EGYPTIAN HIEROGLYPH V024=013397" \o
      ";EGYPTIAN HIEROGLYPH V033=0133A4;EGYPTIAN HIEROGLYPH W005=0133B4;EGYPTIAN HIEROGLYPH W014=0133BF" \o
      ";EGYPTIAN HIEROGLYPH W023=0133CB;EGYPTIAN HIEROGLYPH X004=0133D2;EGYPTIAN HIEROGLYPH Y003=0133DE" \o
      ";EGYPTIAN HIEROGLYPH Z002=0133E5;EGYPTIAN HIEROGLYPH Z011=0133F6" \o
      ";ZNAMENNY NEUME STRELA PROSTAYA=01CF92;MUSICAL SYMBOL COMBINING ACCENT=01D17B" \o
      ";MATHEMATICAL BOLD ITALIC SMALL N=01D48F;SIGNWRITING RUB BETWEEN=01D913" \o
      ";SIGNWRITING MOVEMENT-WALLPLANE FINGER CIRCLES DOUBLE=01D9F2;ADLAM DIGIT THREE=01E953" \o
      ";INDIC SIYAQ NUMBER EIGHT=01EC78;INDIC SIYAQ NUMBER PREFIXED TWO=01ECA4" \o
      ";NEGATIVE CIRCLED LATIN CAPITAL LETTER Y=01F168;FATHER CHRISTMAS=01F385;AMBULANCE=01F691" \o
      ";ALCHEMICAL SYMBOL FOR CRUCIBLE-2=01F766;SHOCKED FACE WITH EXPLODING HEAD=01F92F" \o
      ";LONG DRUM=01FA98",
    ";LATIN SMALL LETTER TC DIGRAPH WITH CURL=0002A8;ARABIC LETTER JEH=000698" \o
      ";MANDAIC LETTER AK=00084A;ARABIC LETTER TCHEH WITH SMALL V=0008C1;KANNADA LETTER JA=000C9C" \o
      ";CANADIAN SYLLABICS SHWAA=001523;TAI THAM SIGN HOY=001AA4;BALINESE CARIK PAMUNGKAH=001B5D" \o
      ";LEPCHA LETTER CHA=001C07;LATIN CAPITAL LETTER I WITH DIAERESIS AND ACUTE=001E2E" \o
      ";GREEK SMALL LETTER OMEGA WITH DASIA AND OXIA AND YPOGEGRAMMENI=001FA5;CIRCLED DIGIT ONE=002460" \o
      ";COPTIC CAPITAL LETTER PI=002CA0;PARAGRAPHUS MARK=002E4D;HANGUL LETTER SSANGSIOS=003146" \o
      ";SQUARE KM=00339E;SQUARE HP=0033CB;SQUARE PH=0033D7;YI SYLLABLE PURX=00A04E" \o
      ";YI SYLLABLE LYRX=00A1D8;YI SYLLABLE NZOX=00A2FA;YI SYLLABLE NZUR=00A302;YI SYLLABLE SUOX=00A314" \o
      ";YI SYLLABLE SSUT=00A33C;YI SYLLABLE SSYP=00A343;YI SYLLABLE ZHUX=00A356;YI SYLLABLE ZHYT=00A35B" \o
      ";YI SYLLABLE RRYR=00A393;PHAGS-PA DOUBLE HEAD MARK=00A875;SAURASHTRA VOWEL SIGN VOCALIC L=00A8BC" \o
      ";CHEROKEE SMALL LETTER DV=00ABAB;CHEROKEE SMALL LETTER YA=00ABBF" \o
      ";ARABIC LETTER TCHEHEH FINAL FORM=00FB7F;ARABIC LIGATURE SHADDA WITH DAMMA ISOLATED FORM=00FC61" \o
      ";COMBINING DOUBLE TILDE LEFT HALF=00FE22;LINEAR B SYLLABLE B029 PU2=010046" \o
      ";DESERET SMALL LETTER JEE=01043E;YEZIDI LETTER VA ALTERNATE FORM=010E9B;CHAKMA LETTER RAA=011122" \o
      ";SHARADA LETTER DA=0111A2;NANDINAGARI VOWEL SIGN O=0119DC;MARCHEN MARK SHAD=011C71" \o
      ";TAMIL FRACTION ONE HALF-2=011FD2;CUNEIFORM SIGN LAGAB TIMES LAGAB=0121D4" \o
      ";EGYPTIAN HIEROGLYPH R029=0132D0;EGYPTIAN HIEROGLYPH S019=0132E8;EGYPTIAN HIEROGLYPH S028=0132F3" \o
      ";EGYPTIAN HIEROGLYPH S037=0132FD;EGYPTIAN HIEROGLYPH S046=013306;EGYPTIAN HIEROGLYPH T009=013312" \o
      ";EGYPTIAN HIEROGLYPH T018=01331E;EGYPTIAN HIEROGLYPH T027=013327;EGYPTIAN HIEROGLYPH T036=013332" \o
      ";EGYPTIAN HIEROGLYPH U008=01333C;EGYPTIAN HIEROGLYPH U017=013345;EGYPTIAN HIEROGLYPH U026=01334F" \o
      ";EGYPTIAN HIEROGLYPH U035=01335A;EGYPTIAN HIEROGLYPH V007=013372;EGYPTIAN HIEROGLYPH V016=013382" \o
      ";EGYPTIAN HIEROGLYPH V025=013398;EGYPTIAN HIEROGLYPH V034=0133A6;EGYPTIAN HIEROGLYPH W006=0133B5" \o
      ";EGYPTIAN HIEROGLYPH W015=0133C1;EGYPTIAN HIEROGLYPH W024=0133CC;EGYPTIAN HIEROGLYPH X005=0133D5" \o
      ";EGYPTIAN HIEROGLYPH Y004=0133DF;EGYPTIAN HIEROGLYPH Z003=0133EA;EGYPTIAN HIEROGLYPH Z012=0133F7" \o
      ";BAMUM LETTER PHASE-E FU I=0169C8;MIAO LETTER YI PA=016F02;MIAO VOWEL SIGN E=016F5D" \o
      ";DUPLOYAN AFFIX ATTACHED TANGENT=01BC78;BYZANTINE MUSICAL SYMBOL GRONTHISMATA=01D045" \o
      ";MATHEMATICAL BOLD ITALIC SMALL O=01D490;SIGNWRITING MOUTH OPEN FORWARD=01DA45" \o
      ";NEGATIVE CIRCLED LATIN CAPITAL LETTER Z=01F169;HEAVY LIGATURE OPEN ET ORNAMENT=01F673" \o
      ";ALCHEMICAL SYMBOL FOR CRUCIBLE-3=01F767",
    ";COMBINING RIGHT ARROWHEAD BELOW=000355;ARABIC LETTER SAD=000635;ARABIC LETTER AIN=000639" \o
      ";ARABIC LETTER QAF=000642;MANDAIC LETTER AL=00084B;DEVANAGARI VOWEL SIGN UE=000956" \o
      ";BENGALI LETTER GA=000997;KANNADA LETTER KA=000C95;CANADIAN SYLLABICS THWAA=001568" \o
      ";CANADIAN SYLLABICS NNGII=001672;GREEK SMALL LETTER UPSILON WITH VRACHY=001FE0;SYMMETRY=00232F" \o
      ";METRICAL TRISEME=0023D7;LOWER FIVE EIGHTHS BLOCK=002585" \o
      ";LOWER RIGHT DROP-SHADOWED WHITE SQUARE=00274F;BRAILLE PATTERN DOTS-1234=00280F" \o
      ";DOUBLE SOLIDUS OPERATOR=002AFD;RUSSIAN ASTROLOGICAL SYMBOL VIGINTILE=002BF3" \o
      ";CIRCLED IDEOGRAPH CENTRE=0032A5;SQUARE ML=003396;SQUARE LM=0033D0;SQUARE WB=0033DD" \o
      ";YI SYLLABLE TUOX=00A126;YI SYLLABLE QURX=00A410;YI SYLLABLE NYUT=00A459" \o
      ";COMBINING CYRILLIC LETTER OMEGA=00A67B;LATIN SMALL LETTER OMEGA=00A7B7;PHAGS-PA LETTER I=00A85E" \o
      ";DEVANAGARI VOWEL SIGN AY=00A8FF;KAYAH LI VOWEL UE=00A926;JAVANESE LETTER SA MURDA=00A9AF" \o
      ";MYANMAR LETTER KHAMTI FA=00AA6F;CHEROKEE SMALL LETTER LO=00AB86" \o
      ";NABATAEAN CRUCIFORM NUMBER FOUR=0108AB;MEROITIC CURSIVE NUMBER THIRTY=0109CB" \o
      ";KHAROSHTHI LETTER TTTHA=010A33;CHAKMA LETTER SAA=011125;MAHAJANI LETTER A=011150" \o
      ";SIDDHAM LETTER THREE-CIRCLE ALTERNATE I=0115D8;AHOM LETTER ALTERNATE TA=011705" \o
      ";DIVES AKURU VOWEL SIGN I=011931;MARCHEN SIGN CANDRABINDU=011CB6;MASARAM GONDI LETTER SSA=011D2A" \o
      ";MASARAM GONDI LETTER TRA=011D30;EGYPTIAN HIEROGLYPH S029=0132F4;EGYPTIAN HIEROGLYPH S038=0132FE" \o
      ";EGYPTIAN HIEROGLYPH T019=01331F;EGYPTIAN HIEROGLYPH T028=013328;EGYPTIAN HIEROGLYPH U009=01333D" \o
      ";EGYPTIAN HIEROGLYPH U018=013346;EGYPTIAN HIEROGLYPH U027=013350;EGYPTIAN HIEROGLYPH U036=01335B" \o
      ";EGYPTIAN HIEROGLYPH V008=013375;EGYPTIAN HIEROGLYPH V017=013383;EGYPTIAN HIEROGLYPH V026=013399" \o
      ";EGYPTIAN HIEROGLYPH V035=0133A7;EGYPTIAN HIEROGLYPH W007=0133B6;EGYPTIAN HIEROGLYPH W016=0133C2" \o
      ";EGYPTIAN HIEROGLYPH W025=0133CE;EGYPTIAN HIEROGLYPH X006=0133D6;EGYPTIAN HIEROGLYPH Y005=0133E0" \o
      ";EGYPTIAN HIEROGLYPH Z004=0133ED;EGYPTIAN HIEROGLYPH Z013=0133F8" \o
      ";BAMUM LETTER PHASE-A NGKUENZEUM=016816;HIRAGANA LETTER SMALL WO=01B152" \o
      ";MUSICAL SYMBOL SEMIMINIMA BLACK=01D1BE;MATHEMATICAL BOLD ITALIC SMALL P=01D491" \o
      ";SIGNWRITING HAND-CUP THUMB SIDE=01D86F;PLAYING CARD WHITE JOKER=01F0DF;LOCK WITH INK PEN=01F50F" \o
      ";TURNED NORTH EAST POINTING LEAF=01F656;ALCHEMICAL SYMBOL FOR CRUCIBLE-4=01F768" \o
      ";LEFTWARDS TRIANGLE-HEADED ARROW WITH VERY HEAVY SHAFT=01F830" \o
      ";WIDE-HEADED RIGHTWARDS LIGHT BARB ARROW=01F862",
    ";DIGIT TWO=000032;CYRILLIC SMALL LETTER BE=000431;ARMENIAN SMALL LETTER HO=000570" \o
      ";ARMENIAN SMALL LETTER OH=000585;HEBREW ACCENT OLE=0005AB;SYRIAC LETTER SOGDIAN FE=00074F" \o
      ";SAMARITAN VOWEL SIGN OVERLONG A=000821;MANDAIC LETTER AM=00084C" \o
      ";ARABIC LETTER TAH WITH DOT BELOW=00088B;BENGALI LETTER HA=0009B9;KANNADA LETTER LA=000CB2" \o
      ";MALAYALAM LETTER VEDIC ANUSVARA=000D04;HANGUL JUNGSEONG ARAEA-U=0011A0" \o
      ";SUNDANESE LETTER FINAL K=001BBE;LATIN SMALL LETTER DELTA=001E9F;SOUTH EAST ARROW=002198" \o
      ";SUBSET OF=002282;BRAILLE PATTERN DOTS-1235=002817;GLAGOLITIC CAPITAL LETTER DZELO=002C07" \o
      ";SQUARE MM=00339C;SQUARE LN=0033D1;HEXAGRAM FOR REVOLUTION=004DF0;YI SYLLABLE ZZIT=00A2D0" \o
      ";YI SYLLABLE ZZEX=00A2DF;YI SYLLABLE NZYP=00A306;YI SYLLABLE SSYR=00A345;YI SYLLABLE RRUX=00A389" \o
      ";YI SYLLABLE RRYT=00A38E;YI SYLLABLE NRYX=00A3A6;YI SYLLABLE RURX=00A3D8;YI SYLLABLE YUOT=00A479" \o
      ";VAI SYLLABLE GBEE=00A50B;JAVANESE LETTER TA MURDA=00A9A1;MYANMAR LETTER KHAMTI GA=00AA60" \o
      ";CHEROKEE SMALL LETTER GU=00AB7B;CHEROKEE SMALL LETTER MO=00AB8C;CHEROKEE SMALL LETTER SI=00AB9F" \o
      ";CHEROKEE SMALL LETTER WE=00ABBA;ARABIC LIGATURE LAM WITH ALEF FINAL FORM=00FEFC" \o
      ";CARIAN LETTER SH2=0102AF;OLD ITALIC NUMERAL FIFTY=010323;MANICHAEAN LETTER GHIMEL=010AC4" \o
      ";CHAKMA LETTER TAA=011116;SOYOMBO FINAL CONSONANT SIGN NG=011A8C;MASARAM GONDI LETTER NYA=011D15" \o
      ";CUNEIFORM SIGN LAGAB TIMES SHE PLUS SUM=0121DC;CUNEIFORM SIGN SHIM TIMES BULUG=0122C9" \o
      ";EGYPTIAN HIEROGLYPH S039=0132FF;EGYPTIAN HIEROGLYPH T029=013329;EGYPTIAN HIEROGLYPH U019=013347" \o
      ";EGYPTIAN HIEROGLYPH U028=013351;EGYPTIAN HIEROGLYPH U037=01335C;EGYPTIAN HIEROGLYPH V009=013376" \o
      ";EGYPTIAN HIEROGLYPH V018=013384;EGYPTIAN HIEROGLYPH V027=01339A;EGYPTIAN HIEROGLYPH V036=0133A8" \o
      ";EGYPTIAN HIEROGLYPH W008=0133B7;EGYPTIAN HIEROGLYPH W017=0133C3;EGYPTIAN HIEROGLYPH X007=0133D8" \o
      ";EGYPTIAN HIEROGLYPH Y006=0133E1;EGYPTIAN HIEROGLYPH Z005=0133EF;EGYPTIAN HIEROGLYPH Z014=0133F9" \o
      ";KATAKANA LETTER SMALL WO=01B166;BYZANTINE MUSICAL SYMBOL PSIFISTOPARAKALESMA=01D06F" \o
      ";MUSICAL SYMBOL BEGIN TIE=01D175;COMBINING GREEK MUSICAL TRISEME=01D242" \o
      ";MATHEMATICAL BOLD ITALIC SMALL Q=01D492;CLOCK FACE ELEVEN-THIRTY=01F566" \o
      ";ALCHEMICAL SYMBOL FOR CRUCIBLE-5=01F769",
    ";FF=00000C;COPTIC SMALL LETTER KHEI=0003E7;ARABIC LETTER LAM=000644;MANDAIC LETTER AN=00084D" \o
      ";BENGALI LETTER AI=000990;TAMIL NUMBER ONE HUNDRED=000BF1;KANNADA LETTER MA=000CAE" \o
      ";MALAYALAM FRACTION ONE FORTIETH=000D59;SINHALA SIGN CANDRABINDU=000D81;LAO VOWEL SIGN II=000EB5" \o
      ";MYANMAR VOWEL SIGN MON O=001034;HANGUL JUNGSEONG U-EO-EU=00118B;ETHIOPIC NUMBER SEVENTY=001378" \o
      ";MONGOLIAN LETTER SIBE TA=001868;LEPCHA LETTER BLA=001C14;EURO SIGN=0020AC" \o
      ";DOWNWARDS PAIRED ARROWS=0021CA;LESS-THAN BUT NOT EQUIVALENT TO=0022E6" \o
      ";PARENTHESIZED NUMBER SEVENTEEN=002484;BLACK VERTICAL RECTANGLE=0025AE" \o
      ";BRAILLE PATTERN DOTS-1245=00281B;BRAILLE PATTERN DOTS-1236=002827" \o
      ";NORTH WEST AND SOUTH EAST ARROW=002921;NORTH EAST AND SOUTH WEST ARROW=002922" \o
      ";GEORGIAN SMALL LETTER IN=002D08;COMBINING CYRILLIC LETTER MONOGRAPH UK=002DF9" \o
      ";TIRONIAN SIGN CAPITAL ET=002E52;LEFT SQUARE BRACKET WITH STROKE=002E55;HIRAGANA LETTER A=003042" \o
      ";HIRAGANA LETTER SMALL YO=003087;KATAKANA LETTER SMALL RU=0031FD;SQUARE EV=0032CE" \o
      ";SQUARE NM=00339A;YI SYLLABLE SURX=00A322;VAI SYLLABLE BHEE=00A506;CHAM VOWEL SIGN U=00AA2D" \o
      ";MYANMAR LETTER KHAMTI HA=00AA6D;CHEROKEE SMALL LETTER GV=00AB7C;CHEROKEE SMALL LETTER HU=00AB81" \o
      ";CHEROKEE SMALL LETTER NO=00AB93;CHEROKEE SMALL LETTER TI=00ABA8" \o
      ";ARABIC LETTER BEHEH INITIAL FORM=00FB5C;ARABIC LIGATURE BEH WITH MEEM FINAL FORM=00FC6C" \o
      ";PRESENTATION FORM FOR VERTICAL LEFT WHITE LENTICULAR BRACKET=00FE17" \o
      ";HALFWIDTH UPWARDS ARROW=00FFEA;AEGEAN NUMBER ONE=010107;GREEK ACROPHONIC EPIDAUREAN TWO=01015B" \o
      ";OLD NORTH ARABIAN NUMBER TWENTY=010A9F;OLD HUNGARIAN NUMBER TEN=010CFC;BRAHMI LETTER DDA=01101F" \o
      ";SHARADA LETTER GA=011193;SIDDHAM LETTER AA=011581;MODI VOWEL SIGN E=011639" \o
      ";AHOM VOWEL SIGN I=011722;MASARAM GONDI LETTER TTA=011D16;GUNJALA GONDI LETTER TTA=011D7D" \o
      ";CUNEIFORM SIGN A2=012009;CUNEIFORM SIGN GIR2 GUNU=012109;CUNEIFORM NUMERIC SIGN ONE BURU=012434" \o
      ";EGYPTIAN HIEROGLYPH U029=013352;EGYPTIAN HIEROGLYPH U038=01335D;EGYPTIAN HIEROGLYPH V019=013385" \o
      ";EGYPTIAN HIEROGLYPH V028=01339B;EGYPTIAN HIEROGLYPH V037=0133A9;EGYPTIAN HIEROGLYPH W009=0133B8" \o
      ";EGYPTIAN HIEROGLYPH W018=0133C5;EGYPTIAN HIEROGLYPH X008=0133D9;EGYPTIAN HIEROGLYPH Y007=0133E2" \o
      ";EGYPTIAN HIEROGLYPH Z006=0133F1;EGYPTIAN HIEROGLYPH Z015=0133FA" \o
      ";MATHEMATICAL BOLD ITALIC SMALL R=01D493;MATHEMATICAL SANS-SERIF BOLD SMALL IOTA=01D778" \o
      ";HEADPHONE=01F3A7;MONEY WITH WINGS=01F4B8;STAMPED ENVELOPE=01F583" \o
      ";DOWNWARDS ARROW WITH SMALL TRIANGLE ARROWHEAD=01F803;LEFTWARDS SQUARED ARROW=01F838",
    ";LATIN CAPITAL LETTER EZH=0001B7;MODIFIER LETTER CENTRED RIGHT HALF RING=0002D2" \o
      ";GREEK SMALL LETTER THETA=0003B8;CYRILLIC SMALL LETTER DE=000434;CYRILLIC SMALL LETTER HA=000445" \o
      ";ARMENIAN SMALL LETTER ET=000568;ARABIC LETTER REH WITH DOT BELOW=000694" \o
      ";THAANA LETTER NAA=0007B1;BENGALI LETTER JA=00099C;KANNADA LETTER NA=000CA8" \o
      ";CHEROKEE SMALL LETTER YE=0013F8;CANADIAN SYLLABICS CARRIER TTSU=001667" \o
      ";RUNIC LETTER DAGAZ DAEG D=0016DE;MONGOLIAN LETTER TODO BA=00184B" \o
      ";CANADIAN SYLLABICS OJIBWAY NWOO=0018CD;TAI THAM LETTER U=001A4F;SUNDANESE LETTER FINAL M=001BBF" \o
      ";VEDIC SIGN LONG ANUSVARA=001CEF;TURNED AMPERSAND=00214B" \o
      ";ELEMENT OF WITH LONG HORIZONTAL STROKE=0022F2;NUMBER TWENTY FULL STOP=00249B" \o
      ";UPPER RIGHT DROP-SHADOWED WHITE SQUARE=002750;OPEN-OUTLINED RIGHTWARDS ARROW=0027BE" \o
      ";BRAILLE PATTERN DOTS-1345=00281D;BRAILLE PATTERN DOTS-1246=00282B" \o
      ";BRAILLE PATTERN DOTS-1237=002847;OBLIQUE ANGLE OPENING UP=0029A6;NEPTUNE FORM TWO=002BC9" \o
      ";COPTIC SMALL LETTER HATE=002C8F;DOWNWARDS ANCORA=002E14;CJK RADICAL GHOST=002EE4" \o
      ";HIRAGANA LETTER SMALL TU=003063;KATAKANA LETTER A=0030A2;KATAKANA LETTER SMALL YO=0030E7" \o
      ";CJK STROKE HZZZG=0031E1;KATAKANA LETTER SMALL SU=0031F2;SQUARE MIRIBAARU=00334A" \o
      ";YI SYLLABLE PYRX=00A054;YI SYLLABLE TURX=00A134;YI SYLLABLE WUOX=00A284;YI SYLLABLE ZZOP=00A2DE" \o
      ";YI SYLLABLE NZYR=00A308;YI SYLLABLE SSUX=00A33D;YI SYLLABLE SSYT=00A340;YI SYLLABLE ZHYX=00A35C" \o
      ";VAI SYLLABLE DHHA=00A55D;TAI VIET VOWEL IA=00AAB8;ETHIOPIC SYLLABLE CCHHEE=00AB24" \o
      ";CHEROKEE SMALL LETTER HV=00AB82;ARABIC LIGATURE YEH WITH HAMZA ABOVE WITH OE FINAL FORM=00FBF3" \o
      ";ARABIC LIGATURE SHADDA WITH FATHA ISOLATED FORM=00FC60;GREEK TRYBLION BASE SIGN=010189" \o
      ";OSAGE SMALL LETTER EHTSA=0104F3;ELBASAN LETTER BE=010501;CHAKMA LETTER VAA=011147" \o
      ";SHARADA LETTER HA=0111B2;SIDDHAM LETTER BA=0115A4;DIVES AKURU SIGN HALANTA=01193D" \o
      ";EGYPTIAN HIEROGLYPH U039=01335E;EGYPTIAN HIEROGLYPH V029=01339D;EGYPTIAN HIEROGLYPH V038=0133AB" \o
      ";EGYPTIAN HIEROGLYPH W019=0133C7;EGYPTIAN HIEROGLYPH Y008=0133E3;EGYPTIAN HIEROGLYPH Z007=0133F2" \o
      ";EGYPTIAN HIEROGLYPH Z016=013404;EGYPTIAN HIEROGLYPH HORIZONTAL JOINER=013431" \o
      ";BAMUM LETTER PHASE-A SHUENSHUET=016805;MIAO LETTER YI TA=016F0D;MIAO VOWEL SIGN I=016F61" \o
      ";DUPLOYAN AFFIX HIGH WAVE=01BC87;DIGRAM FOR EARTHLY HUMAN=01D304" \o
      ";MATHEMATICAL BOLD ITALIC SMALL S=01D494;SIGNWRITING ROTATION-WALLPLANE DOUBLE=01D9A3" \o
      ";ALCHEMICAL SYMBOL FOR LODESTONE=01F753;WIDE-HEADED DOWNWARDS MEDIUM BARB ARROW=01F873" \o
      ";COCKROACH=01FAB3;UPPER FIVE EIGHTHS BLOCK=01FB84;TAG COMMERCIAL AT=0E0040",
    ";CYRILLIC CAPITAL LETTER SHORT U=00040E;MANDAIC LETTER AP=000850" \o
      ";ARABIC TONE ONE DOT ABOVE=0008EA;BENGALI LETTER KA=000995" \o
      ";SINHALA VOWEL SIGN DIGA IS-PILLA=000DD3;TIBETAN ASTROLOGICAL SIGN SGRA GCAN -CHAR RTAGS=000F17" \o
      ";TIBETAN MARK LEADING MCHAN RTAGS=000FD9;HANGUL JONGSEONG SSANGYESIEUNG=0011EE" \o
      ";NEW TAI LUE VOWEL SIGN AA=0019B1;VEDIC SIGN ANUSVARA VAMAGOMUKHA=001CEB" \o
      ";RIGHT SQUARE BRACKET WITH QUILL=002046;ELEMENT OF WITH UNDERBAR=0022F8;DIMENSION ORIGIN=002331" \o
      ";FUEL PUMP=0026FD;HEAVY BLACK HEART=002764;BRAILLE PATTERN DOTS-2345=00281E" \o
      ";BRAILLE PATTERN DOTS-1346=00282D;BRAILLE PATTERN DOTS-1256=002833" \o
      ";BRAILLE PATTERN DOTS-1247=00284B;BRAILLE PATTERN DOTS-1238=002887" \o
      ";LEFTWARDS ARROW THROUGH SUBSET=00297A;MULTIPLICATION SIGN IN LEFT HALF CIRCLE=002A34" \o
      ";DOWNWARDS TRIANGLE-HEADED ZIGZAG ARROW=002B4D;KATAKANA LETTER SMALL TU=0030C3;SQUARE PM=0033D8" \o
      ";YI SYLLABLE QYRX=00A416;YI SYLLABLE NYUX=00A45A;YI SYLLABLE XUOX=00A465" \o
      ";LISU LETTER TONE MYA JEU=00A4FD;VAI SYLLABLE DHEE=00A510;MYANMAR LETTER KHAMTI JA=00AA63" \o
      ";GREEK ARTABE SIGN=010186;ELBASAN LETTER CE=010502;MANICHAEAN LETTER SAMEKH=010AD8" \o
      ";BRAHMI LETTER BHA=01102A;BRAHMI DIGIT FIVE=01106B;BRAHMI DIGIT NINE=01106F" \o
      ";CHAKMA LETTER WAA=011124;MAHAJANI LETTER E=011153;SHARADA LETTER AI=01118E" \o
      ";NEWA VOWEL SIGN E=01143E;SIDDHAM LETTER CA=011593;DOGRA LETTER DDHA=011817" \o
      ";SOYOMBO MARK DOUBLE SHAD=011A9C;EGYPTIAN HIEROGLYPH V039=0133AC;EGYPTIAN HIEROGLYPH Z008=0133F3" \o
      ";BASSA VAH COMBINING LOW-MID TONE=016AF3;MATHEMATICAL BOLD ITALIC SMALL T=01D495" \o
      ";MATHEMATICAL BOLD SMALL UPSILON=01D6D6;MATHEMATICAL SANS-SERIF BOLD ITALIC CAPITAL CHI=01D7A6" \o
      ";TEAR-OFF CALENDAR=01F4C6;BLACK UP POINTING BACKHAND INDEX=01F5A2" \o
      ";NEUTRAL CHESS KNIGHT ROTATED TWO HUNDRED TWENTY-FIVE DEGREES=01FA32" \o
      ";UPPER AND LOWER ONE EIGHTH BLOCK=01FB80",
    ";CYRILLIC SMALL LETTER EF=000444;CYRILLIC SMALL LETTER EN WITH LEFT HOOK=000529" \o
      ";ARMENIAN SMALL LETTER ZA=000566;ARABIC SIGN MISRA=00060F;ARABIC LETTER TAH=000637" \o
      ";ARABIC LETTER PEH=00067E;MANDAIC LETTER AQ=000852;DEVANAGARI SIGN HIGH SPACING DOT=000971" \o
      ";BENGALI LETTER LA=0009B2;KANNADA LETTER PA=000CAA;MONGOLIAN LETTER TODO DA=001851" \o
      ";BATAK SYMBOL BINDU JUDUL=001BFE;MODIFIER LETTER CAPITAL BARRED B=001D2F" \o
      ";LATIN CAPITAL LETTER O WITH TILDE AND DIAERESIS=001E4E;WAVY LINE=002307" \o
      ";ELECTRICAL INTERSECTION=0023E7;DOUBLED MALE SIGN=0026A3;BRAILLE PATTERN DOTS-2346=00282E" \o
      ";BRAILLE PATTERN DOTS-1356=002835;BRAILLE PATTERN DOTS-1347=00284D" \o
      ";BRAILLE PATTERN DOTS-1257=002853;BRAILLE PATTERN DOTS-1248=00288B" \o
      ";SUMMATION WITH INTEGRAL=002A0B;NORTH WEST TRIANGLE-HEADED ARROW TO BAR=002B76" \o
      ";SEPARATED SYMBOL=002BFB;GLAGOLITIC SMALL LETTER LJUDIJE=002C3E;COPTIC SMALL LETTER VIDA=002C83" \o
      ";CIRCLED IDEOGRAPH SECRET=003299;SQUARE IU=00337A;HEXAGRAM FOR GATHERING TOGETHER=004DEC" \o
      ";YI SYLLABLE VURX=00A0F8;YI SYLLABLE ZZIX=00A2D1;YI SYLLABLE NZUX=00A2FE;YI SYLLABLE NZYT=00A303" \o
      ";YI SYLLABLE RRYX=00A38F;YI SYLLABLE RYRX=00A3DE;YI SYLLABLE YUOX=00A47A" \o
      ";VAI SYLLABLE MGBA=00A556;LATIN CAPITAL LETTER K WITH STROKE AND DIAGONAL STROKE=00A744" \o
      ";SAURASHTRA VOWEL SIGN VOCALIC R=00A8BA;CHEROKEE SMALL LETTER WI=00ABBB" \o
      ";MEETEI MAYEK LETTER YANG=00ABCC;ARABIC LETTER BEEH ISOLATED FORM=00FB52" \o
      ";ARABIC LIGATURE KAF WITH MEEM FINAL FORM=00FC82" \o
      ";ARABIC LIGATURE SAD WITH HAH WITH HAH FINAL FORM=00FD64;SMALL LEFT CURLY BRACKET=00FE5B" \o
      ";LINEAR B SYLLABLE B071 DWE=010043;DESERET SMALL LETTER PEE=010439" \o
      ";DESERET SMALL LETTER ENG=01044D;ELBASAN LETTER DE=010504;BRAHMI LETTER CHA=011019" \o
      ";SHARADA LETTER JA=011198;SIDDHAM LETTER DA=01159F;NANDINAGARI VOWEL SIGN U=0119D4" \o
      ";BHAIKSUKI NUMBER TWENTY=011C64;CUNEIFORM SIGN AK TIMES SHITA PLUS GISH=01201F" \o
      ";EGYPTIAN HIEROGLYPH Z009=0133F4;MATHEMATICAL BOLD ITALIC SMALL U=01D496" \o
      ";SIGNWRITING MOVEMENT-FLOORPLANE CURVE HITTING CEILING SMALL=01D9B7" \o
      ";SIGNWRITING MOVEMENT-WALLPLANE FINGER CIRCLES SINGLE=01D9F1;INDIC SIYAQ NUMBER THREE=01EC73" \o
      ";DIGIT EIGHT COMMA=01F109;NEGATIVE SQUARED LATIN CAPITAL LETTER A=01F170" \o
      ";PERSON WITH FOLDED HANDS=01F64F;RING BUOY=01F6DF;ALCHEMICAL SYMBOL FOR VERDIGRIS=01F728" \o
      ";WIDE-HEADED RIGHTWARDS HEAVY BARB ARROW=01F87A",
    ";RECORD SEPARATOR=00001E;LATIN SMALL LETTER DZ DIGRAPH WITH CURL=0002A5" \o
      ";CYRILLIC SMALL LETTER KA=00043A;SYRIAC HORIZONTAL COLON=000705" \o
      ";NKO COMBINING SHORT RISING TONE=0007ED;MANDAIC LETTER AR=000853;BENGALI LETTER MA=0009AE" \o
      ";TELUGU LETTER UU=000C0A;KANNADA LETTER II=000C88;KANNADA SIGN UPADHMANIYA=000CF2" \o
      ";THAI CHARACTER MAITAIKHU=000E47;LAO LETTER SO TAM=000E8A" \o
      ";MONGOLIAN FREE VARIATION SELECTOR FOUR=00180F;MONGOLIAN LETTER ALI GALI BALUDA=001885" \o
      ";SUNDANESE VOWEL SIGN PANAELAENG=001BA6;LEPCHA LETTER FLA=001C12" \o
      ";OL CHIKI GAAHLAA TTUDDAAG=001C79;ANTICLOCKWISE CONTOUR INTEGRAL=002233" \o
      ";RIGHT NORMAL FACTOR SEMIDIRECT PRODUCT=0022CA;BRAILLE PATTERN DOTS-2356=002836" \o
      ";BRAILLE PATTERN DOTS-1456=002839;BRAILLE PATTERN DOTS-2347=00284E" \o
      ";BRAILLE PATTERN DOTS-1357=002855;BRAILLE PATTERN DOTS-1267=002863" \o
      ";BRAILLE PATTERN DOTS-1348=00288D;BRAILLE PATTERN DOTS-1258=002893;HIRAGANA LETTER E=003048" \o
      ";SQUARE KT=0033CF;YI SYLLABLE ZUOX=00A298;YI SYLLABLE SYRX=00A328;PHAGS-PA LETTER O=00A861" \o
      ";PHAGS-PA SINGLE HEAD MARK=00A874;REJANG CONSONANT SIGN NG=00A94F" \o
      ";CHEROKEE SMALL LETTER LU=00AB87;MEETEI MAYEK LETTER DHOU=00ABD9" \o
      ";ARABIC LETTER DDAL ISOLATED FORM=00FB88;ARABIC LETTER YEH WITH HAMZA ABOVE INITIAL FORM=00FE8B" \o
      ";PHAISTOS DISC SIGN TIARA=0101D8;BRAHMI LETTER DHA=011025;SORA SOMPENG DIGIT EIGHT=0110F8" \o
      ";CHAKMA LETTER YAA=011121;SHARADA LETTER KA=011191;MODI VOWEL SIGN I=011631" \o
      ";DIVES AKURU VOWEL SIGN O=011938;CUNEIFORM SIGN E2=01208D" \o
      ";BYZANTINE MUSICAL SYMBOL LEIMMA TRION CHRONON=01D08C" \o
      ";BYZANTINE MUSICAL SYMBOL FTHORA ENARMONIOS ANTIFONIA=01D0CC" \o
      ";BYZANTINE MUSICAL SYMBOL GENIKI DIESIS=01D0D8;MATHEMATICAL BOLD ITALIC SMALL V=01D497" \o
      ";NEGATIVE SQUARED LATIN CAPITAL LETTER B=01F171;CLIPBOARD=01F4CB;TRACKBALL=01F5B2" \o
      ";BALLOT BOX WITH SCRIPT X=01F5F5;ALCHEMICAL SYMBOL FOR AQUA REGIA=01F706" \o
      ";BLACK VERY SMALL LOZENGE=01F79E;EXTREMELY HEAVY SALTIRE=01F7AE;FIRST PLACE MEDAL=01F947" \o
      ";TEST TUBE=01F9EA",
    ";LEFT PARENTHESIS=000028;LATIN LETTER STRETCHED C=000297;GREEK SMALL LETTER SAMPI=0003E1" \o
      ";CYRILLIC SMALL LETTER SOFT SIGN=00044C;ARABIC LETTER REH=000631" \o
      ";ARABIC LETTER WAW WITH DOT ABOVE=0006CF;ARABIC END OF AYAH=0006DD;THAANA LETTER RAA=000783" \o
      ";MANDAIC LETTER AS=00084E;BENGALI LETTER NA=0009A8;KANNADA LETTER RA=000CB0" \o
      ";MYANMAR SHAN DIGIT SEVEN=001097;CHEROKEE SMALL LETTER YI=0013F9;MONGOLIAN LETTER SIBE UE=001860" \o
      ";TAI THAM SIGN SATKAANKUU=001AAB;LEPCHA LETTER KHA=001C02;LEPCHA LETTER GLA=001C04" \o
      ";GREEK CAPITAL LETTER OMICRON WITH DASIA=001F49;FRENCH FRANC SIGN=0020A3" \o
      ";BLACK CHESS QUEEN=00265B;BRAILLE PATTERN DOTS-2456=00283A;BRAILLE PATTERN DOTS-2357=002856" \o
      ";BRAILLE PATTERN DOTS-1457=002859;BRAILLE PATTERN DOTS-1367=002865" \o
      ";BRAILLE PATTERN DOTS-2348=00288E;BRAILLE PATTERN DOTS-1358=002895" \o
      ";BRAILLE PATTERN DOTS-1268=0028A3;PLUS SIGN WITH DOT BELOW=002A25" \o
      ";REVERSE TILDE OPERATOR ABOVE RIGHTWARDS ARROW=002B47" \o
      ";RIGHTWARDS ARROW ABOVE REVERSE TILDE OPERATOR=002B4C" \o
      ";RIGHTWARDS TRIANGLE-HEADED ARROW WITH DOUBLE VERTICAL STROKE=002B7C" \o
      ";COPTIC CAPITAL LETTER RO=002CA2;GEORGIAN SMALL LETTER WE=002D23;KATAKANA LETTER E=0030A8" \o
      ";CIRCLED IDEOGRAPH SCHOOL=003246;SQUARE MS=0033B3;SQUARE GY=0033C9;YI SYLLABLE SSYX=00A341" \o
      ";VAI SYLLABLE MBEE=00A508;VAI SYLLABLE DHHE=00A5F6;TAI VIET VOWEL AM=00AABE" \o
      ";MEETEI MAYEK LETTER TTHA=00AAE5;CHEROKEE SMALL LETTER LV=00AB88;CHEROKEE SMALL LETTER MU=00AB8D" \o
      ";CHEROKEE SMALL LETTER SO=00ABA0;CJK COMPATIBILITY IDEOGRAPH-F900=00F900" \o
      ";ARABIC LIGATURE TEH WITH HEH MEDIAL FORM=00FCE4;AEGEAN NUMBER TEN=010110" \o
      ";ELBASAN LETTER FE=010509;MEROITIC CURSIVE NUMBER TWENTY=0109CA;SHARADA LETTER LA=0111AC" \o
      ";GRANTHA SIGN CANDRABINDU=011301;SOYOMBO FINAL CONSONANT SIGN SH=011A93;MARCHEN LETTER BA=011C80" \o
      ";MUSICAL SYMBOL DAL SEGNO=01D109;MATHEMATICAL BOLD ITALIC SMALL W=01D498" \o
      ";SIGNWRITING MOUTH KISS FORWARD=01DA4E;ADLAM DIGIT SEVEN=01E957" \o
      ";INDIC SIYAQ NUMBER SIX THOUSAND=01EC91;NEGATIVE SQUARED LATIN CAPITAL LETTER C=01F172" \o
      ";SIGN OF THE HORNS=01F918",
    ";LF=00000A;LATIN SMALL LETTER CLOSED OPEN E=00029A;GREEK SMALL LETTER KOPPA=0003DF" \o
      ";CYRILLIC SMALL LETTER IE=000435;ARABIC-INDIC FOURTH ROOT=000607;MANDAIC LETTER AT=000855" \o
      ";KANNADA LETTER SA=000CB8;TIBETAN MARK SHAD=000F0D;MYANMAR LETTER VOCALIC L=001054" \o
      ";MYANMAR SIGN SHAN COUNCIL TONE-2=00108B;HANGUL JONGSEONG KAPYEOUNMIEUM=0011E2" \o
      ";CHEROKEE SMALL LETTER MV=0013FD;CANADIAN SYLLABICS GLOTTAL STOP=00141E;TAGALOG LETTER BA=00170A" \o
      ";MONGOLIAN LETTER TODO GA=00184E;MONGOLIAN LETTER SIBE ZA=00186F" \o
      ";CANADIAN SYLLABICS WEST-CREE LAA=0018E2;NEW TAI LUE VOWEL SIGN AE=0019B6" \o
      ";LEPCHA LETTER HLA=001C1E;GREEK SMALL LETTER OMICRON WITH DASIA AND VARIA=001F43" \o
      ";COMBINING CLOCKWISE ARROW ABOVE=0020D5;NEGATIVE CIRCLED NUMBER SIXTEEN=0024F0" \o
      ";BRAILLE PATTERN DOTS-3456=00283C;BRAILLE PATTERN DOTS-2457=00285A" \o
      ";BRAILLE PATTERN DOTS-2367=002866;BRAILLE PATTERN DOTS-1467=002869" \o
      ";BRAILLE PATTERN DOTS-2358=002896;BRAILLE PATTERN DOTS-1458=002899" \o
      ";BRAILLE PATTERN DOTS-1368=0028A5;BRAILLE PATTERN DOTS-1278=0028C3" \o
      ";BLACK RIGHTWARDS EQUILATERAL ARROWHEAD=002B9E;GEORGIAN SMALL LETTER ON=002D0D" \o
      ";KANGXI RADICAL GO SLOWLY=002F22;HIRAGANA LETTER SMALL YU=003085;SQUARE NS=0033B1" \o
      ";SQUARE KV=0033B8;YI SYLLABLE YURX=00A485;MYANMAR LETTER KHAMTI NA=00AA6B" \o
      ";TAI VIET VOWEL AN=00AABD;MEETEI MAYEK ANJI=00AAF2;CHEROKEE SMALL LETTER NU=00AB94" \o
      ";CJK COMPATIBILITY IDEOGRAPH-F901=00F901;CJK COMPATIBILITY IDEOGRAPH-F910=00F910" \o
      ";GREEK ACROPHONIC THESPIAN FIFTY=010169;ELBASAN LETTER GE=01050A" \o
      ";MEROITIC CURSIVE NUMBER FOUR HUNDRED THOUSAND=0109F0;CHAKMA DIGIT FOUR=01113A" \o
      ";MAHAJANI LETTER I=011151;SHARADA LETTER MA=0111A9;NEWA VOWEL SIGN I=011436" \o
      ";SIDDHAM LETTER GA=011590;AHOM VOWEL SIGN O=011728;MARCHEN LETTER CA=011C76" \o
      ";TAMIL FRACTION ONE TENTH=011FCB;CUNEIFORM SIGN DUN3 GUNU=012086;MIAO VOWEL SIGN N=016F7D" \o
      ";BYZANTINE MUSICAL SYMBOL PARAKLITIKI ARCHAION=01D03E;MATHEMATICAL BOLD ITALIC SMALL X=01D499" \o
      ";ARABIC MATHEMATICAL INITIAL KHAH=01EE37;ARABIC MATHEMATICAL TAILED SHEEN=01EE54" \o
      ";NEGATIVE SQUARED LATIN CAPITAL LETTER D=01F173;AUBERGINE=01F346;OM SYMBOL=01F549" \o
      ";TURNED SOUTH EAST POINTING LEAF=01F657;BLACK CHESS PAWN ROTATED NINETY DEGREES=01FA14" \o
      ";ACCORDION=01FA97",
    ";COMBINING GREEK DIALYTIKA TONOS=000344;CYRILLIC SMALL LETTER JE=000458;ARABIC LETTER TEH=00062A" \o
      ";BENGALI LETTER PA=0009AA;KANNADA LETTER TA=000CA4;KANNADA DIGIT SIX=000CEC" \o
      ";MYANMAR SIGN SHAN COUNCIL TONE-3=00108C;NEW TAI LUE LETTER LOW BA=0019A5" \o
      ";LEPCHA LETTER NGA=001C05;DOT MINUS=002238;APL FUNCTIONAL SYMBOL EPSILON UNDERBAR=002377" \o
      ";TURNED WHITE SHOGI PIECE=0026C9;BRAILLE PATTERN DOTS-3457=00285C" \o
      ";BRAILLE PATTERN DOTS-2467=00286A;BRAILLE PATTERN DOTS-1567=002871" \o
      ";BRAILLE PATTERN DOTS-2458=00289A;BRAILLE PATTERN DOTS-2368=0028A6" \o
      ";BRAILLE PATTERN DOTS-1468=0028A9;BRAILLE PATTERN DOTS-1378=0028C5" \o
      ";LESS-THAN ABOVE LEFTWARDS ARROW=002976;KATAKANA LETTER SMALL YU=0030E5;SQUARE HZ=003390" \o
      ";SQUARE KW=0033BE;SQUARE PR=0033DA;YI SYLLABLE VYRX=00A0FE;YI SYLLABLE ZURX=00A2A6" \o
      ";YI SYLLABLE ZZUP=00A2E4;YI SYLLABLE NZYX=00A304;VAI SYLLABLE MGBE=00A5EE" \o
      ";BAMUM LETTER MBAA=00A6E7;JAVANESE CONSONANT SIGN PENGKAL=00A9BE;CHEROKEE SMALL LETTER NV=00AB95" \o
      ";MEETEI MAYEK LETTER GHOU=00ABD8;CJK COMPATIBILITY IDEOGRAPH-F902=00F902" \o
      ";CJK COMPATIBILITY IDEOGRAPH-F911=00F911;CJK COMPATIBILITY IDEOGRAPH-F920=00F920" \o
      ";ARABIC LETTER ALEF ISOLATED FORM=00FE8D;HALFWIDTH IDEOGRAPHIC FULL STOP=00FF61" \o
      ";HALFWIDTH HANGUL LETTER KHIEUKH=00FFBB;FULLWIDTH MACRON=00FFE3;DESERET SMALL LETTER TEE=01043B" \o
      ";ELBASAN LETTER HE=01050C;BRAHMI LETTER GHA=011016;KAITHI LETTER DDA=011099" \o
      ";SHARADA LETTER NA=0111A4;NEWA DOUBLE COMMA=01145A;SIDDHAM LETTER HA=0115AE" \o
      ";MARCHEN LETTER DA=011C7C;MAKASAR LETTER BA=011EE4;TAMIL FRACTION THREE EIGHTIETHS=011FC6" \o
      ";CUNEIFORM SIGN BULUG OVER BULUG=012052;MIAO VOWEL SIGN O=016F59" \o
      ";MATHEMATICAL BOLD ITALIC SMALL Y=01D49A;MATHEMATICAL SANS-SERIF BOLD SMALL ZETA=01D775" \o
      ";MATHEMATICAL SANS-SERIF BOLD DIGIT FOUR=01D7F0;NEGATIVE SQUARED LATIN CAPITAL LETTER E=01F174" \o
      ";WIND BLOWING FACE=01F32C;PANDA FACE=01F43C;CAMERA WITH FLASH=01F4F8" \o
      ";SANS-SERIF HEAVY DOUBLE COMMA QUOTATION MARK ORNAMENT=01F677",
    ";COPTIC SMALL LETTER SHEI=0003E3;EXTENDED ARABIC-INDIC DIGIT FOUR=0006F4" \o
      ";SYRIAC COLON SKEWED LEFT=000706" \o
      ";ARABIC LETTER DAL WITH TWO DOTS VERTICALLY BELOW AND SMALL TAH=000759;MANDAIC LETTER IN=00084F" \o
      ";BENGALI LETTER II=000988;KANNADA LETTER AU=000C94;THAI CHARACTER LU=000E26" \o
      ";LAO VOWEL SIGN AY=000EC3;TIBETAN MARK BSDUS RTAGS=000F34;TAGALOG LETTER DA=001707" \o
      ";TAI THAM HORA DIGIT EIGHT=001A88;TAI THAM THAM DIGIT EIGHT=001A98" \o
      ";GREEK LETTER SMALL CAPITAL LAMDA=001D27;GREEK CAPITAL LETTER EPSILON WITH DASIA=001F19" \o
      ";FLOWER PUNCTUATION MARK=002055;SMALL ROMAN NUMERAL FIVE=002174;SMALL ROMAN NUMERAL NINE=002178" \o
      ";SYMBOL FOR NEGATIVE ACKNOWLEDGE=002415;BRAILLE PATTERN DOTS-3467=00286C" \o
      ";BRAILLE PATTERN DOTS-2567=002872;BRAILLE PATTERN DOTS-3458=00289C" \o
      ";BRAILLE PATTERN DOTS-2468=0028AA;BRAILLE PATTERN DOTS-1568=0028B1" \o
      ";BRAILLE PATTERN DOTS-2378=0028C6;BRAILLE PATTERN DOTS-1478=0028C9" \o
      ";TWO LOGICAL AND OPERATOR=002A07;UPWARDS TRIANGLE-HEADED ARROW WITH LONG TIP LEFTWARDS=002BA2" \o
      ";LEFTWARDS TRIANGLE-HEADED ARROW WITH LONG TIP UPWARDS=002BA4" \o
      ";GLAGOLITIC SMALL LETTER SHTAPIC=002C5C;COPTIC SYMBOL SHIMA SIMA=002CEA;HIRAGANA LETTER I=003044" \o
      ";SQUARE PS=0033B0;SQUARE MV=0033B7;HEXAGRAM FOR GREAT POWER=004DE1;VAI SYLLABLE NDEE=00A515" \o
      ";VAI SYLLABLE GBEN=00A5F0;MODIFIER LETTER CHINESE TONE YANG SHANG=00A703" \o
      ";LATIN SMALL LETTER VISIGOTHIC Z=00A763;CJK COMPATIBILITY IDEOGRAPH-F903=00F903" \o
      ";CJK COMPATIBILITY IDEOGRAPH-F912=00F912;CJK COMPATIBILITY IDEOGRAPH-F921=00F921" \o
      ";CJK COMPATIBILITY IDEOGRAPH-F930=00F930;ARABIC LETTER TTEHEH MEDIAL FORM=00FB61" \o
      ";GREEK GRAMMA SIGN=010188;OLD PERSIAN WORD DIVIDER=0103D0;ELBASAN LETTER EI=010507" \o
      ";PSALTER PAHLAVI LETTER MEM-QOPH=010B8B;SIDDHAM LETTER AI=01158B;WARANG CITI NUMBER FIFTY=0118EE" \o
      ";MAKASAR LETTER CA=011EE9;CUNEIFORM SIGN UD KUSHU2=012314;BAMUM LETTER PHASE-A KAFA=016827" \o
      ";ZNAMENNY NEUME ZANOZHEK=01CF55;MATHEMATICAL BOLD ITALIC SMALL Z=01D49B" \o
      ";MATHEMATICAL SANS-SERIF BOLD ITALIC CAPITAL ETA=01D796" \o
      ";MATHEMATICAL SANS-SERIF BOLD ITALIC SMALL LAMDA=01D7B4" \o
      ";SIGNWRITING ROTATION-WALLPLANE SINGLE=01D9A2;MENDE KIKAKUI SYLLABLE M115 NGGEE=01E87A" \o
      ";MENDE KIKAKUI SYLLABLE M159 NGGAA=01E87E;NEGATIVE SQUARED LATIN CAPITAL LETTER F=01F175" \o
      ";CROCODILE=01F40A;NAME BADGE=01F4DB;LEFTWARDS ROCKET=01F66C;HAMMER AND WRENCH=01F6E0" \o
      ";BOLD WHITE CIRCLE=01F786",
    ";BS=000008;CR=00000D;PLUS SIGN=00002B;LATIN CAPITAL LETTER B WITH HOOK=000181" \o
      ";LATIN CAPITAL LETTER U WITH DIAERESIS AND ACUTE=0001D7;LATIN SMALL LETTER AE WITH ACUTE=0001FD" \o
      ";CYRILLIC SMALL LETTER EL=00043B;ARABIC LETTER ZAH=000638;ARABIC LETTER VEH=0006A4" \o
      ";ARABIC SMALL LOW NOON WITH KASRA=0008D9;BENGALI LETTER RA=0009B0;KANNADA LETTER VA=000CB5" \o
      ";TIBETAN ASTROLOGICAL SIGN SDONG TSHUGS=000F19;MONGOLIAN LETTER TODO JA=001853" \o
      ";NEW TAI LUE LETTER LOW DA=0019A4;LEPCHA LETTER KLA=001C01" \o
      ";MODIFIER LETTER SMALL TOP HALF O=001D54;GREEK SMALL LETTER EPSILON WITH DASIA AND VARIA=001F13" \o
      ";THREE RIGHTWARDS ARROWS=0021F6;BOX DRAWINGS LIGHT DOUBLE DASH VERTICAL=00254E" \o
      ";WHITE SQUARE WITH LOWER RIGHT QUADRANT=0025F2;BRAILLE PATTERN DOTS-3567=002874" \o
      ";BRAILLE PATTERN DOTS-3468=0028AC;BRAILLE PATTERN DOTS-2568=0028B2" \o
      ";BRAILLE PATTERN DOTS-2478=0028CA;BRAILLE PATTERN DOTS-1578=0028D1" \o
      ";REVERSED DOUBLE STROKE NOT SIGN=002AED;LEFTWARDS TRIANGLE-HEADED ARROW=002B60" \o
      ";COPTIC SMALL LETTER SIMA=002CA5;COPTIC SMALL LETTER DIALECT-P NI=002CBB" \o
      ";COPTIC SMALL LETTER CRYPTOGRAMMIC SHEI=002CEC;KATAKANA LETTER I=0030A4" \o
      ";CIRCLED NUMBER FORTY ONE=0032B6;SQUARE NV=0033B5;SQUARE MW=0033BD;SQUARE LX=0033D3" \o
      ";YI SYLLABLE ZZOX=00A2DC;YI SYLLABLE ZZUR=00A2E6;YI SYLLABLE XYRX=00A46F" \o
      ";VAI SYLLABLE DHHI=00A536;VAI SYLLABLE NGGA=00A56C;LATIN CAPITAL LETTER L WITH BELT=00A7AD" \o
      ";CHEROKEE SMALL LETTER WO=00ABBC;CJK COMPATIBILITY IDEOGRAPH-F904=00F904" \o
      ";CJK COMPATIBILITY IDEOGRAPH-F913=00F913;CJK COMPATIBILITY IDEOGRAPH-F922=00F922" \o
      ";CJK COMPATIBILITY IDEOGRAPH-F931=00F931;CJK COMPATIBILITY IDEOGRAPH-F940=00F940" \o
      ";ARABIC LETTER KEHEH INITIAL FORM=00FB90;ARABIC LIGATURE DAD WITH HAH WITH YEH FINAL FORM=00FDAB" \o
      ";COMBINING MACRON LEFT HALF BELOW=00FE2B;DESERET SMALL LETTER VEE=010442" \o
      ";DESERET SMALL LETTER ESH=010447;ELBASAN LETTER JE=01050E;ELBASAN LETTER NA=010514" \o
      ";KAITHI LETTER BHA=0110A6;SHARADA LETTER PA=0111A5;KHOJKI LETTER BBA=011222" \o
      ";SIDDHAM LETTER JA=011595;MAKASAR LETTER DA=011EE7;BAMUM LETTER PHASE-D GHAA=016912" \o
      ";BAMUM LETTER PHASE-D MBAA=016920;PAHAWH HMONG NUMBER TENS=016B5B" \o
      ";MUSICAL SYMBOL HALF NOTE=01D15E;COMBINING GLAGOLITIC LETTER AZU=01E000" \o
      ";COMBINING GLAGOLITIC LETTER TSI=01E01C;NEGATIVE SQUARED LATIN CAPITAL LETTER G=01F176" \o
      ";SMILING CAT FACE WITH OPEN MOUTH=01F63A;ALCHEMICAL SYMBOL FOR HALF OUNCE=01F773" \o
      ";RIGHT HALF FOLDER=01FBBA",
    ";SHIFT OUT=00000E;LATIN CAPITAL LETTER C WITH HOOK=000187" \o
      ";LATIN CAPITAL LETTER U WITH DIAERESIS AND CARON=0001D9;CYRILLIC SMALL LETTER EM=00043C" \o
      ";CYRILLIC SMALL LETTER HA WITH DESCENDER=0004B3;CYRILLIC SMALL LETTER QA=00051B" \o
      ";ARMENIAN SMALL LETTER YI=000575;NKO COMBINING NASALIZATION MARK=0007F2;BENGALI LETTER SA=0009B8" \o
      ";CANADIAN SYLLABICS NNGOO=001674;TAGBANWA LETTER A=001760;MONGOLIAN LETTER TODO KA=001857" \o
      ";LEPCHA LETTER PHA=001C10;ESTIMATED SYMBOL=00212E;BOX DRAWINGS LIGHT DOWN AND LEFT=002510" \o
      ";BOX DRAWINGS LEFT UP HEAVY AND RIGHT DOWN LIGHT=002543" \o
      ";BOX DRAWINGS RIGHT UP HEAVY AND LEFT DOWN LIGHT=002544" \o
      ";BOX DRAWINGS LEFT DOWN HEAVY AND RIGHT UP LIGHT=002545" \o
      ";BOX DRAWINGS RIGHT DOWN HEAVY AND LEFT UP LIGHT=002546;LOWER HALF CIRCLE=0025E1" \o
      ";BRAILLE PATTERN DOTS-4567=002878;BRAILLE PATTERN DOTS-3568=0028B4" \o
      ";BRAILLE PATTERN DOTS-3478=0028CC;BRAILLE PATTERN DOTS-2578=0028D2" \o
      ";BRAILLE PATTERN DOTS-1678=0028E1;KANGXI RADICAL SHORT TAILED BIRD=002FAB;SQUARE OV=003375" \o
      ";SQUARE NW=0033BB;SQUARE SR=0033DB;HEXAGRAM FOR DELIVERANCE=004DE7;YI SYLLABLE YYRX=00A48B" \o
      ";CYRILLIC PAYEROK=00A67F;BAMUM LETTER NDAA=00A6B1;PHAGS-PA LETTER U=00A85F" \o
      ";MYANMAR LETTER KHAMTI RA=00AA73;HANGUL JONGSEONG KAPYEOUNRIEUL=00D7DD" \o
      ";CJK COMPATIBILITY IDEOGRAPH-F905=00F905;CJK COMPATIBILITY IDEOGRAPH-F914=00F914" \o
      ";CJK COMPATIBILITY IDEOGRAPH-F923=00F923;CJK COMPATIBILITY IDEOGRAPH-F932=00F932" \o
      ";CJK COMPATIBILITY IDEOGRAPH-F941=00F941;CJK COMPATIBILITY IDEOGRAPH-F950=00F950" \o
      ";ARABIC LETTER NOON GHUNNA ISOLATED FORM=00FB9E;ARABIC LIGATURE YEH WITH HEH MEDIAL FORM=00FCF1" \o
      ";FULLWIDTH QUESTION MARK=00FF1F;DESERET SMALL LETTER GAY=010440;DESERET SMALL LETTER ETH=010443" \o
      ";ELBASAN LETTER KE=01050F;MEROITIC HIEROGLYPHIC LETTER BA=010986;BRAHMI LETTER JHA=01101B" \o
      ";KAITHI LETTER CHA=011093;CHAKMA DIGIT ZERO=011136;SHARADA LETTER II=011186" \o
      ";SHARADA SIGN UPADHMANIYA=0111C3;SIDDHAM LETTER KA=01158E;MODI VOWEL SIGN O=01163B" \o
      ";DIVES AKURU VOWEL SIGN U=011933;MARCHEN LETTER GA=011C74" \o
      ";CUNEIFORM SIGN AB TIMES IGI GUNU=012010;BAMUM LETTER PHASE-D KEUOT MBUAE=01690F" \o
      ";BYZANTINE MUSICAL SYMBOL ISON ARCHAION=01D01A" \o
      ";BYZANTINE MUSICAL SYMBOL DIESIS DIGRAMMOS EX DODEKATA=01D0D2" \o
      ";SIGNWRITING TENSE CHEEKS MIDDLE=01DA2E;SIGNWRITING NECK=01DA6A" \o
      ";ADLAM CAPITAL LETTER SINNYIIYHE=01E905;INDIC SIYAQ NUMBER KAROR=01ECA1" \o
      ";ARABIC MATHEMATICAL LOOPED GHAIN=01EE9B;DIGIT THREE COMMA=01F104" \o
      ";NEGATIVE SQUARED LATIN CAPITAL LETTER H=01F177;HONEY POT=01F36F;BILLIARDS=01F3B1" \o
      ";PLAYGROUND SLIDE=01F6DD",
    ";LATIN CAPITAL LETTER D WITH HOOK=00018A;LATIN SMALL LETTER SCHWA=000259" \o
      ";CYRILLIC SMALL LETTER EN=00043D;ARMENIAN SMALL LETTER TO=000569;ARABIC LETTER DUL=00068E" \o
      ";BENGALI LETTER TA=0009A4;BENGALI DIGIT SIX=0009EC;CHEROKEE LETTER A=0013A0" \o
      ";CHEROKEE SMALL LETTER YO=0013FA;TAGALOG LETTER GA=001704;NEW TAI LUE LETTER LOW FA=00199D" \o
      ";LEPCHA LETTER MLA=001C16;BLACK FLAG=002691;BRAILLE PATTERN DOTS-4568=0028B8" \o
      ";BRAILLE PATTERN DOTS-3578=0028D4;BRAILLE PATTERN DOTS-2678=0028E2" \o
      ";LEFT WHITE CURLY BRACKET=002983;DOUBLE LOGICAL OR=002A54" \o
      ";SOUTH WEST TRIANGLE-HEADED ARROW TO BAR=002B79;GLAGOLITIC CAPITAL LETTER FRITU=002C17" \o
      ";SQUARE RAD OVER S=0033AE;SQUARE PV=0033B4;YI SYLLABLE ZYRX=00A2AC;YI SYLLABLE ZZYP=00A2EA" \o
      ";VAI SYLLABLE MGBI=00A52F;PHAGS-PA MARK DOUBLE SHAD=00A877;REJANG LETTER MBA=00A942" \o
      ";MYANMAR LETTER KHAMTI SA=00AA6C;CHEROKEE SMALL LETTER SU=00ABA1;MEETEI MAYEK LETTER KHOU=00ABC8" \o
      ";MEETEI MAYEK LETTER NGOU LONSUM=00ABE1;CJK COMPATIBILITY IDEOGRAPH-F906=00F906" \o
      ";CJK COMPATIBILITY IDEOGRAPH-F915=00F915;CJK COMPATIBILITY IDEOGRAPH-F924=00F924" \o
      ";CJK COMPATIBILITY IDEOGRAPH-F933=00F933;CJK COMPATIBILITY IDEOGRAPH-F942=00F942" \o
      ";CJK COMPATIBILITY IDEOGRAPH-F951=00F951;CJK COMPATIBILITY IDEOGRAPH-F960=00F960" \o
      ";ARABIC LETTER HEH DOACHASHMEE FINAL FORM=00FBAB;ARABIC LIGATURE LAM WITH MEEM FINAL FORM=00FC85" \o
      ";ARABIC LIGATURE JALLAJALALOUHOU=00FDFB;ARABIC LETTER KHAH ISOLATED FORM=00FEA5" \o
      ";ARABIC LETTER GHAIN INITIAL FORM=00FECF;CARIAN LETTER C-18=0102B1;CARIAN LETTER ST2=0102C3" \o
      ";ELBASAN LETTER LE=010510;TINY TWO DOTS OVER ONE DOT PUNCTUATION=010B3A;BRAHMI LETTER KHA=011014" \o
      ";KAITHI LETTER DHA=0110A1;SORA SOMPENG DIGIT THREE=0110F3;SHARADA LETTER RA=0111AB" \o
      ";GRANTHA LETTER AA=011306;SIDDHAM LETTER LA=0115A9;MARCHEN LETTER HA=011C8E" \o
      ";BAMUM LETTER PHASE-B MFON TEUAEQ=01686B;BAMUM LETTER PHASE-B MEUT NGGEET=016882" \o
      ";BAMUM LETTER PHASE-E NYI CLEAVER=0169AD;BAMUM LETTER PHASE-F MBAA=016A34" \o
      ";MATHEMATICAL SANS-SERIF BOLD DIGIT ZERO=01D7EC;COMBINING GLAGOLITIC LETTER ONU=01E011" \o
      ";INDIC SIYAQ NUMBER TWO THOUSAND=01EC8D;ARABIC MATHEMATICAL INITIAL JEEM=01EE22" \o
      ";ARABIC MATHEMATICAL TAILED DOTLESS NOON=01EE5D;ARABIC MATHEMATICAL DOUBLE-STRUCK GHAIN=01EEBB" \o
      ";NEGATIVE SQUARED LATIN CAPITAL LETTER I=01F178;MILKY WAY=01F30C;WHITE SUN=01F323" \o
      ";SPEEDBOAT=01F6A4;DOWNWARDS TRIANGLE-HEADED ARROW WITH VERY HEAVY SHAFT=01F833" \o
      ";BLACK CHESS ROOK ROTATED NINETY DEGREES=01FA11",
    ";REVERSE LINE FEED=00008D;LATIN CAPITAL LETTER U WITH DIAERESIS AND GRAVE=0001DB" \o
      ";GREEK CAPITAL LETTER YOT=00037F;HEBREW ACCENT SHALSHELET=000593;ARABIC LETTER YEH=00064A" \o
      ";ARABIC LETTER KIRGHIZ YU=0006C9;EXTENDED ARABIC-INDIC DIGIT ZERO=0006F0" \o
      ";THAANA LETTER YAA=000794;MANDAIC LETTER AZ=000846;ARABIC LARGE CIRCLE BELOW=0008D1" \o
      ";BENGALI LETTER AU=000994;KANNADA LETTER YA=000CAF;MYANMAR LETTER VOCALIC R=001052" \o
      ";HANGUL JONGSEONG KAPYEOUNPIEUP=0011E6;OGHAM LETTER EAMHANCHOLL=001699;TAGALOG LETTER HA=001711" \o
      ";MONGOLIAN LETTER TODO MA=00184F;BATAK LETTER NORTHERN TA=001BD7" \o
      ";GREEK LETTER SMALL CAPITAL GAMMA=001D26;SET MINUS=002216" \o
      ";WHITE SQUARE WITH UPPER RIGHT QUADRANT=0025F3;BRAILLE PATTERN DOTS-4578=0028D8" \o
      ";BRAILLE PATTERN DOTS-3678=0028E4;LOGICAL AND WITH DOUBLE UNDERBAR=002A60" \o
      ";GLAGOLITIC CAPITAL LETTER RITSI=002C13;GEORGIAN SMALL LETTER UN=002D13" \o
      ";RIGHT SIDEWAYS U BRACKET=002E27;IDEOGRAPHIC ANNOTATION TOP MARK=003196;SQUARE PW=0033BA" \o
      ";CHEROKEE SMALL LETTER SV=00ABA2;CJK COMPATIBILITY IDEOGRAPH-F907=00F907" \o
      ";CJK COMPATIBILITY IDEOGRAPH-F916=00F916;CJK COMPATIBILITY IDEOGRAPH-F925=00F925" \o
      ";CJK COMPATIBILITY IDEOGRAPH-F934=00F934;CJK COMPATIBILITY IDEOGRAPH-F943=00F943" \o
      ";CJK COMPATIBILITY IDEOGRAPH-F952=00F952;CJK COMPATIBILITY IDEOGRAPH-F961=00F961" \o
      ";CJK COMPATIBILITY IDEOGRAPH-F970=00F970;LINEAR B SYLLABLE B062 PTE=010047" \o
      ";CARIAN LETTER TT2=0102B6;DESERET SMALL LETTER YEE=010437;ELBASAN LETTER ME=010512" \o
      ";MODIFIER LETTER SMALL CAPITAL AA=010780;MEROITIC HIEROGLYPHIC LETTER DA=01099D" \o
      ";MANICHAEAN LETTER JHAYIN=010ACC;MAHAJANI LETTER O=011154;SHARADA LETTER SA=0111B1" \o
      ";GRANTHA LETTER BA=01132C;NEWA VOWEL SIGN O=011440;SIDDHAM LETTER MA=0115A6" \o
      ";AHOM VOWEL SIGN U=011724;MAKASAR LETTER GA=011EE1" \o
      ";CUNEIFORM PUNCTUATION SIGN DIAGONAL QUADCOLON=012474" \o
      ";MATHEMATICAL SANS-SERIF BOLD ITALIC SMALL GAMMA=01D7AC" \o
      ";SIGNWRITING TONGUE MOVES AGAINST CHEEK=01DA5E;INDIC SIYAQ NUMBER SEVEN=01EC77" \o
      ";MAHJONG TILE EIGHT OF CHARACTERS=01F00E;NEGATIVE SQUARED LATIN CAPITAL LETTER J=01F179" \o
      ";ICE HOCKEY STICK AND PUCK=01F3D2;OPTICAL DISC ICON=01F5B8;NORTH EAST POINTING LEAF=01F652" \o
      ";UPWARDS WHITE ARROW WITHIN TRIANGLE ARROWHEAD=01F895;FACE WITH MONOCLE=01F9D0",
    ";FS=00001C;FULL STOP=00002E;DIAERESIS=0000A8;LATIN CAPITAL LETTER F WITH HOOK=000191" \o
      ";CYRILLIC SMALL LETTER PE=00043F;CYRILLIC SMALL LETTER KA WITH DESCENDER=00049B" \o
      ";ARMENIAN SMALL LETTER VO=000578;THAANA LETTER ZAA=00079C;ARABIC LETTER AFRICAN FEH=0008BB" \o
      ";DEVANAGARI STRESS SIGN ANUDATTA=000952;TAMIL DIGIT EIGHT=000BEE;KANNADA DIGIT TWO=000CE8" \o
      ";CANADIAN SYLLABICS SHWII=00151B;KHMER DIGIT EIGHT=0017E8;MONGOLIAN LETTER SIBE IY=00185F" \o
      ";CANADIAN SYLLABICS TLHWE=0018E8;NEW TAI LUE LETTER LOW HA=0019A3;LEPCHA LETTER SHA=001C21" \o
      ";NORTH WEST ARROW=002196;BOX DRAWINGS DOUBLE UP AND RIGHT=00255A;UPPER HALF CIRCLE=0025E0" \o
      ";BRAILLE PATTERN DOTS-4678=0028E8;GREATER-THAN OR SLANTED EQUAL TO WITH DOT ABOVE=002A82" \o
      ";STAR WITH LEFT HALF BLACK=002BEA;IDEOGRAPHIC CLOSING MARK=003006" \o
      ";LOW DOUBLE PRIME QUOTATION MARK=00301F;HIRAGANA LETTER N=003093;YI SYLLABLE ZZYR=00A2EC" \o
      ";VAI SYLLABLE NGGE=00A604;TAI VIET VOWEL UA=00AABA;MEETEI MAYEK LETTER NGOU=00ABC9" \o
      ";CJK COMPATIBILITY IDEOGRAPH-F908=00F908;CJK COMPATIBILITY IDEOGRAPH-F917=00F917" \o
      ";CJK COMPATIBILITY IDEOGRAPH-F926=00F926;CJK COMPATIBILITY IDEOGRAPH-F935=00F935" \o
      ";CJK COMPATIBILITY IDEOGRAPH-F944=00F944;CJK COMPATIBILITY IDEOGRAPH-F953=00F953" \o
      ";CJK COMPATIBILITY IDEOGRAPH-F962=00F962;CJK COMPATIBILITY IDEOGRAPH-F971=00F971" \o
      ";CJK COMPATIBILITY IDEOGRAPH-F980=00F980;CJK COMPATIBILITY IDEOGRAPH-FA00=00FA00" \o
      ";LINEAR B SYLLABLE B048 NWA=010045;DESERET SMALL LETTER ZEE=010446;ELBASAN LETTER NE=010513" \o
      ";MODIFIER LETTER SMALL V WITH RIGHT HOOK=0107B0;BRAHMI LETTER NGA=011017" \o
      ";BRAHMI PUNCTUATION CRESCENT BAR=01104C;SHARADA LETTER TA=0111A0;SHARADA DIGIT SIX=0111D6" \o
      ";KHOJKI LETTER DDA=011216;GRANTHA LETTER CA=01131A;SIDDHAM LETTER NA=0115A1" \o
      ";MARCHEN LETTER JA=011C78;CUNEIFORM NUMERIC SIGN FIVE BAN2=012454;TANGSA DIGIT FIVE=016AC5" \o
      ";TANGSA DIGIT NINE=016AC9;PAHAWH HMONG MARK CIM KES=016B32;MIAO VOWEL SIGN U=016F6A" \o
      ";SIGNWRITING HAIR=01DA6B;INDIC SIYAQ NUMBER FIFTY=01EC7E" \o
      ";NEGATIVE SQUARED LATIN CAPITAL LETTER K=01F17A;VERY HEAVY FIVE SPOKED ASTERISK=01F7B3" \o
      ";DOWNWARDS SQUARED ARROW=01F83B;SMILING FACE WITH SMILING EYES AND THREE HEARTS=01F970" \o
      ";WHITE CHESS QUEEN ROTATED TWO HUNDRED SEVENTY DEGREES=01FA34",
    ";NL=00000A;GS=00001D;LATIN CAPITAL LETTER G WITH HOOK=000193" \o
      ";MODIFIER LETTER RIGHT ARROWHEAD=0002C3;MANDAIC LETTER IT=000847" \o
      ";ARABIC TONE ONE DOT BELOW=0008ED;DEVANAGARI VOWEL SIGN UU=000942;THAI CHARACTER RU=000E24" \o
      ";TIBETAN DIGIT ONE=000F21;TIBETAN LETTER BA=000F56;LEPCHA LETTER THA=001C0B" \o
      ";LEPCHA LETTER PLA=001C0F;LEPCHA DIGIT FOUR=001C44;RIGHTWARDS TRIPLE ARROW=0021DB" \o
      ";ASYMPTOTICALLY EQUAL TO=002243;BOX DRAWINGS HEAVY DOUBLE DASH VERTICAL=00254F" \o
      ";BOX DRAWINGS DOWN SINGLE AND HORIZONTAL DOUBLE=002564" \o
      ";BOX DRAWINGS DOWN DOUBLE AND HORIZONTAL SINGLE=002565;GEAR WITH HANDLES=0026EE" \o
      ";BRAILLE PATTERN DOTS-5678=0028F0;SLOPING LARGE AND=002A58;HIRAGANA LETTER O=00304A" \o
      ";KATAKANA LETTER N=0030F3;SQUARE SV=0033DC;VAI SYLLABLE NJEE=00A51C;REJANG LETTER NDA=00A944" \o
      ";CJK COMPATIBILITY IDEOGRAPH-F909=00F909;CJK COMPATIBILITY IDEOGRAPH-F918=00F918" \o
      ";CJK COMPATIBILITY IDEOGRAPH-F927=00F927;CJK COMPATIBILITY IDEOGRAPH-F936=00F936" \o
      ";CJK COMPATIBILITY IDEOGRAPH-F945=00F945;CJK COMPATIBILITY IDEOGRAPH-F954=00F954" \o
      ";CJK COMPATIBILITY IDEOGRAPH-F963=00F963;CJK COMPATIBILITY IDEOGRAPH-F972=00F972" \o
      ";CJK COMPATIBILITY IDEOGRAPH-F981=00F981;CJK COMPATIBILITY IDEOGRAPH-F990=00F990" \o
      ";CJK COMPATIBILITY IDEOGRAPH-FA01=00FA01;CJK COMPATIBILITY IDEOGRAPH-FA10=00FA10" \o
      ";ARABIC LETTER PEHEH INITIAL FORM=00FB70;ARABIC LIGATURE BEH WITH ZAIN FINAL FORM=00FC6B" \o
      ";COMBINING TILDE RIGHT HALF BELOW=00FE2A;LINEAR B SYLLABLE B090 DWO=010044" \o
      ";GREEK ACROPHONIC TROEZENIAN TEN=010160;CARIAN LETTER C-39=0102C6" \o
      ";DESERET SMALL LETTER KAY=01043F;OLD HUNGARIAN CAPITAL LETTER AMB=010C83" \o
      ";OLD HUNGARIAN CAPITAL LETTER ECH=010CA9;RUMI NUMBER FIVE HUNDRED=010E76" \o
      ";RUMI NUMBER NINE HUNDRED=010E7A;KAITHI LETTER GHA=011090;SHARADA LETTER AU=011190" \o
      ";GRANTHA LETTER DA=011326;NANDINAGARI SIGN VISARGA=0119DF;MARCHEN LETTER KA=011C72" \o
      ";TAMIL SIGN PAARAM=011FE1;BAMUM LETTER PHASE-F NDAA=016A0F;TANGSA LETTER CHA=016ABD" \o
      ";PAHAWH HMONG MARK CIM HOM=016B35;MUSICAL SYMBOL SEMIBREVIS BLACK=01D1BA" \o
      ";MATHEMATICAL BOLD SCRIPT SMALL A=01D4EA;MATHEMATICAL ITALIC CAPITAL BETA=01D6E3" \o
      ";COMBINING GLAGOLITIC LETTER UKU=01E016;ARABIC MATHEMATICAL INITIAL MEEM=01EE2C" \o
      ";NEGATIVE SQUARED LATIN CAPITAL LETTER L=01F17B;BOOMERANG=01FA83",
    ";AMPERSAND=000026;RI=00008D;COMBINING X ABOVE=00033D;CYRILLIC SMALL LETTER ER=000440" \o
      ";THAI CHARACTER PAIYANNOI=000E2F;TIBETAN LETTER CA=000F45;HANGUL JONGSEONG KIYEOK-CHIEUCH=0011FC" \o
      ";CHEROKEE LETTER E=0013A1;TAGALOG LETTER KA=001703;MONGOLIAN LETTER TODO PA=00184C" \o
      ";CANADIAN SYLLABICS TLHOO=0018E9;LIMBU DIGIT EIGHT=00194E;TAI THAM HORA DIGIT THREE=001A83" \o
      ";TAI THAM THAM DIGIT THREE=001A93;BALINESE MUSICAL SYMBOL COMBINING BENDE=001B72" \o
      ";FOUR-PER-EM SPACE=002005;DOUBLE-STRUCK CAPITAL PI=00213F;EMPTY SET=002205" \o
      ";CIRCLED DIGIT SIX=002465;BOX DRAWINGS HEAVY DOWN AND LEFT=002513;BALLOT BOX WITH X=002612" \o
      ";SQUARED ASTERISK=0029C6;EQUALS SIGN WITH INFINITY BELOW=002BF9;COPTIC SMALL LETTER ZATA=002C8D" \o
      ";TURNED SEMICOLON=002E35;KATAKANA LETTER O=0030AA;SQUARE HEKUTAARU=003336" \o
      ";YI SYLLABLE ZZUX=00A2E2;YI SYLLABLE ZZYT=00A2E7;VAI SYLLABLE DHHO=00A5CE" \o
      ";LATIN CAPITAL LETTER H WITH HOOK=00A7AA;LATIN CAPITAL LETTER ANGLICANA W=00A7C2" \o
      ";CHEROKEE SMALL LETTER WU=00ABBD;CJK COMPATIBILITY IDEOGRAPH-F919=00F919" \o
      ";CJK COMPATIBILITY IDEOGRAPH-F928=00F928;CJK COMPATIBILITY IDEOGRAPH-F937=00F937" \o
      ";CJK COMPATIBILITY IDEOGRAPH-F946=00F946;CJK COMPATIBILITY IDEOGRAPH-F955=00F955" \o
      ";CJK COMPATIBILITY IDEOGRAPH-F964=00F964;CJK COMPATIBILITY IDEOGRAPH-F973=00F973" \o
      ";CJK COMPATIBILITY IDEOGRAPH-F982=00F982;CJK COMPATIBILITY IDEOGRAPH-F991=00F991" \o
      ";CJK COMPATIBILITY IDEOGRAPH-FA02=00FA02;CJK COMPATIBILITY IDEOGRAPH-FA11=00FA11" \o
      ";CJK COMPATIBILITY IDEOGRAPH-FA20=00FA20;ARABIC LIGATURE SHADDA WITH KASRA ISOLATED FORM=00FC62" \o
      ";ARABIC LIGATURE KHAH WITH YEH FINAL FORM=00FD20" \o
      ";ARABIC LIGATURE BEH WITH HAH WITH YEH FINAL FORM=00FDC2;ELBASAN LETTER PE=010517" \o
      ";SHARADA LETTER VA=0111AE;KHOJKI LETTER BHA=011223;SIDDHAM LETTER PA=0115A2" \o
      ";MARCHEN LETTER LA=011C8B;MAKASAR LETTER JA=011EEA" \o
      ";CUNEIFORM SIGN LAGAR TIMES SHE PLUS SUM=0121EE;TANGSA LETTER DHA=016ABC" \o
      ";MIAO VOWEL SIGN W=016F5C;BYZANTINE MUSICAL SYMBOL FTHORA NENANO=01D0C7" \o
      ";MATHEMATICAL BOLD SCRIPT SMALL B=01D4EB;MATHEMATICAL SANS-SERIF BOLD ITALIC CAPITAL PHI=01D7A5" \o
      ";MATHEMATICAL SANS-SERIF BOLD ITALIC SMALL ALPHA=01D7AA;SIGNWRITING HAND-FIST RING DOWN=01D8AB" \o
      ";SIGNWRITING MOVEMENT-DIAGONAL BETWEEN TOWARDS MEDIUM=01D962;WANCHO DIGIT FIVE=01E2F5" \o
      ";WANCHO DIGIT NINE=01E2F9;NEGATIVE SQUARED LATIN CAPITAL LETTER M=01F17C" \o
      ";MAN IN BUSINESS SUIT LEVITATING=01F574;STEAM LOCOMOTIVE=01F682" \o
      ";HEAVY ARROW SHAFT WIDTH ONE HALF=01F89E;LEFT HALF CIRCLE WITH DOT=01F906;HEADSTONE=01FAA6",
    ";HT=000009;SI=00000F;GREEK SMALL LETTER ARCHAIC SAMPI=000373;GREEK LOWER NUMERAL SIGN=000375" \o
      ";CYRILLIC SMALL LETTER ES=000441;CYRILLIC SMALL LETTER IO=000451;BENGALI LETTER YA=0009AF" \o
      ";KANNADA LETTER OO=000C93;TIBETAN LETTER DA=000F51;OGHAM LETTER DAIR=001687" \o
      ";TAGALOG LETTER LA=00170E;MONGOLIAN LETTER TODO QA=00184D;NEW TAI LUE LETTER LOW KA=001985" \o
      ";NEW TAI LUE VOWEL SIGN OA=0019B8;LEPCHA LETTER DZA=001C19" \o
      ";GREEK SMALL LETTER UPSILON WITH PSILI AND PERISPOMENI=001F56;BLACK MOON LILITH=0026B8" \o
      ";GEORGIAN SMALL LETTER YN=002D27;COMBINING CYRILLIC LETTER DJERV=002DF8" \o
      ";HANGZHOU NUMERAL THIRTY=00303A;YI SYLLABLE BBIEP=00A05D;VAI SYLLABLE NGAN=00A54B" \o
      ";MYANMAR LETTER KHAMTI XA=00AA71;CHEROKEE SMALL LETTER WV=00ABBE" \o
      ";CJK COMPATIBILITY IDEOGRAPH-F929=00F929;CJK COMPATIBILITY IDEOGRAPH-F938=00F938" \o
      ";CJK COMPATIBILITY IDEOGRAPH-F947=00F947;CJK COMPATIBILITY IDEOGRAPH-F956=00F956" \o
      ";CJK COMPATIBILITY IDEOGRAPH-F965=00F965;CJK COMPATIBILITY IDEOGRAPH-F974=00F974" \o
      ";CJK COMPATIBILITY IDEOGRAPH-F983=00F983;CJK COMPATIBILITY IDEOGRAPH-F992=00F992" \o
      ";CJK COMPATIBILITY IDEOGRAPH-FA03=00FA03;CJK COMPATIBILITY IDEOGRAPH-FA12=00FA12" \o
      ";CJK COMPATIBILITY IDEOGRAPH-FA21=00FA21;CJK COMPATIBILITY IDEOGRAPH-FA30=00FA30" \o
      ";ARABIC LETTER TCHEH INITIAL FORM=00FB7C;ARABIC LETTER JEEM ISOLATED FORM=00FE9D" \o
      ";PHAISTOS DISC SIGN SLING=0101E5;ELBASAN LETTER QE=010518;BRAHMI LETTER PHA=011028" \o
      ";BRAHMI LETTER LLA=011034;SORA SOMPENG LETTER NGAH=0110D7;KHOJKI LETTER CHA=01120F" \o
      ";SIDDHAM LETTER II=011583;MODI VOWEL SIGN U=011633;TAKRI LETTER DDHA=011697" \o
      ";MARCHEN LETTER MA=011C81;MAKASAR LETTER KA=011EE0;CUNEIFORM SIGN AB=01200A" \o
      ";CUNEIFORM SIGN BA=012040;BAMUM LETTER PHASE-E MGBA=016987;KATAKANA LETTER ARCHAIC E=01B000" \o
      ";ZNAMENNY COMBINING MARK TIKHAYA=01CF23;MUSICAL SYMBOL COMBINING TRIPLE TONGUE=01D18B" \o
      ";MATHEMATICAL BOLD SCRIPT SMALL C=01D4EC;SIGNWRITING DYNAMIC SIMULTANEOUS ALTERNATING=01D9FC" \o
      ";SIGNWRITING MOUTH SMILE=01DA3E;SIGNWRITING TORSO-WALLPLANE STRAIGHT STRETCH=01DA72" \o
      ";CIRCLED CC=01F16D;NEGATIVE SQUARED LATIN CAPITAL LETTER N=01F17D" \o
      ";LOWER LEFT BALLPOINT PEN=01F58A;UPWARDS ARROW WITH NOTCHED TAIL=01F899",
    ";PM=00009E;GREEK SMALL LETTER ARCHAIC KOPPA=0003D9;COPTIC SMALL LETTER HORI=0003E9" \o
      ";CYRILLIC SMALL LETTER TE=000442;CYRILLIC CAPITAL LIGATURE EN GHE=0004A4" \o
      ";BENGALI DIGIT TWO=0009E8;TIBETAN SYMBOL RDO RJE RGYA GRAM=000FC7" \o
      ";CHEROKEE SMALL LETTER YU=0013FB;CANADIAN SYLLABICS WEST-CREE WAA=00141A" \o
      ";TAGALOG LETTER MA=00170B;NEW TAI LUE LETTER LOW LA=00199F;CURLY LOGICAL AND=0022CF" \o
      ";EQUIVALENT WITH FOUR DOTS ABOVE=002A78;VAI SYLLABLE KPEE=00A509;VAI SYLLABLE SHEE=00A517" \o
      ";VAI SYLLABLE NGGI=00A544;VAI SYLLABLE MGBO=00A5C6;REJANG LETTER NGA=00A932" \o
      ";TAI VIET VOWEL UE=00AAB3;TAI VIET VOWEL AY=00AABC;CJK COMPATIBILITY IDEOGRAPH-F939=00F939" \o
      ";CJK COMPATIBILITY IDEOGRAPH-F948=00F948;CJK COMPATIBILITY IDEOGRAPH-F957=00F957" \o
      ";CJK COMPATIBILITY IDEOGRAPH-F966=00F966;CJK COMPATIBILITY IDEOGRAPH-F975=00F975" \o
      ";CJK COMPATIBILITY IDEOGRAPH-F984=00F984;CJK COMPATIBILITY IDEOGRAPH-F993=00F993" \o
      ";CJK COMPATIBILITY IDEOGRAPH-FA04=00FA04;CJK COMPATIBILITY IDEOGRAPH-FA13=00FA13" \o
      ";CJK COMPATIBILITY IDEOGRAPH-FA22=00FA22;CJK COMPATIBILITY IDEOGRAPH-FA31=00FA31" \o
      ";CJK COMPATIBILITY IDEOGRAPH-FA40=00FA40;HALFWIDTH HANGUL LETTER PHIEUPH=00FFBD" \o
      ";ELBASAN LETTER RE=010519;MEROITIC CURSIVE NUMBER EIGHT THOUSAND=0109E2" \o
      ";OLD HUNGARIAN CAPITAL LETTER AND=010C88;KAITHI LETTER JHA=011095;KHOJKI LETTER DHA=01121D" \o
      ";GRANTHA LETTER GA=011317;SIDDHAM LETTER RA=0115A8;TAKRI DIGIT EIGHT=0116C8" \o
      ";MARCHEN LETTER NA=011C7D;MAKASAR LETTER LA=011EEE;MIAO VOWEL SIGN Y=016F71" \o
      ";MUSICAL SYMBOL HALF REST=01D13C;MATHEMATICAL BOLD SCRIPT SMALL D=01D4ED" \o
      ";MATHEMATICAL SANS-SERIF BOLD PHI SYMBOL=01D78D;CIRCLED CD=01F12D" \o
      ";NEGATIVE SQUARED LATIN CAPITAL LETTER O=01F17E;TANGERINE=01F34A;HAMBURGER=01F354" \o
      ";MOTHER CHRISTMAS=01F936;PARACHUTE=01FA82",
    ";LATIN SMALL LETTER A WITH MACRON=000101;LATIN CAPITAL LETTER K WITH HOOK=000198" \o
      ";LATIN SMALL LETTER GLOTTAL STOP=000242;CYRILLIC SMALL LETTER YA=00044F" \o
      ";CYRILLIC SMALL LETTER EL WITH DESCENDER=00052F;ARABIC LETTER AFRICAN QAF=0008BC" \o
      ";RIGHT-FACING SVASTI SIGN=000FD5;MYANMAR SIGN SHAN COUNCIL EMPHATIC TONE=00108D" \o
      ";CHEROKEE SMALL LETTER YV=0013FC;TAGALOG LETTER NA=001708;TAGBANWA LETTER I=001761" \o
      ";MONGOLIAN NIRUGU=00180A;MONGOLIAN LETTER TODO OE=001848;NEW TAI LUE LETTER LOW MA=001999" \o
      ";NEW TAI LUE VOWEL SIGN II=0019B2;BATAK VOWEL SIGN PAKPAK E=001BE8;LEPCHA DIGIT ZERO=001C40" \o
      ";GREEK SMALL LETTER ETA WITH OXIA=001F75;GREEK CAPITAL LETTER ALPHA WITH PROSGEGRAMMENI=001FBC" \o
      ";RIGHT CURLY BRACKET MIDDLE PIECE=0023AC;BOX DRAWINGS LIGHT RIGHT=002576" \o
      ";Z NOTATION SCHEMA PIPING=002A20;ROTATED WHITE FOUR POINTED CUSP=002BCF" \o
      ";LATIN CAPITAL LETTER R WITH TAIL=002C64;VAI SYLLABLE THEE=00A50F;VAI SYLLABLE GBON=00A5C8" \o
      ";SAURASHTRA VOWEL SIGN AA=00A8B5;JAVANESE LETTER A=00A984;MYANMAR LETTER KHAMTI ZA=00AA72" \o
      ";GREEK LETTER SMALL CAPITAL OMEGA=00AB65;CJK COMPATIBILITY IDEOGRAPH-F949=00F949" \o
      ";CJK COMPATIBILITY IDEOGRAPH-F958=00F958;CJK COMPATIBILITY IDEOGRAPH-F967=00F967" \o
      ";CJK COMPATIBILITY IDEOGRAPH-F976=00F976;CJK COMPATIBILITY IDEOGRAPH-F985=00F985" \o
      ";CJK COMPATIBILITY IDEOGRAPH-F994=00F994;CJK COMPATIBILITY IDEOGRAPH-FA05=00FA05" \o
      ";CJK COMPATIBILITY IDEOGRAPH-FA14=00FA14;CJK COMPATIBILITY IDEOGRAPH-FA23=00FA23" \o
      ";CJK COMPATIBILITY IDEOGRAPH-FA32=00FA32;CJK COMPATIBILITY IDEOGRAPH-FA41=00FA41" \o
      ";CJK COMPATIBILITY IDEOGRAPH-FA50=00FA50;ARABIC LETTER TEHEH INITIAL FORM=00FB64" \o
      ";ARABIC LIGATURE TEH WITH MEEM FINAL FORM=00FC72;ARABIC LIGATURE RAHIMAHUM ALLAAH=00FD4F" \o
      ";AEGEAN NUMBER SIX=01010C;ELBASAN LETTER SE=01051B;OLD UYGHUR LETTER LAMEDH=010F78" \o
      ";BRAHMI NUMBER ONE=011052;KAITHI LETTER KHA=01108E;MAHAJANI LETTER U=011152" \o
      ";SHARADA LETTER YA=0111AA;SINHALA ARCHAIC DIGIT ONE=0111E1;GRANTHA LETTER HA=011339" \o
      ";NEWA VOWEL SIGN U=011438;TIRHUTA LETTER VOCALIC L=011489;SIDDHAM LETTER SA=0115AD" \o
      ";DOGRA SIGN VIRAMA=011839;MAKASAR LETTER MA=011EE5;CUNEIFORM SIGN AD=01201C" \o
      ";CUNEIFORM SIGN BI TIMES IGI GUNU=01204C;CUNEIFORM SIGN DA=012055" \o
      ";CUNEIFORM SIGN SAG GUNU TIMES HA=01252D;BAMUM LETTER PHASE-E MBEE=0169A6" \o
      ";TANGSA LETTER GHA=016AB7;DUPLOYAN AFFIX LOW ACUTE=01BC90" \o
      ";MATHEMATICAL BOLD SCRIPT SMALL E=01D4EE;MATHEMATICAL SANS-SERIF BOLD ITALIC SMALL OMEGA=01D7C2" \o
      ";PLAYING CARD FOOL=01F0E0;NEGATIVE SQUARED LATIN CAPITAL LETTER P=01F17F" \o
      ";WHITE SUN BEHIND CLOUD WITH RAIN=01F326;PINEAPPLE=01F34D" \o
      ";NOTCHED LEFT SEMICIRCLE WITH THREE DOTS=01F543" \o
      ";UPWARDS TRIANGLE-HEADED ARROW WITH HEAVY SHAFT=01F82D;TAG VERTICAL LINE=0E007C",
    ";GREEK CAPITAL LETTER PAMPHYLIAN DIGAMMA=000376;CYRILLIC SMALL LETTER VE=000432" \o
      ";HEBREW POINT HOLAM HASER FOR VAV=0005BA;HEBREW LETTER KAF=0005DB" \o
      ";TELUGU LETTER VOCALIC LL=000C61;KANNADA SIGN SPACING CANDRABINDU=000C80" \o
      ";TIBETAN LETTER GA=000F42;CHEROKEE LETTER I=0013A2;CANADIAN SYLLABICS WEST-CREE CWA=00149D" \o
      ";OGHAM LETTER AILM=001690;KHMER SIGN BANTOC=0017CB;MONGOLIAN LETTER TODO TA=001850" \o
      ";NEW TAI LUE LETTER LOW NA=001993;LATIN SMALL LETTER UPSILON WITH STROKE=001D7F" \o
      ";ANTICLOCKWISE OPEN CIRCLE ARROW=0021BA;PENTAGRAM=0026E4" \o
      ";DINGBAT NEGATIVE CIRCLED SANS-SERIF DIGIT EIGHT=002791;LEFT WIGGLY FENCE=0029D8" \o
      ";IDEOGRAPHIC ANNOTATION TWO MARK=003193;IDEOGRAPHIC TELEGRAPH SYMBOL FOR HOUR EIGHTEEN=00336A" \o
      ";HEXAGRAM FOR THE CREATIVE HEAVEN=004DC0;YI SYLLABLE ZZYX=00A2E8;VAI SYLLABLE GBOO=00A57C" \o
      ";BAMUM LETTER NGGA=00A6D4;CJK COMPATIBILITY IDEOGRAPH-F959=00F959" \o
      ";CJK COMPATIBILITY IDEOGRAPH-F968=00F968;CJK COMPATIBILITY IDEOGRAPH-F977=00F977" \o
      ";CJK COMPATIBILITY IDEOGRAPH-F986=00F986;CJK COMPATIBILITY IDEOGRAPH-F995=00F995" \o
      ";CJK COMPATIBILITY IDEOGRAPH-FA06=00FA06;CJK COMPATIBILITY IDEOGRAPH-FA15=00FA15" \o
      ";CJK COMPATIBILITY IDEOGRAPH-FA24=00FA24;CJK COMPATIBILITY IDEOGRAPH-FA33=00FA33" \o
      ";CJK COMPATIBILITY IDEOGRAPH-FA42=00FA42;CJK COMPATIBILITY IDEOGRAPH-FA51=00FA51" \o
      ";CJK COMPATIBILITY IDEOGRAPH-FA60=00FA60;ARABIC LETTER MEEM ISOLATED FORM=00FEE1" \o
      ";PHAISTOS DISC SIGN FLUTE=0101F8;OLD PERSIAN SIGN BUUMISH=0103CF;ELBASAN LETTER TE=01051D" \o
      ";MEROITIC HIEROGLYPHIC LETTER KA=010996;OLD SOGDIAN LETTER ZAYIN=010F08;BRAHMI LETTER SHA=011030" \o
      ";SHARADA DIGIT TWO=0111D2;KHOJKI LETTER GGA=01120B;GRANTHA LETTER EE=01130F" \o
      ";GRANTHA LETTER AI=011310;SIDDHAM LETTER TA=01159D;MARCHEN LETTER PA=011C7E" \o
      ";MAKASAR LETTER NA=011EE8;BAMUM LETTER PHASE-E NYI BETWEEN=0169C0" \o
      ";BYZANTINE MUSICAL SYMBOL DASEIA=01D001;MATHEMATICAL BOLD SCRIPT SMALL F=01D4EF" \o
      ";MATHEMATICAL SANS-SERIF BOLD ITALIC SMALL DELTA=01D7AD;ARABIC MATHEMATICAL INITIAL THEH=01EE36" \o
      ";MAHJONG TILE THREE OF CHARACTERS=01F009;DIGIT SEVEN COMMA=01F108" \o
      ";NEGATIVE SQUARED LATIN CAPITAL LETTER Q=01F180;TWO BUTTON MOUSE=01F5B0" \o
      ";WIDE-HEADED LEFTWARDS BARB ARROW=01F868",
    ";GREEK BETA SYMBOL=0003D0;CYRILLIC SMALL LETTER EN WITH DESCENDER=0004A3" \o
      ";CYRILLIC SMALL LETTER WE=00051D;TAMIL DIGIT THREE=000BE9;TIBETAN LETTER HA=000F67" \o
      ";TAGALOG LETTER PA=001709;KHMER DIGIT THREE=0017E3;BATAK LETTER SOUTHERN TA=001BD6" \o
      ";LATIN SMALL LETTER BOTTOM HALF O=001D17" \o
      ";GREEK SMALL LETTER ALPHA WITH DASIA AND PERISPOMENI AND YPOGEGRAMMENI=001F87" \o
      ";GREEK SMALL LETTER IOTA WITH DIALYTIKA AND OXIA=001FD3;SUPERSCRIPT EQUALS SIGN=00207C" \o
      ";LEFTWARDS ARROW FROM BAR=0021A4;CONTOUR INTEGRAL=00222E" \o
      ";DENTISTRY SYMBOL LIGHT VERTICAL WITH TRIANGLE=0023C3;BLACK CIRCLE WITH TWO WHITE DOTS=002689" \o
      ";TILDE OPERATOR WITH RISING DOTS=002A6B;RIGHTWARDS TRIANGLE-HEADED ARROW TO BAR=002B72" \o
      ";GLAGOLITIC CAPITAL LETTER SLOVO=002C14;LATIN CAPITAL LETTER M WITH HOOK=002C6E" \o
      ";HIRAGANA LETTER U=003046;YI SYLLABLE BBIET=00A05A;YI SYLLABLE DDIEP=00A13C" \o
      ";VAI SYLLABLE BHOO=00A577;VAI SYLLABLE NGEN=00A5E3;JAVANESE VOWEL SIGN SUKU MENDUT=00A9B9" \o
      ";MEETEI MAYEK LETTER THOU=00ABCA;CJK COMPATIBILITY IDEOGRAPH-F969=00F969" \o
      ";CJK COMPATIBILITY IDEOGRAPH-F978=00F978;CJK COMPATIBILITY IDEOGRAPH-F987=00F987" \o
      ";CJK COMPATIBILITY IDEOGRAPH-F996=00F996;CJK COMPATIBILITY IDEOGRAPH-FA07=00FA07" \o
      ";CJK COMPATIBILITY IDEOGRAPH-FA16=00FA16;CJK COMPATIBILITY IDEOGRAPH-FA25=00FA25" \o
      ";CJK COMPATIBILITY IDEOGRAPH-FA34=00FA34;CJK COMPATIBILITY IDEOGRAPH-FA43=00FA43" \o
      ";CJK COMPATIBILITY IDEOGRAPH-FA52=00FA52;CJK COMPATIBILITY IDEOGRAPH-FA61=00FA61" \o
      ";CJK COMPATIBILITY IDEOGRAPH-FA70=00FA70;ARABIC LIGATURE JEEM WITH YEH FINAL FORM=00FD1E" \o
      ";MEROITIC HIEROGLYPHIC LETTER LA=010990;OLD HUNGARIAN CAPITAL LETTER ENC=010C85" \o
      ";CHORASMIAN LETTER LAMEDH=010FBC;BRAHMI LETTER NNA=011021;BRAHMI LETTER THA=011023" \o
      ";BRAHMI DIGIT FOUR=01106A;KAITHI LETTER NGA=011091;SORA SOMPENG DIGIT SEVEN=0110F7" \o
      ";KHOJKI LETTER GHA=01120C;GRANTHA LETTER JA=01131C;SIDDHAM LETTER AU=01158D" \o
      ";CUNEIFORM SIGN GISH TENU=012115;CUNEIFORM SIGN U2=012311" \o
      ";CUNEIFORM SIGN NINDA2 TIMES MASH=012528;BAMUM LETTER PHASE-A PAAM=01684C" \o
      ";BAMUM LETTER PHASE-D NDEE=016915;BAMUM LETTER PHASE-E LAAM=01699F" \o
      ";DUPLOYAN AFFIX RIGHT HORIZONTAL SECANT=01BC72;MATHEMATICAL BOLD SCRIPT SMALL G=01D4F0" \o
      ";SIGNWRITING MOVEMENT-WALLPLANE SINGLE STRAIGHT LARGE=01D92C;SIGNWRITING EARS=01DA30" \o
      ";WANCHO LETTER AAN=01E2E8;NEGATIVE SQUARED LATIN CAPITAL LETTER R=01F181;BABY CHICK=01F424" \o
      ";PAPERCLIP=01F4CE;SOUTH EAST POINTING LEAF=01F653;TURNED NORTH WEST POINTING LEAF=01F654" \o
      ";BILLED CAP=01F9E2",
    ";LATIN SMALL LETTER A WITH OGONEK=000105;MODIFIER LETTER LOW RING=0002F3" \o
      ";ARABIC LETTER WAW=000648;MONGOLIAN LETTER ALI GALI DAMARU=001882" \o
      ";CANADIAN SYLLABICS TTHWE=0018E5;NEW TAI LUE LETTER LOW PA=001997;LEPCHA SIGN NUKTA=001C37" \o
      ";GREEK CAPITAL LETTER OMEGA WITH PROSGEGRAMMENI=001FFC;WJ=002060;SOUTH WEST ARROW=002199" \o
      ";UPWARDS WHITE ARROW ON PEDESTAL=0021EB;CIRCLED DIGIT TWO=002461;WHITE SHOGI PIECE=002616" \o
      ";CAPRICORN=002651;HEAVY EXCLAMATION MARK ORNAMENT=002762;KATAKANA LETTER U=0030A6" \o
      ";PARTNERSHIP SIGN=003250;VAI SYLLABLE DHHU=00A5A7;NORTH INDIC QUARTER MARK=00A836" \o
      ";CJK COMPATIBILITY IDEOGRAPH-F979=00F979;CJK COMPATIBILITY IDEOGRAPH-F988=00F988" \o
      ";CJK COMPATIBILITY IDEOGRAPH-F997=00F997;CJK COMPATIBILITY IDEOGRAPH-FA08=00FA08" \o
      ";CJK COMPATIBILITY IDEOGRAPH-FA17=00FA17;CJK COMPATIBILITY IDEOGRAPH-FA26=00FA26" \o
      ";CJK COMPATIBILITY IDEOGRAPH-FA35=00FA35;CJK COMPATIBILITY IDEOGRAPH-FA44=00FA44" \o
      ";CJK COMPATIBILITY IDEOGRAPH-FA53=00FA53;CJK COMPATIBILITY IDEOGRAPH-FA62=00FA62" \o
      ";CJK COMPATIBILITY IDEOGRAPH-FA71=00FA71;CJK COMPATIBILITY IDEOGRAPH-FA80=00FA80" \o
      ";ARABIC LETTER NGOEH INITIAL FORM=00FB9C;ARABIC LIGATURE THEH WITH REH FINAL FORM=00FC76" \o
      ";PHAISTOS DISC SIGN WOMAN=0101D5;ELBASAN LETTER VE=010520;LINEAR A SIGN AB001=010600" \o
      ";LINEAR A SIGN AB010=010609;PALMYRENE NUMBER TWENTY=01087F" \o
      ";MEROITIC HIEROGLYPHIC LETTER MA=010989;INSCRIPTIONAL PAHLAVI LETTER HE=010B64" \o
      ";ELYMAIC LETTER HE=010FE4;KAITHI ABBREVIATION SIGN=0110BB;GRANTHA LETTER KA=011315" \o
      ";SIDDHAM LETTER VA=0115AA;MODI DANDA=011641;MARCHEN LETTER RA=011C8A;MAKASAR LETTER PA=011EE3" \o
      ";CUNEIFORM SIGN GA=0120B5;BAMUM LETTER PHASE-A MAEM=01684E;PAHAWH HMONG MARK CIM TUB=016B30" \o
      ";DUPLOYAN AFFIX LOW GRAVE=01BC92;ZNAMENNY NEUME STOPITSA=01CF56" \o
      ";MATHEMATICAL BOLD SCRIPT SMALL H=01D4F1;SIGNWRITING MOUTH TENSE=01DA50" \o
      ";ADLAM CONSONANT MODIFIER=01E948;ARABIC MATHEMATICAL INITIAL SEEN=01EE2E" \o
      ";NEGATIVE SQUARED LATIN CAPITAL LETTER S=01F182;AUTOMATED TELLER MACHINE=01F3E7" \o
      ";DEPARTMENT STORE=01F3EC;DOWNWARDS ROCKET=01F66F;ALCHEMICAL SYMBOL FOR AQUA VITAE=01F708" \o
      ";BOLD SIX SPOKED ASTERISK=01F7B7",
    ";SO=00000E;LATIN SMALL LETTER E WITH MACRON=000113;COMBINING VERTICAL TILDE=00033E" \o
      ";CYRILLIC SMALL LETTER CHE WITH VERTICAL STROKE=0004B9" \o
      ";CYRILLIC SMALL LETTER PE WITH DESCENDER=000525;SYRIAC QUSHSHAYA=000741;SAMARITAN MARK IN=000816" \o
      ";KANNADA SIGN JIHVAMULIYA=000CF1;TIBETAN LETTER JA=000F47;HANGUL JONGSEONG CHIEUCH=0011BE" \o
      ";CANADIAN SYLLABICS MOOSE-CREE SK=001509;OGHAM LETTER IFIN=001698;RUNIC LETTER OS O=0016A9" \o
      ";TAGALOG LETTER RA=00170D;MONGOLIAN LETTER TODO WA=001856;LIMBU DIGIT THREE=001949" \o
      ";NEW TAI LUE LETTER LOW QA=001981;GREEK CAPITAL LETTER OMICRON WITH VARIA=001FF8" \o
      ";ROTATED CAPITAL Q=00213A;RIGHTWARDS HARPOON WITH BARB DOWNWARDS=0021C1" \o
      ";DOWNWARDS HARPOON WITH BARB RIGHTWARDS=0021C2;NOT A SUPERSET OF=002285" \o
      ";UMBRELLA WITH RAIN DROPS=002614;DOWNWARDS TRIANGLE-HEADED ARROW=002B63" \o
      ";KANGXI RADICAL ENCLOSURE=002F1E;VAI SYLLABLE KPAN=00A555;VAI SYLLABLE DHOO=00A581" \o
      ";JAVANESE LETTER E=00A98C;CJK COMPATIBILITY IDEOGRAPH-F90A=00F90A" \o
      ";CJK COMPATIBILITY IDEOGRAPH-F989=00F989;CJK COMPATIBILITY IDEOGRAPH-F998=00F998" \o
      ";CJK COMPATIBILITY IDEOGRAPH-F9A0=00F9A0;CJK COMPATIBILITY IDEOGRAPH-FA09=00FA09" \o
      ";CJK COMPATIBILITY IDEOGRAPH-FA18=00FA18;CJK COMPATIBILITY IDEOGRAPH-FA27=00FA27" \o
      ";CJK COMPATIBILITY IDEOGRAPH-FA36=00FA36;CJK COMPATIBILITY IDEOGRAPH-FA45=00FA45" \o
      ";CJK COMPATIBILITY IDEOGRAPH-FA54=00FA54;CJK COMPATIBILITY IDEOGRAPH-FA63=00FA63" \o
      ";CJK COMPATIBILITY IDEOGRAPH-FA72=00FA72;CJK COMPATIBILITY IDEOGRAPH-FA81=00FA81" \o
      ";CJK COMPATIBILITY IDEOGRAPH-FA90=00FA90;ARABIC LIGATURE BEH WITH NOON FINAL FORM=00FC6D" \o
      ";LINEAR A SIGN AB002=010601;LINEAR A SIGN AB011=01060A;LINEAR A SIGN AB020=01060E" \o
      ";NABATAEAN LETTER FINAL HE=010886;MEROITIC HIEROGLYPHIC LETTER NA=01098A" \o
      ";OLD HUNGARIAN SMALL LETTER RUDIMENTA OE=010CDE;SOGDIAN LETTER HE=010F33" \o
      ";GRANTHA LETTER LA=011332;MARCHEN LETTER SA=011C8D;CUNEIFORM SIGN HA=012129" \o
      ";CUNEIFORM SIGN NINDA2 TIMES GISH=012523;BAMUM LETTER PHASE-A MBAQ=016856" \o
      ";TANGSA LETTER KHA=016AA1;ZNAMENNY COMBINING MARK RAZSEKA=01CF2C" \o
      ";BYZANTINE MUSICAL SYMBOL GENIKI YFESIS=01D0D9;MATHEMATICAL BOLD SCRIPT SMALL I=01D4F2" \o
      ";MATHEMATICAL SANS-SERIF BOLD ITALIC SMALL KAPPA=01D7B3" \o
      ";SIGNWRITING HAND-FIST INDEX THUMB ANGLED OUT MIDDLE UP=01D83A" \o
      ";SIGNWRITING HAND-FIST MIDDLE THUMB ANGLED OUT INDEX UP=01D840" \o
      ";SIGNWRITING HAND-OVAL LITTLE UP=01D895;ARABIC MATHEMATICAL LOOPED SHEEN=01EE94" \o
      ";NEGATIVE SQUARED LATIN CAPITAL LETTER T=01F183;GUARDSMAN=01F482;COLLISION SYMBOL=01F4A5" \o
      ";SYMBOL FOR MARKS CHAPTER=01F545;CANCEL TAG=0E007F",
    ";SP=000020;LATIN CAPITAL LETTER P WITH HOOK=0001A4;CYRILLIC SMALL LETTER ZE=000437" \o
      ";CYRILLIC SMALL LETTER SHORT I WITH TAIL=00048B" \o
      ";ARABIC LETTER ALEF WITH EXTENDED ARABIC-INDIC DIGIT THREE ABOVE=000774" \o
      ";NKO HIGH TONE APOSTROPHE=0007F4;TAMIL CREDIT SIGN=000BF7;TIBETAN LETTER KA=000F40" \o
      ";CANADIAN SYLLABICS WEST-CREE CWE=001493;TAGALOG LETTER SA=001710" \o
      ";KHMER SIGN AVAKRAHASANYA=0017DC;CANADIAN SYLLABICS TTHOO=0018E6;BUGINESE LETTER A=001A15" \o
      ";GREEK SMALL LETTER OMEGA WITH DASIA AND PERISPOMENI AND YPOGEGRAMMENI=001FA7" \o
      ";SYMBOL FOR CANCEL=002418;NUMBER FIFTEEN FULL STOP=002496;BOX DRAWINGS HEAVY RIGHT=00257A" \o
      ";SQUARE WITH ORTHOGONAL CROSSHATCH FILL=0025A6;HIGH VOLTAGE SIGN=0026A1" \o
      ";UP TACK WITH CIRCLE ABOVE=0027DF;MATHEMATICAL LEFT WHITE TORTOISE SHELL BRACKET=0027EC" \o
      ";APPROXIMATELY EQUAL OR EQUAL TO=002A70;SUPERSET ABOVE SUPERSET=002AD6" \o
      ";HANGZHOU NUMERAL TWENTY=003039;HANGUL LETTER SIOS-CIEUC=00317E" \o
      ";IDEOGRAPHIC TELEGRAPH SYMBOL FOR DAY SEVENTEEN=0033F0;VAI SYLLABLE MGBU=00A5A0" \o
      ";VAI SYLLABLE NGGO=00A5DC;CJK COMPATIBILITY IDEOGRAPH-F90B=00F90B" \o
      ";CJK COMPATIBILITY IDEOGRAPH-F91A=00F91A;CJK COMPATIBILITY IDEOGRAPH-F999=00F999" \o
      ";CJK COMPATIBILITY IDEOGRAPH-F9A1=00F9A1;CJK COMPATIBILITY IDEOGRAPH-F9B0=00F9B0" \o
      ";CJK COMPATIBILITY IDEOGRAPH-FA19=00FA19;CJK COMPATIBILITY IDEOGRAPH-FA28=00FA28" \o
      ";CJK COMPATIBILITY IDEOGRAPH-FA37=00FA37;CJK COMPATIBILITY IDEOGRAPH-FA46=00FA46" \o
      ";CJK COMPATIBILITY IDEOGRAPH-FA55=00FA55;CJK COMPATIBILITY IDEOGRAPH-FA64=00FA64" \o
      ";CJK COMPATIBILITY IDEOGRAPH-FA73=00FA73;CJK COMPATIBILITY IDEOGRAPH-FA82=00FA82" \o
      ";CJK COMPATIBILITY IDEOGRAPH-FA91=00FA91;ARABIC LIGATURE YEH WITH MEEM FINAL FORM=00FC93" \o
      ";ARABIC LIGATURE SEEN WITH REH FINAL FORM=00FD2A;ARABIC LETTER SHEEN INITIAL FORM=00FEB7" \o
      ";SHAVIAN LETTER AH=01046D;ELBASAN LETTER XE=010521;LINEAR A SIGN AB003=010602" \o
      ";LINEAR A SIGN AB021=01060F;LINEAR A SIGN AB030=01061D;LINEAR A SIGN AB120=010649" \o
      ";LINEAR A SIGN A120B=01064A;OLD HUNGARIAN CAPITAL LETTER OEE=010C9F;BRAHMI NUMBER TEN=01105B" \o
      ";KAITHI LETTER PHA=0110A4;GRANTHA LETTER MA=01132E;NEWA DANDA=01144B;MARCHEN LETTER TA=011C7A" \o
      ";MAKASAR LETTER RA=011EED;CUNEIFORM SIGN HUB2 TIMES KASKAL=01213B" \o
      ";CUNEIFORM SIGN NUN CROSSING NUN=01226B;BAMUM LETTER PHASE-C GHAP=0168A0" \o
      ";BAMUM LETTER PHASE-C NDAM=0168D7;BAMUM LETTER PHASE-C MIEE=0168E6" \o
      ";BAMUM LETTER PHASE-D LIEE=0168F6;BAMUM LETTER PHASE-F NGGA=016A28" \o
      ";DUPLOYAN LETTER SLOAN EE=01BC4E;ZNAMENNY NEUME VRAKHIYA KLYUCHEVAYA MRACHNAYA=01CF68" \o
      ";BYZANTINE MUSICAL SYMBOL SYNAGMA META STAVROU=01D02B" \o
      ";BYZANTINE MUSICAL SYMBOL GORTHMIKON N DIPLOUN=01D0B5;MUSICAL SYMBOL FLAT DOWN=01D12D" \o
      ";MATHEMATICAL BOLD SCRIPT SMALL J=01D4F3;MATHEMATICAL SANS-SERIF BOLD ITALIC CAPITAL RHO=01D7A0" \o
      ";SIGNWRITING HAND-FIST INDEX MIDDLE BENT=01D810" \o
      ";SIGNWRITING HAND-FIST INDEX THUMB HOOKED MIDDLE HINGED=01D843" \o
      ";SIGNWRITING HAND-FIST THUMB OVER FOUR RAISED KNUCKLES=01D902" \o
      ";MENDE KIKAKUI SYLLABLE M127 NGGUA=01E87F;ARABIC MATHEMATICAL DOUBLE-STRUCK SHEEN=01EEB4" \o
      ";PLAYING CARD TEN OF CLUBS=01F0DA;NEGATIVE SQUARED LATIN CAPITAL LETTER U=01F184" \o
      ";REVOLVING HEARTS=01F49E;TRIANGULAR RULER=01F4D0;CLOCK FACE TWELVE-THIRTY=01F567" \o
      ";UP DOWN SANS-SERIF ARROW=01F859;ZEBRA FACE=01F993;RED GIFT ENVELOPE=01F9E7",
    ";PADDING CHARACTER=000080;MW=000095;COMBINING CEDILLA=000327;CYRILLIC SMALL LETTER UK=000479" \o
      ";DEVANAGARI SIGN ANUSVARA=000902;MALAYALAM SIGN COMBINING ANUSVARA ABOVE=000D00" \o
      ";LAO VOWEL SIGN UU=000EB9;TIBETAN LETTER LA=000F63;ETHIOPIC TONAL MARK KURT=001399" \o
      ";RUNIC LETTER CALC=0016E3;TAGALOG LETTER TA=001706;MONGOLIAN LETTER TODO UE=001849" \o
      ";MONGOLIAN LETTER TODO YA=001855;NEW TAI LUE LETTER LOW SA=00198C" \o
      ";TAI THAM HORA DIGIT SEVEN=001A87;TAI THAM THAM DIGIT SEVEN=001A97" \o
      ";LATIN SMALL LETTER G WITH MACRON=001E21;GREEK CAPITAL LETTER UPSILON WITH DASIA=001F59" \o
      ";THEREFORE=002234;TOP HALF INTEGRAL=002320;LIGHTNING=002607;STAR AND CRESCENT=00262A" \o
      ";UPWARDS QUADRUPLE ARROW=0027F0;GLAGOLITIC SMALL LETTER IZHITSA=002C5B" \o
      ";LATIN SMALL LETTER HALF H=002C76;YI SYLLABLE BBIEX=00A05B;VAI SYLLABLE ZHEE=00A519" \o
      ";BAMUM LETTER NJEE=00A6C6;BAMUM LETTER MBEN=00A6E0;SYLOTI NAGRI LETTER DDHO=00A813" \o
      ";PHAGS-PA LETTER VOICED HA=00A86F;JAVANESE RIGHT RERENGGAN=00A9C2" \o
      ";CJK COMPATIBILITY IDEOGRAPH-F90C=00F90C;CJK COMPATIBILITY IDEOGRAPH-F91B=00F91B" \o
      ";CJK COMPATIBILITY IDEOGRAPH-F92A=00F92A;CJK COMPATIBILITY IDEOGRAPH-F9A2=00F9A2" \o
      ";CJK COMPATIBILITY IDEOGRAPH-F9B1=00F9B1;CJK COMPATIBILITY IDEOGRAPH-F9C0=00F9C0" \o
      ";CJK COMPATIBILITY IDEOGRAPH-FA29=00FA29;CJK COMPATIBILITY IDEOGRAPH-FA38=00FA38" \o
      ";CJK COMPATIBILITY IDEOGRAPH-FA47=00FA47;CJK COMPATIBILITY IDEOGRAPH-FA56=00FA56" \o
      ";CJK COMPATIBILITY IDEOGRAPH-FA65=00FA65;CJK COMPATIBILITY IDEOGRAPH-FA74=00FA74" \o
      ";CJK COMPATIBILITY IDEOGRAPH-FA83=00FA83;CJK COMPATIBILITY IDEOGRAPH-FA92=00FA92" \o
      ";ARABIC LETTER GUEH ISOLATED FORM=00FB96;ARABIC LIGATURE SAD WITH HAH WITH YEH FINAL FORM=00FDA9" \o
      ";ARABIC LETTER THEH ISOLATED FORM=00FE99;ARABIC LETTER THAL ISOLATED FORM=00FEAB" \o
      ";AEGEAN NUMBER TWO=010108;CAUCASIAN ALBANIAN CITATION MARK=01056F;LINEAR A SIGN AB004=010603" \o
      ";LINEAR A SIGN AB013=01060B;LINEAR A SIGN AB022=010612;LINEAR A SIGN AB031=01061E" \o
      ";LINEAR A SIGN AB040=010623;MEROITIC HIEROGLYPHIC LETTER PA=010988" \o
      ";MEROITIC CURSIVE NUMBER THREE THOUSAND=0109DD;AVESTAN LETTER AA=010B01;BRAHMI DIGIT ZERO=011066" \o
      ";KHOJKI LETTER KHA=011209;GRANTHA LETTER NA=011328;TIRHUTA LETTER VOCALIC R=011487" \o
      ";SIDDHAM LETTER YA=0115A7;TAKRI DIGIT THREE=0116C3;MAKASAR LETTER SA=011EF0" \o
      ";CUNEIFORM SIGN BI=012049;CUNEIFORM SIGN IB=012141;CUNEIFORM NUMERIC SIGN TWO BURU=012435" \o
      ";ANATOLIAN HIEROGLYPH A001=014400;ANATOLIAN HIEROGLYPH A010=014409" \o
      ";ANATOLIAN HIEROGLYPH A100=01446F;BAMUM LETTER PHASE-A NIKA=01682C" \o
      ";BAMUM LETTER PHASE-D NDAM=016937;BAMUM LETTER PHASE-E PAAM=016978;TANGSA LETTER NGA=016AA3" \o
      ";MATHEMATICAL BOLD SCRIPT SMALL K=01D4F4;MATHEMATICAL SANS-SERIF BOLD ITALIC CAPITAL TAU=01D7A3" \o
      ";WANCHO LETTER KHA=01E2D9;NEGATIVE SQUARED LATIN CAPITAL LETTER V=01F185;SHORTCAKE=01F370" \o
      ";FORK AND KNIFE WITH PLATE=01F37D;CLOCKWISE RIGHTWARDS AND LEFTWARDS OPEN CIRCLE ARROWS=01F501" \o
      ";TELESCOPE=01F52D;MOUNTAIN RAILWAY=01F69E;ALCHEMICAL SYMBOL FOR QUICK LIME=01F741" \o
      ";LARGE BLUE SQUARE=01F7E6",
    ";RS=00001E;LATIN SMALL LETTER E WITH OGONEK=000119" \o
      ";LATIN CAPITAL LETTER A WITH RING ABOVE AND ACUTE=0001FA;CYRILLIC CAPITAL LETTER IZHITSA=000474" \o
      ";CYRILLIC SMALL LETTER ES WITH DESCENDER=0004AB;HEBREW POINT RAFE=0005BF" \o
      ";ORIYA LETTER DDHA=000B22;TELUGU SIGN COMBINING CANDRABINDU ABOVE=000C00" \o
      ";TIBETAN LETTER MA=000F58;CHEROKEE LETTER O=0013A3;CANADIAN SYLLABICS SHWOO=00151F" \o
      ";OGHAM LETTER SAIL=001684;RUNIC CROSS PUNCTUATION=0016ED;NEW TAI LUE LETTER LOW TA=001991" \o
      ";BALINESE ADEG ADEG=001B44;LEPCHA LETTER NYA=001C09;LEPCHA LETTER TSA=001C17" \o
      ";GREEK SMALL LETTER UPSILON WITH DASIA AND VARIA=001F53" \o
      ";GREEK SMALL LETTER ALPHA WITH PSILI AND OXIA AND YPOGEGRAMMENI=001F84" \o
      ";GREEK CAPITAL LETTER EPSILON WITH VARIA=001FC8;INDIAN RUPEE SIGN=0020B9;INCREMENT=002206" \o
      ";SYMBOL FOR START OF TEXT=002402;WHITE EXCLAMATION MARK ORNAMENT=002755;CIRCLED LESS-THAN=0029C0" \o
      ";INTEGRAL WITH TIMES SIGN=002A18;CONGRUENT WITH DOT ABOVE=002A6D" \o
      ";GLAGOLITIC SMALL LETTER IOTATED BIG YUS=002C59;VAI SYLLABLE MBOO=00A579" \o
      ";HANGUL JONGSEONG TIKEUT-CHIEUCH=00D7D3;CJK COMPATIBILITY IDEOGRAPH-F90D=00F90D" \o
      ";CJK COMPATIBILITY IDEOGRAPH-F91C=00F91C;CJK COMPATIBILITY IDEOGRAPH-F92B=00F92B" \o
      ";CJK COMPATIBILITY IDEOGRAPH-F93A=00F93A;CJK COMPATIBILITY IDEOGRAPH-F9A3=00F9A3" \o
      ";CJK COMPATIBILITY IDEOGRAPH-F9B2=00F9B2;CJK COMPATIBILITY IDEOGRAPH-F9C1=00F9C1" \o
      ";CJK COMPATIBILITY IDEOGRAPH-F9D0=00F9D0;CJK COMPATIBILITY IDEOGRAPH-FA39=00FA39" \o
      ";CJK COMPATIBILITY IDEOGRAPH-FA48=00FA48;CJK COMPATIBILITY IDEOGRAPH-FA57=00FA57" \o
      ";CJK COMPATIBILITY IDEOGRAPH-FA66=00FA66;CJK COMPATIBILITY IDEOGRAPH-FA75=00FA75" \o
      ";CJK COMPATIBILITY IDEOGRAPH-FA84=00FA84;CJK COMPATIBILITY IDEOGRAPH-FA93=00FA93" \o
      ";ARABIC LETTER DYEH ISOLATED FORM=00FB72;HALFWIDTH HANGUL LETTER THIEUTH=00FFBC" \o
      ";ELBASAN LETTER ZE=010523;VITHKUQI SMALL LETTER BE=010599;LINEAR A SIGN AB005=010604" \o
      ";LINEAR A SIGN AB023=010615;LINEAR A SIGN AB041=010624;LINEAR A SIGN AB050=01062B" \o
      ";LINEAR A SIGN AB122=01064B;MEROITIC HIEROGLYPHIC LETTER QA=010997" \o
      ";OLD HUNGARIAN CAPITAL LETTER ECS=010C86;SOGDIAN LETTER RESH-AYIN=010F40" \o
      ";SOGDIAN INDEPENDENT SHIN=010F45;KAITHI LETTER RHA=01109C;KHOJKI LETTER JJA=011211" \o
      ";SIDDHAM SECTION MARK DOUBLE RING=0115CF;MAKASAR LETTER TA=011EE6" \o
      ";CUNEIFORM SIGN A TIMES HA=012004;CUNEIFORM SIGN AK=01201D;CUNEIFORM SIGN KA=012157" \o
      ";ANATOLIAN HIEROGLYPH A002=014401;ANATOLIAN HIEROGLYPH A011=01440B" \o
      ";ANATOLIAN HIEROGLYPH A020=014414;ANATOLIAN HIEROGLYPH A101=014471" \o
      ";ANATOLIAN HIEROGLYPH A110=014484;ANATOLIAN HIEROGLYPH A200=0144E3" \o
      ";BAMUM LETTER PHASE-B TAAM=016878;BAMUM LETTER PHASE-E MAEM=01697E" \o
      ";BAMUM LETTER PHASE-E MIEE=0169C3;TANGSA LETTER NHA=016AB3" \o
      ";PAHAWH HMONG SIGN CIM HAIS LUS NTOG NTOG=016B72;MEDEFAIDRIN COMMA=016E97" \o
      ";DUPLOYAN LETTER SLOAN DH=01BC12;BYZANTINE MUSICAL SYMBOL KONTEVMA ALLO=01D042" \o
      ";MUSICAL SYMBOL TORCULUS=01D1D8;MATHEMATICAL BOLD SMALL A=01D41A" \o
      ";MATHEMATICAL BOLD SCRIPT SMALL L=01D4F5;MATHEMATICAL SANS-SERIF BOLD RHO SYMBOL=01D78E" \o
      ";SIGNWRITING HAND-HINGE INDEX THUMB SIDE=01D8DD;NEGATIVE SQUARED LATIN CAPITAL LETTER W=01F186" \o
      ";CITYSCAPE=01F3D9;BABY ANGEL=01F47C;BANKNOTE WITH POUND SIGN=01F4B7",
    ";LATIN SMALL LETTER I WITH MACRON=00012B;CYRILLIC SMALL LETTER YI=000457" \o
      ";CYRILLIC SMALL LETTER TE WITH DESCENDER=0004AD;ORIYA DIGIT EIGHT=000B6E" \o
      ";TIBETAN LETTER NA=000F53;OGHAM LETTER COLL=001689;KHMER SIGN SAMYOK SANNYA=0017D0" \o
      ";NEW TAI LUE VOWEL SIGN UE=0019B9;NEW TAI LUE VOWEL SIGN AY=0019BA;LEPCHA LETTER TTA=001C4D" \o
      ";GREEK CAPITAL LETTER ETA WITH PSILI AND PROSGEGRAMMENI=001F98;SMALL ROMAN NUMERAL FOUR=002173" \o
      ";UPWARDS TWO HEADED ARROW=00219F" \o
      ";SMALL ELEMENT OF WITH VERTICAL BAR AT END OF HORIZONTAL STROKE=0022F4;MICR ON US SYMBOL=002448" \o
      ";MULTIPLICATION X=002715;DINGBAT NEGATIVE CIRCLED SANS-SERIF DIGIT THREE=00278C" \o
      ";LESS-THAN ABOVE SIMILAR OR EQUAL=002A8D" \o
      ";LEFTWARDS ARROW WITH TAIL WITH DOUBLE VERTICAL STROKE=002B3A;YI SYLLABLE GGIEP=00A219" \o
      ";VAI SYLLABLE KPEN=00A5ED;LATIN CAPITAL LETTER S WITH HOOK=00A7C5" \o
      ";SAURASHTRA VOWEL SIGN EE=00A8BF;SAURASHTRA VOWEL SIGN AI=00A8C0;JAVANESE LETTER I=00A986" \o
      ";CJK COMPATIBILITY IDEOGRAPH-F90E=00F90E;CJK COMPATIBILITY IDEOGRAPH-F91D=00F91D" \o
      ";CJK COMPATIBILITY IDEOGRAPH-F92C=00F92C;CJK COMPATIBILITY IDEOGRAPH-F93B=00F93B" \o
      ";CJK COMPATIBILITY IDEOGRAPH-F94A=00F94A;CJK COMPATIBILITY IDEOGRAPH-F9A4=00F9A4" \o
      ";CJK COMPATIBILITY IDEOGRAPH-F9B3=00F9B3;CJK COMPATIBILITY IDEOGRAPH-F9C2=00F9C2" \o
      ";CJK COMPATIBILITY IDEOGRAPH-F9D1=00F9D1;CJK COMPATIBILITY IDEOGRAPH-F9E0=00F9E0" \o
      ";CJK COMPATIBILITY IDEOGRAPH-FA49=00FA49;CJK COMPATIBILITY IDEOGRAPH-FA58=00FA58" \o
      ";CJK COMPATIBILITY IDEOGRAPH-FA67=00FA67;CJK COMPATIBILITY IDEOGRAPH-FA76=00FA76" \o
      ";CJK COMPATIBILITY IDEOGRAPH-FA85=00FA85;CJK COMPATIBILITY IDEOGRAPH-FA94=00FA94" \o
      ";ARABIC LIGATURE LAM WITH HAH WITH YEH FINAL FORM=00FD81;ARABIC LETTER SEEN ISOLATED FORM=00FEB1" \o
      ";LINEAR B SYLLABLE B087 TWE=01004C;GREEK OUNKIA SIGN=010184;VITHKUQI SMALL LETTER CE=01059A" \o
      ";VITHKUQI SMALL LETTER GA=0105A1;LINEAR A SIGN AB006=010605;LINEAR A SIGN AB024=010617" \o
      ";LINEAR A SIGN AB051=01062C;LINEAR A SIGN AB060=010634;LINEAR A SIGN AB123=01064C" \o
      ";LINEAR A SIGN A131C=01064F;LINEAR A SIGN A313A=010663;MEROITIC HIEROGLYPHIC LETTER NE=01098C" \o
      ";MEROITIC HIEROGLYPHIC LETTER RA=01098E;KAITHI LETTER SHA=0110AC;KHOJKI LETTER NGA=01120D" \o
      ";GRANTHA LETTER PA=01132A;WARANG CITI NUMBER FORTY=0118ED" \o
      ";ZANABAZAR SQUARE INITIAL DOUBLE-LINED HEAD MARK=011A45;SOYOMBO LETTER -A=011A7A" \o
      ";MARCHEN LETTER WA=011C85;CUNEIFORM SIGN AL=012020;CUNEIFORM SIGN DI=012072" \o
      ";CUNEIFORM SIGN LA=0121B7;CUNEIFORM NUMERIC SIGN ONE ESHE3=012458" \o
      ";EGYPTIAN HIEROGLYPH END SEGMENT=013438;ANATOLIAN HIEROGLYPH A003=014402" \o
      ";ANATOLIAN HIEROGLYPH A012=01440C;ANATOLIAN HIEROGLYPH A021=014415" \o
      ";ANATOLIAN HIEROGLYPH A030=01441F;ANATOLIAN HIEROGLYPH A102=014473" \o
      ";ANATOLIAN HIEROGLYPH A111=014487;ANATOLIAN HIEROGLYPH A120=014491" \o
      ";ANATOLIAN HIEROGLYPH A201=0144E4;ANATOLIAN HIEROGLYPH A210=0144F1" \o
      ";ANATOLIAN HIEROGLYPH A300=014552;BAMUM LETTER PHASE-C NDAP=0168DA" \o
      ";BAMUM LETTER PHASE-E NGKA=016973;DUPLOYAN LETTER SLOAN EH=01BC4C" \o
      ";MATHEMATICAL BOLD SMALL B=01D41B;MATHEMATICAL BOLD SCRIPT SMALL M=01D4F6" \o
      ";MATHEMATICAL SANS-SERIF BOLD ITALIC CAPITAL PSI=01D7A7" \o
      ";MATHEMATICAL SANS-SERIF BOLD ITALIC SMALL SIGMA=01D7BC;SIGNWRITING HAND-FIST LITTLE UP=01D892" \o
      ";SIGNWRITING EYEBROWS STRAIGHT NEUTRAL=01DA0B;WANCHO LETTER NGA=01E2DD;WANCHO LETTER ANG=01E2E4" \o
      ";ADLAM CAPITAL LETTER QAAF=01E917;NEGATIVE SQUARED LATIN CAPITAL LETTER X=01F187" \o
      ";BICYCLIST=01F6B4;BUBBLE TEA=01F9CB",
    ";ST=00009C;LATIN SMALL LETTER B WITH TOPBAR=000183;LATIN CAPITAL LETTER T WITH HOOK=0001AC" \o
      ";COMBINING X BELOW=000353;CYRILLIC SMALL LETTER OT=00047F" \o
      ";CANADIAN SYLLABICS WEST-CREE KWA=00147F;CANADIAN SYLLABICS WEST-CREE CWI=001495" \o
      ";TAGALOG LETTER WA=00170F;NEW TAI LUE LETTER LOW VA=00199E;TAI THAM SIGN MAI KANG LAI=001A58" \o
      ";COMBINING DOUBLE OPEN MARK BELOW=001AB8;APL FUNCTIONAL SYMBOL UP TACK DIAERESIS=002361" \o
      ";DARK SHADE=002593;EQUALS SIGN AND SLANTED PARALLEL=0029E3;UNCERTAINTY SIGN=002BD1" \o
      ";GLAGOLITIC CAPITAL LETTER YESTU=002C05;GLAGOLITIC SMALL LETTER ZHIVETE=002C36" \o
      ";CIRCLED NUMBER FORTY SIX=0032BB;SQUARE KM CAPITAL=0033CE;HEXAGRAM FOR INNER TRUTH=004DFC" \o
      ";VAI SYLLABLE WEEN=00A504;BAMUM LETTER RIEE=00A6AD;CJK COMPATIBILITY IDEOGRAPH-F90F=00F90F" \o
      ";CJK COMPATIBILITY IDEOGRAPH-F91E=00F91E;CJK COMPATIBILITY IDEOGRAPH-F92D=00F92D" \o
      ";CJK COMPATIBILITY IDEOGRAPH-F93C=00F93C;CJK COMPATIBILITY IDEOGRAPH-F94B=00F94B" \o
      ";CJK COMPATIBILITY IDEOGRAPH-F95A=00F95A;CJK COMPATIBILITY IDEOGRAPH-F9A5=00F9A5" \o
      ";CJK COMPATIBILITY IDEOGRAPH-F9B4=00F9B4;CJK COMPATIBILITY IDEOGRAPH-F9C3=00F9C3" \o
      ";CJK COMPATIBILITY IDEOGRAPH-F9D2=00F9D2;CJK COMPATIBILITY IDEOGRAPH-F9E1=00F9E1" \o
      ";CJK COMPATIBILITY IDEOGRAPH-F9F0=00F9F0;CJK COMPATIBILITY IDEOGRAPH-FA59=00FA59" \o
      ";CJK COMPATIBILITY IDEOGRAPH-FA68=00FA68;CJK COMPATIBILITY IDEOGRAPH-FA77=00FA77" \o
      ";CJK COMPATIBILITY IDEOGRAPH-FA86=00FA86;CJK COMPATIBILITY IDEOGRAPH-FA95=00FA95" \o
      ";ARABIC LIGATURE YEH WITH HAMZA ABOVE WITH YU FINAL FORM=00FBF5;GREEK TALENT SIGN=01017A" \o
      ";VITHKUQI SMALL LETTER DE=01059C;VITHKUQI SMALL LETTER HA=0105A3;LINEAR A SIGN AB007=010606" \o
      ";LINEAR A SIGN AB016=01060C;LINEAR A SIGN AB034=01061F;LINEAR A SIGN AB061=010635" \o
      ";LINEAR A SIGN AB070=01063A;LINEAR A SIGN A313B=010664;MEROITIC HIEROGLYPHIC LETTER SA=010993" \o
      ";YEZIDI LETTER DAD=010E94;CHORASMIAN LETTER DALETH=010FB4;KAITHI LETTER NNA=01109D" \o
      ";KAITHI LETTER THA=01109F;KHOJKI ABBREVIATION SIGN=01123D;GRANTHA LETTER II=011308" \o
      ";MODI SIGN VISARGA=01163E;MAKASAR LETTER VA=011EEF" \o
      ";TAMIL FRACTION ONE THREE-HUNDRED-AND-TWENTIETH=011FC0;CUNEIFORM SIGN BI TIMES A=01204A" \o
      ";CUNEIFORM SIGN E2 TIMES U=012093;CUNEIFORM SIGN MA=012220" \o
      ";CUNEIFORM NUMERIC SIGN ONE GESH2=012415;ANATOLIAN HIEROGLYPH A004=014403" \o
      ";ANATOLIAN HIEROGLYPH A013=01440D;ANATOLIAN HIEROGLYPH A022=014416" \o
      ";ANATOLIAN HIEROGLYPH A031=014420;ANATOLIAN HIEROGLYPH A040=01442A" \o
      ";ANATOLIAN HIEROGLYPH A103=014475;ANATOLIAN HIEROGLYPH A112=014488" \o
      ";ANATOLIAN HIEROGLYPH A121=014492;ANATOLIAN HIEROGLYPH A130=01449C" \o
      ";ANATOLIAN HIEROGLYPH A202=0144E5;ANATOLIAN HIEROGLYPH A211=0144F2" \o
      ";ANATOLIAN HIEROGLYPH A220=0144FD;ANATOLIAN HIEROGLYPH A301=014553" \o
      ";ANATOLIAN HIEROGLYPH A310=01455D;ANATOLIAN HIEROGLYPH A400=0145C4" \o
      ";BAMUM LETTER PHASE-A NJAM=016847;BAMUM LETTER PHASE-B GHEUGHEUAEM=016866" \o
      ";BAMUM LETTER PHASE-C NTAA=0168B4;BAMUM LETTER PHASE-E GBET=0169A9" \o
      ";BAMUM LETTER PHASE-E NJEE=0169D4;TANGSA LETTER PHA=016AA9" \o
      ";ZNAMENNY COMBINING MARK DEMESTVENNY ZADERZHKA=01CF34" \o
      ";ZNAMENNY NEUME STRELA GROMOKRYZHEVAYA=01CFA5;MATHEMATICAL BOLD SMALL C=01D41C" \o
      ";MATHEMATICAL BOLD SCRIPT SMALL N=01D4F7;NEGATIVE SQUARED LATIN CAPITAL LETTER Y=01F188" \o
      ";MAPLE LEAF=01F341;WAVING WHITE FLAG=01F3F3;OX=01F402;TIRED FACE=01F62B;SATELLITE=01F6F0" \o
      ";WHITE CHESS TURNED QUEEN=01FA1F;WHITE CHESS KNIGHT-QUEEN=01FA4E",
    ";US=00001F;LATIN CAPITAL LETTER O WITH HORN=0001A0;CYRILLIC CAPITAL LETTER BARRED O=0004E8" \o
      ";HEBREW LETTER BET=0005D1;GUJARATI LETTER A=000A85;TAMIL SIGN VIRAMA=000BCD" \o
      ";KANNADA LETTER UU=000C8A;TIBETAN LETTER PA=000F54" \o
      ";TIBETAN MARK CLOSING BRDA RNYING YIG MGO SGAB MA=000FD4;MYANMAR LETTER BA=001017" \o
      ";MYANMAR DIGIT ONE=001041;CANADIAN SYLLABICS FINAL RIGHT HALF RING=001423" \o
      ";CANADIAN SYLLABICS WEST-CREE LWA=0014E7;RUNIC LETTER ALGIZ EOLHX=0016C9" \o
      ";LATIN CAPITAL LETTER A WITH BREVE AND HOOK ABOVE=001EB2" \o
      ";LATIN SMALL LETTER O WITH HORN AND ACUTE=001EDB;LATIN SMALL LETTER O WITH HORN AND TILDE=001EE1" \o
      ";GREEK SMALL LETTER OMEGA WITH PSILI AND OXIA AND YPOGEGRAMMENI=001FA4" \o
      ";RIGHT ANGLE DOTTED SUBSTITUTION MARKER=002E01;YI SYLLABLE NBIEP=00A07C;YI SYLLABLE DDIEX=00A13A" \o
      ";VAI SYLLABLE NDOO=00A586;DEVANAGARI SIGN PUSHPIKA=00A8F8;MYANMAR SYMBOL AITON ONE=00AA78" \o
      ";CJK COMPATIBILITY IDEOGRAPH-F91F=00F91F;CJK COMPATIBILITY IDEOGRAPH-F92E=00F92E" \o
      ";CJK COMPATIBILITY IDEOGRAPH-F93D=00F93D;CJK COMPATIBILITY IDEOGRAPH-F94C=00F94C" \o
      ";CJK COMPATIBILITY IDEOGRAPH-F95B=00F95B;CJK COMPATIBILITY IDEOGRAPH-F96A=00F96A" \o
      ";CJK COMPATIBILITY IDEOGRAPH-F9A6=00F9A6;CJK COMPATIBILITY IDEOGRAPH-F9B5=00F9B5" \o
      ";CJK COMPATIBILITY IDEOGRAPH-F9C4=00F9C4;CJK COMPATIBILITY IDEOGRAPH-F9D3=00F9D3" \o
      ";CJK COMPATIBILITY IDEOGRAPH-F9E2=00F9E2;CJK COMPATIBILITY IDEOGRAPH-F9F1=00F9F1" \o
      ";CJK COMPATIBILITY IDEOGRAPH-FA69=00FA69;CJK COMPATIBILITY IDEOGRAPH-FA78=00FA78" \o
      ";CJK COMPATIBILITY IDEOGRAPH-FA87=00FA87;CJK COMPATIBILITY IDEOGRAPH-FA96=00FA96" \o
      ";ARABIC LETTER HEH GOAL FINAL FORM=00FBA7;ARABIC LIGATURE THEH WITH YEH FINAL FORM=00FC7B" \o
      ";SMALL DOLLAR SIGN=00FE69;LINEAR A SIGN AB008=010607;LINEAR A SIGN AB017=01060D" \o
      ";LINEAR A SIGN AB026=010618;LINEAR A SIGN AB044=010625;LINEAR A SIGN AB053=01062D" \o
      ";LINEAR A SIGN AB080=010641;LINEAR A SIGN A313C=010665;MEROITIC HIEROGLYPHIC LETTER TA=010998" \o
      ";MANICHAEAN LETTER ZHAYIN=010ACA;AVESTAN LETTER AE=010B06" \o
      ";OLD HUNGARIAN SMALL LETTER RUDIMENTA UE=010CED;YEZIDI LETTER LAM WITH DOT ABOVE=010EB0" \o
      ";SHARADA SIGN JIHVAMULIYA=0111C2;GRANTHA LETTER RA=011330;MARCHEN LETTER YA=011C89" \o
      ";TAMIL STARTING FROM SIGN=011FEF;CUNEIFORM SIGN AN=01202D;CUNEIFORM SIGN KA TIMES A=012158" \o
      ";CUNEIFORM SIGN NA=01223E;CUNEIFORM SIGN MUSH OVER MUSH TIMES KAK=012521" \o
      ";ANATOLIAN HIEROGLYPH A005=014404;ANATOLIAN HIEROGLYPH A014=01440E" \o
      ";ANATOLIAN HIEROGLYPH A023=014417;ANATOLIAN HIEROGLYPH A032=014421" \o
      ";ANATOLIAN HIEROGLYPH A041=01442B;ANATOLIAN HIEROGLYPH A050=014438" \o
      ";ANATOLIAN HIEROGLYPH A104=014476;ANATOLIAN HIEROGLYPH A113=014489" \o
      ";ANATOLIAN HIEROGLYPH A122=014493;ANATOLIAN HIEROGLYPH A131=01449D" \o
      ";ANATOLIAN HIEROGLYPH A140=0144A7;ANATOLIAN HIEROGLYPH A203=0144E8" \o
      ";ANATOLIAN HIEROGLYPH A212=0144F3;ANATOLIAN HIEROGLYPH A221=0144FE" \o
      ";ANATOLIAN HIEROGLYPH A230=014508;ANATOLIAN HIEROGLYPH A302=014554" \o
      ";ANATOLIAN HIEROGLYPH A311=01455E;ANATOLIAN HIEROGLYPH A320=014567" \o
      ";ANATOLIAN HIEROGLYPH A401=0145C5;BAMUM LETTER PHASE-B SIEE=016859" \o
      ";BAMUM LETTER PHASE-E NDAP=016966;BAMUM LETTER PHASE-F MBEN=016A30;MIAO LETTER DLHYA=016F1D" \o
      ";DUPLOYAN LETTER SLOAN AN=01BC68;ZNAMENNY NEUME STRELA TRYASOPOVODNAYA=01CFAD" \o
      ";BYZANTINE MUSICAL SYMBOL YFESIS DIGRAMMOS EX DODEKATA=01D0D6;MATHEMATICAL BOLD SMALL D=01D41D" \o
      ";MATHEMATICAL BOLD SCRIPT SMALL O=01D4F8;ADLAM CAPITAL LETTER LAAM=01E902" \o
      ";MAHJONG TILE SEVEN OF CHARACTERS=01F00D;DOMINO TILE VERTICAL-00-00=01F063" \o
      ";NEGATIVE SQUARED LATIN CAPITAL LETTER Z=01F189;PERSON WITH POUTING FACE=01F64E" \o
      ";TURNED SOUTH WEST POINTING LEAF=01F655;ALCHEMICAL SYMBOL FOR DISSOLVE-2=01F762" \o
      ";LOWER RIGHT BLOCK DIAGONAL LOWER CENTRE TO UPPER RIGHT=01FB4B",
    ";SYNCHRONOUS IDLE=000016;SEMICOLON=00003B;LATIN SMALL LETTER I WITH OGONEK=00012F" \o
      ";LATIN SMALL LETTER D WITH TOPBAR=00018C;LATIN CAPITAL LETTER V WITH HOOK=0001B2" \o
      ";HEBREW ACCENT ZAQEF GADOL=000595;DEVANAGARI VOWEL SIGN VOCALIC LL=000963" \o
      ";TAMIL DIGIT SEVEN=000BED;MYANMAR LETTER CA=001005;CHEROKEE LETTER S=0013CD" \o
      ";CANADIAN SYLLABICS WEST-CREE MWA=0014B7;CANADIAN SYLLABICS WOODS-CREE TH=00159F" \o
      ";TAGALOG LETTER YA=00170C;KHMER DIGIT SEVEN=0017E7;NEW TAI LUE LETTER LOW XA=001986" \o
      ";BALINESE VOWEL SIGN SUKU=001B38;BALINESE MUSICAL SYMBOL COMBINING ENDEP=001B6C" \o
      ";COMBINING ASTERISK ABOVE=0020F0;CHECK MARK=002713;ROTATED HEAVY BLACK HEART BULLET=002765" \o
      ";GREATER-THAN OR SLANTED EQUAL TO=002A7E;SLANTED EQUAL TO OR GREATER-THAN=002A96" \o
      ";LEFT DOUBLE ANGLE BRACKET=00300A;IDEOGRAPHIC VARIATION INDICATOR=00303E" \o
      ";VAI SYLLABLE NYEE=00A523;VAI SYLLABLE NGGU=00A5B5;MEETEI MAYEK AHANG KHUDAM=00AAF1" \o
      ";CJK COMPATIBILITY IDEOGRAPH-F92F=00F92F;CJK COMPATIBILITY IDEOGRAPH-F93E=00F93E" \o
      ";CJK COMPATIBILITY IDEOGRAPH-F94D=00F94D;CJK COMPATIBILITY IDEOGRAPH-F95C=00F95C" \o
      ";CJK COMPATIBILITY IDEOGRAPH-F96B=00F96B;CJK COMPATIBILITY IDEOGRAPH-F97A=00F97A" \o
      ";CJK COMPATIBILITY IDEOGRAPH-F9A7=00F9A7;CJK COMPATIBILITY IDEOGRAPH-F9B6=00F9B6" \o
      ";CJK COMPATIBILITY IDEOGRAPH-F9C5=00F9C5;CJK COMPATIBILITY IDEOGRAPH-F9D4=00F9D4" \o
      ";CJK COMPATIBILITY IDEOGRAPH-F9E3=00F9E3;CJK COMPATIBILITY IDEOGRAPH-F9F2=00F9F2" \o
      ";CJK COMPATIBILITY IDEOGRAPH-FA79=00FA79;CJK COMPATIBILITY IDEOGRAPH-FA88=00FA88" \o
      ";CJK COMPATIBILITY IDEOGRAPH-FA97=00FA97;GREEK AROURA SIGN=010187;SHAVIAN LETTER IF=010466" \o
      ";VITHKUQI SMALL LETTER FE=0105A0;LINEAR A SIGN AB009=010608;LINEAR A SIGN AB027=010619" \o
      ";LINEAR A SIGN AB045=010626;LINEAR A SIGN AB054=01062E;LINEAR A SIGN AB081=010642" \o
      ";LINEAR A SIGN AB171=010651;LINEAR A SIGN AB180=010652;HATRAN NUMBER ONE=0108FB" \o
      ";AVESTAN LETTER BE=010B20;INSCRIPTIONAL PAHLAVI LETTER PE=010B6F;ELYMAIC LETTER PE=010FF0" \o
      ";KHOJKI LETTER PHA=011220;KHOJKI LETTER LLA=01122B;GRANTHA LETTER SA=011338" \o
      ";NEWA SIGN VISARGA=011445;MARCHEN LETTER ZA=011C87" \o
      ";CUNEIFORM SIGN E2 TIMES A PLUS HA PLUS DA=01208E;CUNEIFORM SIGN GI=012100" \o
      ";CUNEIFORM SIGN IG=012145;ANATOLIAN HIEROGLYPH A006=014405;ANATOLIAN HIEROGLYPH A015=01440F" \o
      ";ANATOLIAN HIEROGLYPH A024=014418;ANATOLIAN HIEROGLYPH A033=014422" \o
      ";ANATOLIAN HIEROGLYPH A042=01442D;ANATOLIAN HIEROGLYPH A051=014439" \o
      ";ANATOLIAN HIEROGLYPH A060=014442;ANATOLIAN HIEROGLYPH A105=01447A" \o
      ";ANATOLIAN HIEROGLYPH A114=01448A;ANATOLIAN HIEROGLYPH A123=014494" \o
      ";ANATOLIAN HIEROGLYPH A132=01449E;ANATOLIAN HIEROGLYPH A141=0144A8" \o
      ";ANATOLIAN HIEROGLYPH A150=0144B1;ANATOLIAN HIEROGLYPH A204=0144E9" \o
      ";ANATOLIAN HIEROGLYPH A213=0144F4;ANATOLIAN HIEROGLYPH A222=0144FF" \o
      ";ANATOLIAN HIEROGLYPH A231=014509;ANATOLIAN HIEROGLYPH A240=014512" \o
      ";ANATOLIAN HIEROGLYPH A303=014555;ANATOLIAN HIEROGLYPH A312=01455F" \o
      ";ANATOLIAN HIEROGLYPH A321=014568;ANATOLIAN HIEROGLYPH A330=014572" \o
      ";ANATOLIAN HIEROGLYPH A402=0145C6;ANATOLIAN HIEROGLYPH A411=0145D0" \o
      ";ANATOLIAN HIEROGLYPH A420=0145D9;ANATOLIAN HIEROGLYPH A501=014629" \o
      ";ANATOLIAN HIEROGLYPH A510=014632;BAMUM LETTER PHASE-C NJAM=0168CF" \o
      ";BAMUM LETTER PHASE-D SHEE=0168FD;BAMUM LETTER PHASE-D RAEM=016927;TANGSA LETTER AWC=016A89" \o
      ";ZNAMENNY COMBINING MARK BORZAYA=01CF24;TETRAGRAM FOR COMPLIANCE=01D352" \o
      ";MATHEMATICAL BOLD SMALL E=01D41E;MATHEMATICAL BOLD SCRIPT SMALL P=01D4F9" \o
      ";SIGNWRITING MOVEMENT-FLOORPLANE CROSS=01D96E;WANCHO LETTER PHA=01E2C7" \o
      ";ADLAM CAPITAL LETTER ALIF=01E900;DOMINO TILE VERTICAL-00-01=01F064" \o
      ";DOMINO TILE VERTICAL-01-00=01F06A;SPAGHETTI=01F35D;ANTENNA WITH BARS=01F4F6" \o
      ";DESKTOP COMPUTER=01F5A5;RIGHT-FACING FIST=01F91C;WHITE CHESS KING ROTATED NINETY DEGREES=01FA09" \o
      ";BLOCK SEXTANT-1234=01FB0E;MIDDLE THIRD WHITE RIGHT POINTING INDEX=01FBC2",
    ";VT=00000B;LATIN CAPITAL LETTER A WITH DOT ABOVE AND MACRON=0001E0" \o
      ";GUJARATI SIGN CIRCLE NUKTA ABOVE=000AFE;TIBETAN LETTER RA=000F62;MYANMAR LETTER DA=001012" \o
      ";MYANMAR SYMBOL SHAN EXCLAMATION=00109F;CANADIAN SYLLABICS WEST-CREE NWA=0014CC" \o
      ";TAGBANWA LETTER U=001762;NEW TAI LUE LETTER LOW YA=00198D" \o
      ";BALINESE MUSICAL SYMBOL COMBINING TEGEH=001B6B;LATIN SMALL LETTER TURNED OPEN E=001D08" \o
      ";DEGREE FAHRENHEIT=002109;RIGHTWARDS ARROW=002192;PITCHFORK=0022D4" \o
      ";ELEMENT OF WITH TWO HORIZONTAL STROKES=0022F9;BOX DRAWINGS LIGHT TRIPLE DASH VERTICAL=002506" \o
      ";SNOWFLAKE=002744;HEAVY LOW DOUBLE COMMA QUOTATION MARK ORNAMENT=002760" \o
      ";LATIN CAPITAL LETTER W WITH HOOK=002C72;PARENTHESIZED IDEOGRAPH SPECIAL=003235" \o
      ";VAI SYLLABLE NGON=00A5BC;COMBINING DEVANAGARI DIGIT EIGHT=00A8E8" \o
      ";CJK COMPATIBILITY IDEOGRAPH-F93F=00F93F;CJK COMPATIBILITY IDEOGRAPH-F94E=00F94E" \o
      ";CJK COMPATIBILITY IDEOGRAPH-F95D=00F95D;CJK COMPATIBILITY IDEOGRAPH-F96C=00F96C" \o
      ";CJK COMPATIBILITY IDEOGRAPH-F97B=00F97B;CJK COMPATIBILITY IDEOGRAPH-F98A=00F98A" \o
      ";CJK COMPATIBILITY IDEOGRAPH-F9A8=00F9A8;CJK COMPATIBILITY IDEOGRAPH-F9B7=00F9B7" \o
      ";CJK COMPATIBILITY IDEOGRAPH-F9C6=00F9C6;CJK COMPATIBILITY IDEOGRAPH-F9D5=00F9D5" \o
      ";CJK COMPATIBILITY IDEOGRAPH-F9E4=00F9E4;CJK COMPATIBILITY IDEOGRAPH-F9F3=00F9F3" \o
      ";CJK COMPATIBILITY IDEOGRAPH-FA0A=00FA0A;CJK COMPATIBILITY IDEOGRAPH-FA89=00FA89" \o
      ";CJK COMPATIBILITY IDEOGRAPH-FA98=00FA98;CJK COMPATIBILITY IDEOGRAPH-FAA0=00FAA0" \o
      ";ARABIC LIGATURE HEH WITH SUPERSCRIPT ALEF INITIAL FORM=00FCD9" \o
      ";ARABIC LIGATURE SEEN WITH YEH FINAL FORM=00FD18;PHAISTOS DISC SIGN ARROW=0101D9" \o
      ";OSMANYA LETTER AA=01049B;VITHKUQI SMALL LETTER KA=0105A8;LINEAR A SIGN AB028=01061A" \o
      ";LINEAR A SIGN A028B=01061B;LINEAR A SIGN AB037=010620;LINEAR A SIGN AB046=010627" \o
      ";LINEAR A SIGN AB055=01062F;LINEAR A SIGN AB073=01063B;LINEAR A SIGN AB082=010643" \o
      ";LINEAR A SIGN AB118=010648;MODIFIER LETTER SMALL CAPITAL OE=0107A3" \o
      ";OLD SOUTH ARABIAN LETTER DHALETH=010A79;AVESTAN LETTER CE=010B17" \o
      ";OLD SOGDIAN LETTER FINAL TAW WITH VERTICAL TAIL=010F1C;SOGDIAN LETTER PE=010F3E" \o
      ";BRAHMI LETTER SSA=011031;GRANTHA LETTER TA=011324;MONGOLIAN INVERTED BIRGA=011667" \o
      ";MAKASAR LETTER YA=011EEC;CUNEIFORM SIGN EL=012096;CUNEIFORM SIGN HI=01212D" \o
      ";CUNEIFORM SIGN PA=01227A;CUNEIFORM NUMERIC SIGN SHAR2 TIMES GAL PLUS MIN=012433" \o
      ";ANATOLIAN HIEROGLYPH A007=014406;ANATOLIAN HIEROGLYPH A016=014410" \o
      ";ANATOLIAN HIEROGLYPH A025=014419;ANATOLIAN HIEROGLYPH A034=014423" \o
      ";ANATOLIAN HIEROGLYPH A043=01442E;ANATOLIAN HIEROGLYPH A052=01443A" \o
      ";ANATOLIAN HIEROGLYPH A061=014443;ANATOLIAN HIEROGLYPH A070=01444F" \o
      ";ANATOLIAN HIEROGLYPH A106=01447D;ANATOLIAN HIEROGLYPH A115=01448B" \o
      ";ANATOLIAN HIEROGLYPH A124=014495;ANATOLIAN HIEROGLYPH A133=01449F" \o
      ";ANATOLIAN HIEROGLYPH A142=0144A9;ANATOLIAN HIEROGLYPH A151=0144B2" \o
      ";ANATOLIAN HIEROGLYPH A160=0144BB;ANATOLIAN HIEROGLYPH A205=0144EA" \o
      ";ANATOLIAN HIEROGLYPH A214=0144F5;ANATOLIAN HIEROGLYPH A223=014500" \o
      ";ANATOLIAN HIEROGLYPH A232=01450A;ANATOLIAN HIEROGLYPH A241=014513" \o
      ";ANATOLIAN HIEROGLYPH A250=01451C;ANATOLIAN HIEROGLYPH A304=014556" \o
      ";ANATOLIAN HIEROGLYPH A313=014560;ANATOLIAN HIEROGLYPH A322=014569" \o
      ";ANATOLIAN HIEROGLYPH A331=014573;ANATOLIAN HIEROGLYPH A340=014581" \o
      ";ANATOLIAN HIEROGLYPH A403=0145C7;ANATOLIAN HIEROGLYPH A412=0145D1" \o
      ";ANATOLIAN HIEROGLYPH A421=0145DA;ANATOLIAN HIEROGLYPH A430=0145E3" \o
      ";ANATOLIAN HIEROGLYPH A502=01462A;ANATOLIAN HIEROGLYPH A511=014633" \o
      ";ANATOLIAN HIEROGLYPH A520=01463C;BAMUM LETTER PHASE-C NGAQ=0168EB;TANGSA LETTER SHA=016AB4" \o
      ";ZNAMENNY COMBINING MARK KUPNAYA=01CF28;ZNAMENNY NEUME STRELA TRYASOSTRELNAYA=01CFAE" \o
      ";TETRAGRAM FOR DIVERGENCE=01D310;MATHEMATICAL BOLD SMALL F=01D41F" \o
      ";MATHEMATICAL BOLD SCRIPT SMALL Q=01D4FA;SIGNWRITING HAND-FIST INDEX MIDDLE RING=01D886" \o
      ";DOMINO TILE VERTICAL-00-02=01F065;DOMINO TILE VERTICAL-01-01=01F06B" \o
      ";DOMINO TILE VERTICAL-02-00=01F071;RACING CAR=01F3CE;TIGER FACE=01F42F;LEFT WRITING HAND=01F58E" \o
      ";BLOCK SEXTANT-1235=01FB15",
    ";COMBINING INVERTED BREVE=000311;ARABIC LETTER ALEF WITH WAVY HAMZA ABOVE=000672" \o
      ";TELUGU LETTER VOCALIC RR=000C60;TIBETAN LETTER SA=000F66;HANGUL JONGSEONG KIYEOK-KHIEUKH=0011FD" \o
      ";CHEROKEE LETTER U=0013A4;CANADIAN SYLLABICS WEST-CREE KWE=001475;HANUNOO LETTER BA=00172A" \o
      ";LIMBU DIGIT SEVEN=00194D;LATIN SMALL LETTER O WITH HORN AND GRAVE=001EDD" \o
      ";FALLING DIAGONAL IN WHITE CIRCLE IN BLACK SQUARE=0026DE;MATHEMATICAL RIGHT ANGLE BRACKET=0027E9" \o
      ";RIGHTWARDS HARPOON WITH BARB UP ABOVE LONG DASH=00296C" \o
      ";LINE INTEGRATION NOT INCLUDING THE POLE=002A14;CLOSED UNION WITH SERIFS=002A4C" \o
      ";IDEOGRAPHIC SPACE=003000;HEXAGRAM FOR THE KEEPING STILL MOUNTAIN=004DF3" \o
      ";CYRILLIC SMALL LETTER YN=00A65F;BAMUM LETTER NUAE=00A6BC" \o
      ";LATIN CAPITAL LETTER O WITH LOOP=00A74C;LATIN SMALL LETTER D WITH SHORT STROKE OVERLAY=00A7C8" \o
      ";CJK COMPATIBILITY IDEOGRAPH-F94F=00F94F;CJK COMPATIBILITY IDEOGRAPH-F95E=00F95E" \o
      ";CJK COMPATIBILITY IDEOGRAPH-F96D=00F96D;CJK COMPATIBILITY IDEOGRAPH-F97C=00F97C" \o
      ";CJK COMPATIBILITY IDEOGRAPH-F98B=00F98B;CJK COMPATIBILITY IDEOGRAPH-F99A=00F99A" \o
      ";CJK COMPATIBILITY IDEOGRAPH-F9A9=00F9A9;CJK COMPATIBILITY IDEOGRAPH-F9B8=00F9B8" \o
      ";CJK COMPATIBILITY IDEOGRAPH-F9C7=00F9C7;CJK COMPATIBILITY IDEOGRAPH-F9D6=00F9D6" \o
      ";CJK COMPATIBILITY IDEOGRAPH-F9E5=00F9E5;CJK COMPATIBILITY IDEOGRAPH-F9F4=00F9F4" \o
      ";CJK COMPATIBILITY IDEOGRAPH-FA0B=00FA0B;CJK COMPATIBILITY IDEOGRAPH-FA1A=00FA1A" \o
      ";CJK COMPATIBILITY IDEOGRAPH-FA99=00FA99;CJK COMPATIBILITY IDEOGRAPH-FAA1=00FAA1" \o
      ";CJK COMPATIBILITY IDEOGRAPH-FAB0=00FAB0;LINEAR B SYLLABLE B091 TWO=01004D" \o
      ";OSMANYA LETTER BA=010481;OSMANYA DIGIT ONE=0104A1;VITHKUQI SMALL LETTER LA=0105A9" \o
      ";LINEAR A SIGN AB029=01061C;LINEAR A SIGN AB038=010621;LINEAR A SIGN AB047=010628" \o
      ";LINEAR A SIGN AB056=010630;LINEAR A SIGN AB065=010636;LINEAR A SIGN AB074=01063C" \o
      ";LINEAR A SIGN AB164=010650;LINEAR A SIGN AB191=010654;LINEAR A SIGN A309A=01065D" \o
      ";MEROITIC HIEROGLYPHIC LETTER WA=010985;MEROITIC HIEROGLYPHIC LETTER SE=010995" \o
      ";MEROITIC CURSIVE FRACTION TEN TWELFTHS=0109FF;AVESTAN LETTER DE=010B1B;BRAHMI LETTER NYA=01101C" \o
      ";GRANTHA LETTER AU=011314;AHOM SIGN SECTION=01173D" \o
      ";ZANABAZAR SQUARE CLOSING DOUBLE-LINED HEAD MARK=011A46;CUNEIFORM SIGN ME=012228" \o
      ";CUNEIFORM SIGN SHIR TENU=0122D4;CUNEIFORM NUMERIC SIGN THREE BURU VARIANT FORM=012437" \o
      ";CUNEIFORM NUMERIC SIGN FOUR BAN2=012452;CUNEIFORM SIGN AB TIMES NUN TENU=012480" \o
      ";ANATOLIAN HIEROGLYPH A008=014407;ANATOLIAN HIEROGLYPH A017=014411" \o
      ";ANATOLIAN HIEROGLYPH A026=01441A;ANATOLIAN HIEROGLYPH A035=014424" \o
      ";ANATOLIAN HIEROGLYPH A044=01442F;ANATOLIAN HIEROGLYPH A053=01443B" \o
      ";ANATOLIAN HIEROGLYPH A062=014444;ANATOLIAN HIEROGLYPH A071=014450" \o
      ";ANATOLIAN HIEROGLYPH A080=014459;ANATOLIAN HIEROGLYPH A107=01447E" \o
      ";ANATOLIAN HIEROGLYPH A116=01448D;ANATOLIAN HIEROGLYPH A125=014496" \o
      ";ANATOLIAN HIEROGLYPH A134=0144A0;ANATOLIAN HIEROGLYPH A143=0144AA" \o
      ";ANATOLIAN HIEROGLYPH A152=0144B3;ANATOLIAN HIEROGLYPH A161=0144BC" \o
      ";ANATOLIAN HIEROGLYPH A170=0144C5;ANATOLIAN HIEROGLYPH A206=0144EB" \o
      ";ANATOLIAN HIEROGLYPH A215=0144F6;ANATOLIAN HIEROGLYPH A224=014501" \o
      ";ANATOLIAN HIEROGLYPH A233=01450B;ANATOLIAN HIEROGLYPH A242=014514" \o
      ";ANATOLIAN HIEROGLYPH A251=01451D;ANATOLIAN HIEROGLYPH A260=014526" \o
      ";ANATOLIAN HIEROGLYPH A305=014557;ANATOLIAN HIEROGLYPH A314=014561" \o
      ";ANATOLIAN HIEROGLYPH A323=01456A;ANATOLIAN HIEROGLYPH A341=014582" \o
      ";ANATOLIAN HIEROGLYPH A350=01458B;ANATOLIAN HIEROGLYPH A404=0145C8" \o
      ";ANATOLIAN HIEROGLYPH A413=0145D2;ANATOLIAN HIEROGLYPH A422=0145DB" \o
      ";ANATOLIAN HIEROGLYPH A431=0145E4;ANATOLIAN HIEROGLYPH A440=0145ED" \o
      ";ANATOLIAN HIEROGLYPH A503=01462B;ANATOLIAN HIEROGLYPH A512=014634" \o
      ";ANATOLIAN HIEROGLYPH A521=01463D;ANATOLIAN HIEROGLYPH A530=014646" \o
      ";BAMUM LETTER PHASE-A FIRI=016839;BAMUM LETTER PHASE-A NSHA=016851" \o
      ";BAMUM LETTER PHASE-C MUAE=0168E7;BAMUM LETTER PHASE-F RIEE=016A0C;TANGSA LETTER UEC=016A94" \o
      ";TANGSA LETTER HTA=016AAF;TANGSA LETTER THA=016AB9;TANGSA DIGIT FOUR=016AC4" \o
      ";MATHEMATICAL BOLD SMALL G=01D420;MATHEMATICAL BOLD SCRIPT SMALL R=01D4FB" \o
      ";MATHEMATICAL ITALIC CAPITAL IOTA=01D6EA;MATHEMATICAL SANS-SERIF BOLD ITALIC SMALL THETA=01D7B1" \o
      ";INDIC SIYAQ NUMBER FORTY=01EC7D;DOMINO TILE VERTICAL-00-03=01F066" \o
      ";DOMINO TILE VERTICAL-01-02=01F06C;DOMINO TILE VERTICAL-02-01=01F072" \o
      ";DOMINO TILE VERTICAL-03-00=01F078;UP-POINTING RED TRIANGLE=01F53A;MAGIC WAND=01FA84" \o
      ";BLOCK SEXTANT-1245=01FB19;BLOCK SEXTANT-1236=01FB25" \o
      ";UPPER RIGHT BLOCK DIAGONAL UPPER CENTRE TO LOWER RIGHT=01FB66",
    ";CHARACTER TABULATION SET=000088;LATIN SMALL LETTER THORN=0000FE" \o
      ";LATIN SMALL LETTER O WITH MACRON=00014D;LATIN CAPITAL LETTER Y WITH HOOK=0001B3" \o
      ";CYRILLIC SMALL LETTER ZE WITH DESCENDER=000499;CYRILLIC CAPITAL LETTER KOMI DJE=000502" \o
      ";HEBREW LETTER MEM=0005DE;SYRIAC ABBREVIATION MARK=00070F;BENGALI LETTER UU=00098A" \o
      ";GUJARATI LETTER E=000A8F;TAMIL LETTER LLLA=000BB4;LAO VOWEL SIGN YY=000EB7" \o
      ";TIBETAN DIGIT SIX=000F26;TIBETAN LETTER TA=000F4F;CHEROKEE LETTER V=0013A5" \o
      ";CANADIAN SYLLABICS WEST-CREE PWA=001445;CANADIAN SYLLABICS WEST-CREE LWE=0014DD" \o
      ";COMBINING DIAERESIS-RING=001AB1;BLACK RIGHT-POINTING DOUBLE TRIANGLE WITH VERTICAL BAR=0023ED" \o
      ";BLACK RIGHT-POINTING TRIANGLE WITH DOUBLE VERTICAL BAR=0023EF;CIRCLED NUMBER SEVENTEEN=002470" \o
      ";DOUBLE CIRCLED DIGIT FIVE=0024F9;DOUBLE CIRCLED DIGIT NINE=0024FD" \o
      ";MULTIPLICATION SIGN IN TRIANGLE=002A3B;LOGICAL OR WITH DOT ABOVE=002A52" \o
      ";IDEOGRAPHIC COMMA=003001;HANGUL LETTER WAE=003159" \o
      ";IDEOGRAPHIC TELEGRAPH SYMBOL FOR HOUR NINETEEN=00336B;HEXAGRAM FOR THE MARRYING MAIDEN=004DF5" \o
      ";YI SYLLABLE HLIEP=00A19D;YI SYLLABLE JJIEP=00A41F;BAMUM LETTER NSHA=00A6C3" \o
      ";JAVANESE LETTER O=00A98E;CJK COMPATIBILITY IDEOGRAPH-F95F=00F95F" \o
      ";CJK COMPATIBILITY IDEOGRAPH-F96E=00F96E;CJK COMPATIBILITY IDEOGRAPH-F97D=00F97D" \o
      ";CJK COMPATIBILITY IDEOGRAPH-F98C=00F98C;CJK COMPATIBILITY IDEOGRAPH-F99B=00F99B" \o
      ";CJK COMPATIBILITY IDEOGRAPH-F9B9=00F9B9;CJK COMPATIBILITY IDEOGRAPH-F9C8=00F9C8" \o
      ";CJK COMPATIBILITY IDEOGRAPH-F9D7=00F9D7;CJK COMPATIBILITY IDEOGRAPH-F9E6=00F9E6" \o
      ";CJK COMPATIBILITY IDEOGRAPH-F9F5=00F9F5;CJK COMPATIBILITY IDEOGRAPH-FA0C=00FA0C" \o
      ";CJK COMPATIBILITY IDEOGRAPH-FA1B=00FA1B;CJK COMPATIBILITY IDEOGRAPH-FA2A=00FA2A" \o
      ";CJK COMPATIBILITY IDEOGRAPH-FAA2=00FAA2;CJK COMPATIBILITY IDEOGRAPH-FAB1=00FAB1" \o
      ";CJK COMPATIBILITY IDEOGRAPH-FAC0=00FAC0;ARABIC LETTER RREH ISOLATED FORM=00FB8C" \o
      ";ARABIC LETTER YEH BARREE WITH HAMZA ABOVE ISOLATED FORM=00FBB0" \o
      ";ARABIC LIGATURE TEH WITH ZAIN FINAL FORM=00FC71;COPTIC EPACT NUMBER FIVE HUNDRED=0102F7" \o
      ";COPTIC EPACT NUMBER NINE HUNDRED=0102FB;VITHKUQI SMALL LETTER EI=01059E" \o
      ";LINEAR A SIGN AB039=010622;LINEAR A SIGN AB048=010629;LINEAR A SIGN AB057=010631" \o
      ";LINEAR A SIGN AB066=010637;LINEAR A SIGN A309B=01065E;MEROITIC HIEROGLYPHIC LETTER TE=01099A" \o
      ";AVESTAN LETTER EE=010B09;OLD HUNGARIAN CAPITAL LETTER EMP=010CA1" \o
      ";RUMI NUMBER FOUR HUNDRED=010E75;YEZIDI LETTER GAF=010E9F;OLD UYGHUR LETTER SAMEKH=010F7B" \o
      ";BRAHMI LETTER TTA=01101D;GRANTHA LETTER VA=011335;TAKRI SIGN VIRAMA=0116B6" \o
      ";CUNEIFORM SIGN EN=012097;CUNEIFORM SIGN KUR OPPOSING KUR=0121B4;CUNEIFORM SIGN NE=012248" \o
      ";CUNEIFORM SIGN RA=01228F;ANATOLIAN HIEROGLYPH A009=014408;ANATOLIAN HIEROGLYPH A018=014412" \o
      ";ANATOLIAN HIEROGLYPH A027=01441C;ANATOLIAN HIEROGLYPH A036=014425" \o
      ";ANATOLIAN HIEROGLYPH A045=014430;ANATOLIAN HIEROGLYPH A054=01443C" \o
      ";ANATOLIAN HIEROGLYPH A063=014445;ANATOLIAN HIEROGLYPH A072=014451" \o
      ";ANATOLIAN HIEROGLYPH A081=01445A;ANATOLIAN HIEROGLYPH A090=014463" \o
      ";ANATOLIAN HIEROGLYPH A108=014482;ANATOLIAN HIEROGLYPH A117=01448E" \o
      ";ANATOLIAN HIEROGLYPH A126=014498;ANATOLIAN HIEROGLYPH A135=0144A1" \o
      ";ANATOLIAN HIEROGLYPH A144=0144AB;ANATOLIAN HIEROGLYPH A153=0144B4" \o
      ";ANATOLIAN HIEROGLYPH A162=0144BD;ANATOLIAN HIEROGLYPH A171=0144C6" \o
      ";ANATOLIAN HIEROGLYPH A180=0144CF;ANATOLIAN HIEROGLYPH A207=0144EC" \o
      ";ANATOLIAN HIEROGLYPH A216=0144F8;ANATOLIAN HIEROGLYPH A225=014502" \o
      ";ANATOLIAN HIEROGLYPH A234=01450C;ANATOLIAN HIEROGLYPH A243=014515" \o
      ";ANATOLIAN HIEROGLYPH A252=01451E;ANATOLIAN HIEROGLYPH A261=014527" \o
      ";ANATOLIAN HIEROGLYPH A270=014531;ANATOLIAN HIEROGLYPH A306=014558" \o
      ";ANATOLIAN HIEROGLYPH A315=014562;ANATOLIAN HIEROGLYPH A324=01456B" \o
      ";ANATOLIAN HIEROGLYPH A333=014577;ANATOLIAN HIEROGLYPH A342=014583" \o
      ";ANATOLIAN HIEROGLYPH A351=01458C;ANATOLIAN HIEROGLYPH A360=014596" \o
      ";ANATOLIAN HIEROGLYPH A405=0145C9;ANATOLIAN HIEROGLYPH A414=0145D3" \o
      ";ANATOLIAN HIEROGLYPH A423=0145DC;ANATOLIAN HIEROGLYPH A432=0145E5" \o
      ";ANATOLIAN HIEROGLYPH A441=0145EE;ANATOLIAN HIEROGLYPH A450=0145F7" \o
      ";ANATOLIAN HIEROGLYPH A504=01462C;ANATOLIAN HIEROGLYPH A513=014635" \o
      ";ANATOLIAN HIEROGLYPH A522=01463E;BAMUM LETTER PHASE-C MBUE=0168A4" \o
      ";BAMUM LETTER PHASE-E PEEM=016984;BAMUM LETTER PHASE-E TAAQ=0169A1" \o
      ";DUPLOYAN LETTER SLOAN EN=01BC67;BYZANTINE MUSICAL SYMBOL TELEIA=01D00F" \o
      ";BYZANTINE MUSICAL SYMBOL MARTYRIA VARYS ICHOS=01D0B1;MAYAN NUMERAL ONE=01D2E1" \o
      ";MATHEMATICAL BOLD SMALL H=01D421;MATHEMATICAL BOLD SCRIPT SMALL S=01D4FC" \o
      ";SIGNWRITING HAND-CURLICUE INDEX RING LITTLE ON=01D8BC;NYIAKENG PUACHUE HMONG LETTER AA=01E125" \o
      ";WANCHO LETTER SHA=01E2CF;DOMINO TILE VERTICAL-00-04=01F067;DOMINO TILE VERTICAL-01-03=01F06D" \o
      ";DOMINO TILE VERTICAL-02-02=01F073;DOMINO TILE VERTICAL-03-01=01F079" \o
      ";DOMINO TILE VERTICAL-04-00=01F07F;SHAVED ICE=01F367;HEART WITH RIBBON=01F49D" \o
      ";HEAVY DOLLAR SIGN=01F4B2;ALCHEMICAL SYMBOL FOR CROCUS OF COPPER-2=01F724" \o
      ";WIDE-HEADED DOWNWARDS BARB ARROW=01F86B;WIDE-HEADED NORTH EAST MEDIUM BARB ARROW=01F875" \o
      ";BLOCK SEXTANT-1345=01FB1B;BLOCK SEXTANT-1246=01FB28",
    ";PARTIAL LINE DOWN=00008B;LATIN CAPITAL LETTER Z WITH HOOK=000224" \o
      ";ARABIC SMALL HIGH LAM ALEF=0006D9;ARABIC TURNED DAMMA BELOW=0008E3;ORIYA DIGIT THREE=000B69" \o
      ";MYANMAR LETTER GA=001002;CANADIAN SYLLABICS WEST-CREE WII=001411" \o
      ";CANADIAN SYLLABICS WEST-CREE CWO=001499;CANADIAN SYLLABICS WEST-CREE MWE=0014AD" \o
      ";RUNIC LETTER AESC=0016AB;TAGALOG LETTER ARCHAIC RA=00171F;HANUNOO LETTER DA=001727" \o
      ";DOWNWARDS ARROW FROM BAR=0021A7;DOES NOT PRECEDE OR EQUAL=0022E0" \o
      ";CONTAINS WITH VERTICAL BAR AT END OF HORIZONTAL STROKE=0022FB;METRICAL LONG OVER SHORT=0023D2" \o
      ";METRICAL SHORT OVER LONG=0023D3;INTERIOR PRODUCT=002A3C;COPTIC SYMBOL KAI=002CE4" \o
      ";CIRCLED NUMBER FORTY TWO=0032B7;YI SYLLABLE HMIEP=00A097;YI SYLLABLE NGIEP=00A25F" \o
      ";BAMUM LETTER PUAE=00A6D7;CJK COMPATIBILITY IDEOGRAPH-F96F=00F96F" \o
      ";CJK COMPATIBILITY IDEOGRAPH-F97E=00F97E;CJK COMPATIBILITY IDEOGRAPH-F98D=00F98D" \o
      ";CJK COMPATIBILITY IDEOGRAPH-F99C=00F99C;CJK COMPATIBILITY IDEOGRAPH-F9C9=00F9C9" \o
      ";CJK COMPATIBILITY IDEOGRAPH-F9D8=00F9D8;CJK COMPATIBILITY IDEOGRAPH-F9E7=00F9E7" \o
      ";CJK COMPATIBILITY IDEOGRAPH-F9F6=00F9F6;CJK COMPATIBILITY IDEOGRAPH-FA0D=00FA0D" \o
      ";CJK COMPATIBILITY IDEOGRAPH-FA1C=00FA1C;CJK COMPATIBILITY IDEOGRAPH-FA2B=00FA2B" \o
      ";CJK COMPATIBILITY IDEOGRAPH-FA3A=00FA3A;CJK COMPATIBILITY IDEOGRAPH-FAA3=00FAA3" \o
      ";CJK COMPATIBILITY IDEOGRAPH-FAB2=00FAB2;CJK COMPATIBILITY IDEOGRAPH-FAC1=00FAC1" \o
      ";CJK COMPATIBILITY IDEOGRAPH-FAD0=00FAD0;ARABIC LETTER ZAIN ISOLATED FORM=00FEAF" \o
      ";VITHKUQI SMALL LETTER JE=0105A7;LINEAR A SIGN AB049=01062A;LINEAR A SIGN AB058=010632" \o
      ";LINEAR A SIGN AB067=010638;LINEAR A SIGN AB076=01063D;LINEAR A SIGN AB085=010644" \o
      ";LINEAR A SIGN A309C=01065F;HATRAN LETTER MEM=0108EC;MEROITIC HIEROGLYPHIC LETTER YA=010984" \o
      ";MEROITIC CURSIVE NUMBER SEVEN THOUSAND=0109E1;AVESTAN LETTER FE=010B1F;KHOJKI LETTER NNA=011218" \o
      ";KHOJKI LETTER THA=01121A;MULTANI LETTER BA=01129D;TIRHUTA SIGN CANDRABINDU=0114BF" \o
      ";TAKRI DIGIT SEVEN=0116C7;NANDINAGARI VOWEL SIGN VOCALIC R=0119D6" \o
      ";MASARAM GONDI SIGN CANDRA=011D43;CUNEIFORM SIGN KI=0121A0;CUNEIFORM SIGN SA=012293" \o
      ";ANATOLIAN HIEROGLYPH A019=014413;ANATOLIAN HIEROGLYPH A028=01441D" \o
      ";ANATOLIAN HIEROGLYPH A037=014426;ANATOLIAN HIEROGLYPH A046=014432" \o
      ";ANATOLIAN HIEROGLYPH A055=01443D;ANATOLIAN HIEROGLYPH A064=014446" \o
      ";ANATOLIAN HIEROGLYPH A073=014452;ANATOLIAN HIEROGLYPH A082=01445B" \o
      ";ANATOLIAN HIEROGLYPH A091=014464;ANATOLIAN HIEROGLYPH A109=014483" \o
      ";ANATOLIAN HIEROGLYPH A118=01448F;ANATOLIAN HIEROGLYPH A127=014499" \o
      ";ANATOLIAN HIEROGLYPH A136=0144A3;ANATOLIAN HIEROGLYPH A145=0144AC" \o
      ";ANATOLIAN HIEROGLYPH A154=0144B5;ANATOLIAN HIEROGLYPH A163=0144BE" \o
      ";ANATOLIAN HIEROGLYPH A172=0144C7;ANATOLIAN HIEROGLYPH A181=0144D0" \o
      ";ANATOLIAN HIEROGLYPH A190=0144D9;ANATOLIAN HIEROGLYPH A208=0144EE" \o
      ";ANATOLIAN HIEROGLYPH A217=0144FA;ANATOLIAN HIEROGLYPH A226=014503" \o
      ";ANATOLIAN HIEROGLYPH A235=01450D;ANATOLIAN HIEROGLYPH A244=014516" \o
      ";ANATOLIAN HIEROGLYPH A253=01451F;ANATOLIAN HIEROGLYPH A262=014528" \o
      ";ANATOLIAN HIEROGLYPH A271=014532;ANATOLIAN HIEROGLYPH A280=01453B" \o
      ";ANATOLIAN HIEROGLYPH A307=014559;ANATOLIAN HIEROGLYPH A316=014563" \o
      ";ANATOLIAN HIEROGLYPH A325=01456C;ANATOLIAN HIEROGLYPH A334=014578" \o
      ";ANATOLIAN HIEROGLYPH A343=014584;ANATOLIAN HIEROGLYPH A352=01458D" \o
      ";ANATOLIAN HIEROGLYPH A361=014597;ANATOLIAN HIEROGLYPH A370=0145A2" \o
      ";ANATOLIAN HIEROGLYPH A406=0145CA;ANATOLIAN HIEROGLYPH A415=0145D4" \o
      ";ANATOLIAN HIEROGLYPH A424=0145DD;ANATOLIAN HIEROGLYPH A433=0145E6" \o
      ";ANATOLIAN HIEROGLYPH A442=0145EF;ANATOLIAN HIEROGLYPH A451=0145F9" \o
      ";ANATOLIAN HIEROGLYPH A460=014603;ANATOLIAN HIEROGLYPH A505=01462D" \o
      ";ANATOLIAN HIEROGLYPH A514=014636;ANATOLIAN HIEROGLYPH A523=01463F" \o
      ";BAMUM LETTER PHASE-D NJAP=016902;BAMUM LETTER PHASE-E GHET=0169BA" \o
      ";BAMUM LETTER PHASE-E MUAE=0169C6;ZNAMENNY COMBINING MARK GORAZDO NIZKO ON RIGHT=01CF0F" \o
      ";ZNAMENNY COMBINING MARK SREDNE ON RIGHT=01CF11;BYZANTINE MUSICAL SYMBOL OYRANISMA NEO=01D075" \o
      ";MATHEMATICAL BOLD SMALL I=01D422;MATHEMATICAL BOLD SCRIPT SMALL T=01D4FD" \o
      ";SIGNWRITING EYEGAZE-WALLPLANE STRAIGHT DOUBLE=01DA22;NYIAKENG PUACHUE HMONG DIGIT ONE=01E141" \o
      ";WANCHO LETTER THA=01E2CC;WANCHO DIGIT FOUR=01E2F4;MENDE KIKAKUI SYLLABLE M156 NGGOO=01E87C" \o
      ";DOMINO TILE VERTICAL-00-05=01F068;DOMINO TILE VERTICAL-01-04=01F06E" \o
      ";DOMINO TILE VERTICAL-02-03=01F074;DOMINO TILE VERTICAL-03-02=01F07A" \o
      ";DOMINO TILE VERTICAL-04-01=01F080;DOMINO TILE VERTICAL-05-00=01F086;SQUARED LOSSLESS=01F1A9" \o
      ";XIANGQI RED HORSE=01FA63;BLOCK SEXTANT-2345=01FB1C;BLOCK SEXTANT-1346=01FB2A" \o
      ";BLOCK SEXTANT-1256=01FB30",
    ";LATIN CAPITAL LETTER U WITH HORN=0001AF;LATIN SMALL LETTER EZH WITH TAIL=0001BA" \o
      ";LATIN SMALL LETTER DZ WITH CARON=0001C6;MODIFIER LETTER YIN DEPARTING TONE MARK=0002EA" \o
      ";CYRILLIC LETTER PALOCHKA=0004C0;HEBREW LETTER HET=0005D7;ARABIC RAY=000608" \o
      ";ARABIC LETTER JEEM WITH THREE DOTS ABOVE=0008C5;MYANMAR LETTER HA=00101F" \o
      ";MYANMAR CONSONANT SIGN MEDIAL HA=00103E;CANADIAN SYLLABICS WEST-CREE NWE=0014CA" \o
      ";OGHAM LETTER UATH=001686;KHMER SIGN BEYYAL=0017D8;CANADIAN SYLLABICS WEST-CREE LOO=0018E1" \o
      ";NEW TAI LUE VOWEL SIGN IY=0019C0;BALINESE PAMENENG=001B60" \o
      ";LATIN SMALL LETTER U WITH HORN AND ACUTE=001EE9;LATIN SMALL LETTER U WITH HORN AND TILDE=001EEF" \o
      ";SUPERSCRIPT FIVE=002075;SUPERSCRIPT NINE=002079;SYMBOL FOR ESCAPE=00241B" \o
      ";HANGUL LETTER YAE=003152;YI SYLLABLE HNIEP=00A16F;YI SYLLABLE GGIEX=00A217" \o
      ";VAI SYLLABLE NJOO=00A58D;BAMUM LETTER NTEE=00A6C7" \o
      ";LATIN SMALL LETTER P WITH SQUIRREL TAIL=00A755;SAURASHTRA VOWEL SIGN II=00A8B7" \o
      ";CJK COMPATIBILITY IDEOGRAPH-F97F=00F97F;CJK COMPATIBILITY IDEOGRAPH-F98E=00F98E" \o
      ";CJK COMPATIBILITY IDEOGRAPH-F99D=00F99D;CJK COMPATIBILITY IDEOGRAPH-F9D9=00F9D9" \o
      ";CJK COMPATIBILITY IDEOGRAPH-F9E8=00F9E8;CJK COMPATIBILITY IDEOGRAPH-F9F7=00F9F7" \o
      ";CJK COMPATIBILITY IDEOGRAPH-FA0E=00FA0E;CJK COMPATIBILITY IDEOGRAPH-FA1D=00FA1D" \o
      ";CJK COMPATIBILITY IDEOGRAPH-FA2C=00FA2C;CJK COMPATIBILITY IDEOGRAPH-FA3B=00FA3B" \o
      ";CJK COMPATIBILITY IDEOGRAPH-FA4A=00FA4A;CJK COMPATIBILITY IDEOGRAPH-FAA4=00FAA4" \o
      ";CJK COMPATIBILITY IDEOGRAPH-FAB3=00FAB3;CJK COMPATIBILITY IDEOGRAPH-FAC2=00FAC2" \o
      ";CJK COMPATIBILITY IDEOGRAPH-FAD1=00FAD1;HEBREW LETTER SAMEKH WITH DAGESH=00FB41" \o
      ";ARABIC LIGATURE DAD WITH ALEF MAKSURA FINAL FORM=00FD23" \o
      ";GREEK ACROPHONIC TROEZENIAN TEN ALTERNATE FORM=010161;LINEAR A SIGN AB059=010633" \o
      ";LINEAR A SIGN AB077=01063E;LINEAR A SIGN AB086=010645;HATRAN NUMBER TEN=0108FD" \o
      ";MEROITIC CURSIVE NUMBER FIFTY THOUSAND=0109E8;AVESTAN LETTER GE=010B14" \o
      ";CHORASMIAN LETTER SAMEKH=010FBF;KAITHI SIGN NUKTA=0110BA;SORA SOMPENG LETTER NYAH=0110E1" \o
      ";SHARADA LETTER UU=011188;MULTANI LETTER CA=01128A;DOGRA LETTER TTHA=011815" \o
      ";CUNEIFORM SIGN IL=01214B;CUNEIFORM SIGN LI=0121F7;CUNEIFORM SIGN TA=0122EB" \o
      ";ANATOLIAN HIEROGLYPH A029=01441E;ANATOLIAN HIEROGLYPH A038=014427" \o
      ";ANATOLIAN HIEROGLYPH A047=014435;ANATOLIAN HIEROGLYPH A056=01443E" \o
      ";ANATOLIAN HIEROGLYPH A065=014447;ANATOLIAN HIEROGLYPH A074=014453" \o
      ";ANATOLIAN HIEROGLYPH A083=01445C;ANATOLIAN HIEROGLYPH A092=014465" \o
      ";ANATOLIAN HIEROGLYPH A119=014490;ANATOLIAN HIEROGLYPH A128=01449A" \o
      ";ANATOLIAN HIEROGLYPH A137=0144A4;ANATOLIAN HIEROGLYPH A146=0144AD" \o
      ";ANATOLIAN HIEROGLYPH A155=0144B6;ANATOLIAN HIEROGLYPH A164=0144BF" \o
      ";ANATOLIAN HIEROGLYPH A173=0144C8;ANATOLIAN HIEROGLYPH A182=0144D1" \o
      ";ANATOLIAN HIEROGLYPH A191=0144DA;ANATOLIAN HIEROGLYPH A209=0144EF" \o
      ";ANATOLIAN HIEROGLYPH A218=0144FB;ANATOLIAN HIEROGLYPH A227=014504" \o
      ";ANATOLIAN HIEROGLYPH A236=01450E;ANATOLIAN HIEROGLYPH A245=014517" \o
      ";ANATOLIAN HIEROGLYPH A254=014520;ANATOLIAN HIEROGLYPH A263=014529" \o
      ";ANATOLIAN HIEROGLYPH A272=014533;ANATOLIAN HIEROGLYPH A281=01453C" \o
      ";ANATOLIAN HIEROGLYPH A290=014546;ANATOLIAN HIEROGLYPH A308=01455A" \o
      ";ANATOLIAN HIEROGLYPH A317=014564;ANATOLIAN HIEROGLYPH A326=01456D" \o
      ";ANATOLIAN HIEROGLYPH A335=014579;ANATOLIAN HIEROGLYPH A344=014585" \o
      ";ANATOLIAN HIEROGLYPH A353=01458E;ANATOLIAN HIEROGLYPH A362=014598" \o
      ";ANATOLIAN HIEROGLYPH A371=0145A3;ANATOLIAN HIEROGLYPH A380=0145AD" \o
      ";ANATOLIAN HIEROGLYPH A407=0145CB;ANATOLIAN HIEROGLYPH A416=0145D5" \o
      ";ANATOLIAN HIEROGLYPH A425=0145DE;ANATOLIAN HIEROGLYPH A434=0145E7" \o
      ";ANATOLIAN HIEROGLYPH A443=0145F0;ANATOLIAN HIEROGLYPH A452=0145FA" \o
      ";ANATOLIAN HIEROGLYPH A461=014604;ANATOLIAN HIEROGLYPH A470=01460D" \o
      ";ANATOLIAN HIEROGLYPH A506=01462E;ANATOLIAN HIEROGLYPH A515=014637" \o
      ";ANATOLIAN HIEROGLYPH A524=014640;MIAO SIGN CONSONANT MODIFIER BAR=016F4F" \o
      ";ZNAMENNY NEUME STRELA KRYUKOVAYA GROMOKRYZHEVAYA POVODNAYA=01CFBD" \o
      ";MUSICAL SYMBOL REPEATED FIGURE-1=01D10D;MUSICAL SYMBOL SEMIMINIMA WHITE=01D1BD" \o
      ";MATHEMATICAL BOLD SMALL J=01D423;MATHEMATICAL BOLD SCRIPT SMALL U=01D4FE" \o
      ";MATHEMATICAL MONOSPACE CAPITAL A=01D670" \o
      ";SIGNWRITING MOVEMENT-WALLPLANE SINGLE STRAIGHT SMALL=01D92A;SIGNWRITING MOUTH FROWN=01DA41" \o
      ";NYIAKENG PUACHUE HMONG LETTER CA=01E108;WANCHO LETTER ING=01E2E5" \o
      ";MENDE KIKAKUI COMBINING NUMBER HUNDREDS=01E8D2;DOMINO TILE VERTICAL-00-06=01F069" \o
      ";DOMINO TILE VERTICAL-01-05=01F06F;DOMINO TILE VERTICAL-02-04=01F075" \o
      ";DOMINO TILE VERTICAL-03-03=01F07B;DOMINO TILE VERTICAL-04-02=01F081" \o
      ";DOMINO TILE VERTICAL-05-01=01F087;DOMINO TILE VERTICAL-06-00=01F08D" \o
      ";CLOSED MAILBOX WITH LOWERED FLAG=01F4EA;NORTH WEST POINTING LEAF=01F650" \o
      ";BLOCK SEXTANT-2346=01FB2B;BLOCK SEXTANT-1356=01FB32",
    ";LATIN SMALL LETTER O WITH OGONEK=0001EB;TELUGU LETTER DDA=000C21;TIBETAN LETTER WA=000F5D" \o
      ";MYANMAR SIGN ASAT=00103A;CANADIAN SYLLABICS WEST-CREE KWI=001477" \o
      ";CANADIAN SYLLABICS WEST-CREE SWA=001501;CANADIAN SYLLABICS CARRIER TLHEE=001637" \o
      ";KHMER SYMBOL LEK ATTAK PRAM-BUON=0017F9;CANADIAN SYLLABICS SHWOY=0018C2;ESTIMATES=002259" \o
      ";MUCH GREATER-THAN=00226B;CONTAINS AS NORMAL SUBGROUP OR EQUAL TO=0022B5" \o
      ";ELEMENT OF WITH DOT ABOVE=0022F5;BOX DRAWINGS HEAVY TRIPLE DASH VERTICAL=002507" \o
      ";DINGBAT NEGATIVE CIRCLED SANS-SERIF DIGIT SEVEN=002790;GLAGOLITIC SMALL LETTER MYSLITE=002C3F" \o
      ";LATIN CAPITAL LETTER L WITH MIDDLE TILDE=002C62;BAMUM LETTER SHII=00A6B6" \o
      ";REJANG LETTER NYA=00A93B;CJK COMPATIBILITY IDEOGRAPH-F98F=00F98F" \o
      ";CJK COMPATIBILITY IDEOGRAPH-F99E=00F99E;CJK COMPATIBILITY IDEOGRAPH-F9E9=00F9E9" \o
      ";CJK COMPATIBILITY IDEOGRAPH-F9F8=00F9F8;CJK COMPATIBILITY IDEOGRAPH-FA0F=00FA0F" \o
      ";CJK COMPATIBILITY IDEOGRAPH-FA1E=00FA1E;CJK COMPATIBILITY IDEOGRAPH-FA2D=00FA2D" \o
      ";CJK COMPATIBILITY IDEOGRAPH-FA3C=00FA3C;CJK COMPATIBILITY IDEOGRAPH-FA4B=00FA4B" \o
      ";CJK COMPATIBILITY IDEOGRAPH-FA5A=00FA5A;CJK COMPATIBILITY IDEOGRAPH-FAA5=00FAA5" \o
      ";CJK COMPATIBILITY IDEOGRAPH-FAB4=00FAB4;CJK COMPATIBILITY IDEOGRAPH-FAC3=00FAC3" \o
      ";CJK COMPATIBILITY IDEOGRAPH-FAD2=00FAD2;ARABIC LETTER NYEH ISOLATED FORM=00FB76" \o
      ";GOTHIC LETTER EIS=010339;GOTHIC LETTER JER=01033E;OSMANYA LETTER FA=01048D" \o
      ";LINEAR A SIGN AB069=010639;LINEAR A SIGN AB078=01063F;LINEAR A SIGN AB087=010646" \o
      ";AVESTAN LETTER HE=010B35;OLD HUNGARIAN CAPITAL LETTER EGY=010C8E;YEZIDI LETTER HHA=010E89" \o
      ";YEZIDI LETTER DAL=010E8B;OLD SOGDIAN LETTER FINAL NUN WITH VERTICAL TAIL=010F10" \o
      ";MULTANI LETTER DA=011298;GRANTHA LETTER YA=01132F;CUNEIFORM SIGN IM=01214E" \o
      ";CUNEIFORM SIGN MI=01222A;CUNEIFORM SIGN NE TIMES A=012249;EGYPTIAN HIEROGLYPH AA001=01340D" \o
      ";EGYPTIAN HIEROGLYPH AA010=013418;ANATOLIAN HIEROGLYPH A039=014428" \o
      ";ANATOLIAN HIEROGLYPH A048=014436;ANATOLIAN HIEROGLYPH A057=01443F" \o
      ";ANATOLIAN HIEROGLYPH A066=014448;ANATOLIAN HIEROGLYPH A075=014454" \o
      ";ANATOLIAN HIEROGLYPH A084=01445D;ANATOLIAN HIEROGLYPH A093=014466" \o
      ";ANATOLIAN HIEROGLYPH A129=01449B;ANATOLIAN HIEROGLYPH A138=0144A5" \o
      ";ANATOLIAN HIEROGLYPH A147=0144AE;ANATOLIAN HIEROGLYPH A156=0144B7" \o
      ";ANATOLIAN HIEROGLYPH A165=0144C0;ANATOLIAN HIEROGLYPH A174=0144C9" \o
      ";ANATOLIAN HIEROGLYPH A183=0144D2;ANATOLIAN HIEROGLYPH A192=0144DB" \o
      ";ANATOLIAN HIEROGLYPH A219=0144FC;ANATOLIAN HIEROGLYPH A228=014506" \o
      ";ANATOLIAN HIEROGLYPH A237=01450F;ANATOLIAN HIEROGLYPH A246=014518" \o
      ";ANATOLIAN HIEROGLYPH A255=014521;ANATOLIAN HIEROGLYPH A264=01452A" \o
      ";ANATOLIAN HIEROGLYPH A273=014534;ANATOLIAN HIEROGLYPH A282=01453D" \o
      ";ANATOLIAN HIEROGLYPH A291=014547;ANATOLIAN HIEROGLYPH A309=01455B" \o
      ";ANATOLIAN HIEROGLYPH A318=014565;ANATOLIAN HIEROGLYPH A327=01456E" \o
      ";ANATOLIAN HIEROGLYPH A336=01457A;ANATOLIAN HIEROGLYPH A345=014586" \o
      ";ANATOLIAN HIEROGLYPH A354=01458F;ANATOLIAN HIEROGLYPH A363=014599" \o
      ";ANATOLIAN HIEROGLYPH A372=0145A5;ANATOLIAN HIEROGLYPH A381=0145AE" \o
      ";ANATOLIAN HIEROGLYPH A390=0145BA;ANATOLIAN HIEROGLYPH A408=0145CC" \o
      ";ANATOLIAN HIEROGLYPH A417=0145D6;ANATOLIAN HIEROGLYPH A426=0145DF" \o
      ";ANATOLIAN HIEROGLYPH A435=0145E8;ANATOLIAN HIEROGLYPH A444=0145F1" \o
      ";ANATOLIAN HIEROGLYPH A453=0145FB;ANATOLIAN HIEROGLYPH A462=014605" \o
      ";ANATOLIAN HIEROGLYPH A471=01460E;ANATOLIAN HIEROGLYPH A480=014617" \o
      ";ANATOLIAN HIEROGLYPH A507=01462F;ANATOLIAN HIEROGLYPH A516=014638" \o
      ";ANATOLIAN HIEROGLYPH A525=014641;BAMUM LETTER PHASE-C MBIT=0168A6" \o
      ";BAMUM LETTER PHASE-C BUNG=0168C0;BAMUM LETTER PHASE-F NUAE=016A18;TANGSA LETTER UIC=016A8D" \o
      ";TANGSA DIGIT ZERO=016AC0;MUSICAL SYMBOL REPEATED FIGURE-2=01D10E" \o
      ";MATHEMATICAL BOLD SMALL K=01D424;MATHEMATICAL BOLD SCRIPT SMALL V=01D4FF" \o
      ";MATHEMATICAL MONOSPACE CAPITAL B=01D671" \o
      ";SIGNWRITING ROTATION-FLOORPLANE ALTERNATING HITTING CEILING=01D9C5" \o
      ";NYIAKENG PUACHUE HMONG LETTER DA=01E10F;MENDE KIKAKUI SYLLABLE M177 NGUAN=01E88B" \o
      ";DOMINO TILE VERTICAL-01-06=01F070;DOMINO TILE VERTICAL-02-05=01F076" \o
      ";DOMINO TILE VERTICAL-03-04=01F07C;DOMINO TILE VERTICAL-04-03=01F082" \o
      ";DOMINO TILE VERTICAL-05-02=01F088;DOMINO TILE VERTICAL-06-01=01F08E;LOWER LEFT PENCIL=01F589" \o
      ";RAISED HAND WITH FINGERS SPLAYED=01F590;ALCHEMICAL SYMBOL FOR COPPER ORE=01F720" \o
      ";ALCHEMICAL SYMBOL FOR HORSE DUNG=01F756;ORANGUTAN=01F9A7;BLOCK SEXTANT-2356=01FB33" \o
      ";BLOCK SEXTANT-1456=01FB36",
    ";CYRILLIC CAPITAL LETTER ALEUT KA=00051E;GUJARATI LETTER I=000A87;MYANMAR LETTER JA=001007" \o
      ";MYANMAR VOWEL SIGN SGAW KAREN EU=001062;CANADIAN SYLLABICS WEST-CREE PWE=00143B" \o
      ";CANADIAN SYLLABICS WEST-CREE TWA=001462;CANADIAN SYLLABICS WEST-CREE LWI=0014DF" \o
      ";OGHAM LETTER NION=001685;HANUNOO LETTER GA=001724;KHMER SIGN VIRIAM=0017D1" \o
      ";VEDIC SIGN TIRYAK=001CED;GREEK CAPITAL LETTER OMICRON WITH PSILI=001F48" \o
      ";GREEK DIALYTIKA AND VARIA=001FED;HAIR SPACE=00200A;SYMBOL FOR DELETE=002421" \o
      ";WHITE VERTICAL RECTANGLE=0025AF;LEFTWARDS ARROW WITH PLUS BELOW=002946" \o
      ";BOPOMOFO LETTER O WITH DOT ABOVE=00312E;HEXAGRAM FOR THE RECEPTIVE EARTH=004DC1" \o
      ";YI SYLLABLE NBIEX=00A07A;YI SYLLABLE JJIET=00A41C;YI SYLLABLE NJIEP=00A438" \o
      ";BAMUM LETTER KYEE=00A6BA;TAI VIET LETTER HIGH KHHO=00AA85" \o
      ";CJK COMPATIBILITY IDEOGRAPH-F99F=00F99F;CJK COMPATIBILITY IDEOGRAPH-F9F9=00F9F9" \o
      ";CJK COMPATIBILITY IDEOGRAPH-FA1F=00FA1F;CJK COMPATIBILITY IDEOGRAPH-FA2E=00FA2E" \o
      ";CJK COMPATIBILITY IDEOGRAPH-FA3D=00FA3D;CJK COMPATIBILITY IDEOGRAPH-FA4C=00FA4C" \o
      ";CJK COMPATIBILITY IDEOGRAPH-FA5B=00FA5B;CJK COMPATIBILITY IDEOGRAPH-FA6A=00FA6A" \o
      ";CJK COMPATIBILITY IDEOGRAPH-FAA6=00FAA6;CJK COMPATIBILITY IDEOGRAPH-FAB5=00FAB5" \o
      ";CJK COMPATIBILITY IDEOGRAPH-FAC4=00FAC4;CJK COMPATIBILITY IDEOGRAPH-FAD3=00FAD3" \o
      ";ARABIC LETTER TTEH ISOLATED FORM=00FB66;OSMANYA LETTER GA=01048C" \o
      ";VITHKUQI SMALL LETTER ME=0105AB;VITHKUQI SMALL LETTER QA=0105B0;LINEAR A SIGN AB079=010640" \o
      ";YEZIDI LETTER KAF=010E9D;BRAHMI NUMBER SIX=011057;SHARADA OM=0111C4" \o
      ";SINHALA ARCHAIC DIGIT SIX=0111E6;PAU CIN HAU GLOTTAL STOP VARIANT=011AF0" \o
      ";CUNEIFORM SIGN BU=01204D;CUNEIFORM SIGN GI TIMES E=012101;CUNEIFORM SIGN IN=012154" \o
      ";CUNEIFORM SIGN NI=01224C;CUNEIFORM SIGN UB=012312" \o
      ";CUNEIFORM NUMERIC SIGN THREE VARIANT FORM ESH21=01243B;EGYPTIAN HIEROGLYPH AA002=01340E" \o
      ";EGYPTIAN HIEROGLYPH AA011=013419;EGYPTIAN HIEROGLYPH AA020=013422" \o
      ";ANATOLIAN HIEROGLYPH A049=014437;ANATOLIAN HIEROGLYPH A058=014440" \o
      ";ANATOLIAN HIEROGLYPH A067=01444C;ANATOLIAN HIEROGLYPH A076=014455" \o
      ";ANATOLIAN HIEROGLYPH A085=01445E;ANATOLIAN HIEROGLYPH A094=014467" \o
      ";ANATOLIAN HIEROGLYPH A139=0144A6;ANATOLIAN HIEROGLYPH A148=0144AF" \o
      ";ANATOLIAN HIEROGLYPH A157=0144B8;ANATOLIAN HIEROGLYPH A166=0144C1" \o
      ";ANATOLIAN HIEROGLYPH A175=0144CA;ANATOLIAN HIEROGLYPH A184=0144D3" \o
      ";ANATOLIAN HIEROGLYPH A193=0144DC;ANATOLIAN HIEROGLYPH A229=014507" \o
      ";ANATOLIAN HIEROGLYPH A238=014510;ANATOLIAN HIEROGLYPH A247=014519" \o
      ";ANATOLIAN HIEROGLYPH A256=014522;ANATOLIAN HIEROGLYPH A265=01452B" \o
      ";ANATOLIAN HIEROGLYPH A274=014535;ANATOLIAN HIEROGLYPH A283=01453E" \o
      ";ANATOLIAN HIEROGLYPH A292=014548;ANATOLIAN HIEROGLYPH A319=014566" \o
      ";ANATOLIAN HIEROGLYPH A328=01456F;ANATOLIAN HIEROGLYPH A337=01457E" \o
      ";ANATOLIAN HIEROGLYPH A346=014587;ANATOLIAN HIEROGLYPH A355=014590" \o
      ";ANATOLIAN HIEROGLYPH A364=01459A;ANATOLIAN HIEROGLYPH A373=0145A6" \o
      ";ANATOLIAN HIEROGLYPH A382=0145B0;ANATOLIAN HIEROGLYPH A391=0145BB" \o
      ";ANATOLIAN HIEROGLYPH A409=0145CD;ANATOLIAN HIEROGLYPH A418=0145D7" \o
      ";ANATOLIAN HIEROGLYPH A427=0145E0;ANATOLIAN HIEROGLYPH A436=0145E9" \o
      ";ANATOLIAN HIEROGLYPH A445=0145F2;ANATOLIAN HIEROGLYPH A454=0145FC" \o
      ";ANATOLIAN HIEROGLYPH A463=014606;ANATOLIAN HIEROGLYPH A472=01460F" \o
      ";ANATOLIAN HIEROGLYPH A481=014618;ANATOLIAN HIEROGLYPH A490=014621" \o
      ";ANATOLIAN HIEROGLYPH A508=014630;ANATOLIAN HIEROGLYPH A517=014639" \o
      ";ANATOLIAN HIEROGLYPH A526=014642;BAMUM LETTER PHASE-D NTEE=016959" \o
      ";BAMUM LETTER PHASE-E PUAE=016971;BAMUM LETTER PHASE-E GHOM=016A02" \o
      ";BAMUM LETTER PHASE-F NSHA=016A1E;MUSICAL SYMBOL REPEATED FIGURE-3=01D10F" \o
      ";MATHEMATICAL BOLD SMALL L=01D425;MATHEMATICAL BOLD SCRIPT SMALL W=01D500" \o
      ";MATHEMATICAL MONOSPACE CAPITAL C=01D672;WANCHO TONE KOINI=01E2EF" \o
      ";ARABIC MATHEMATICAL INITIAL NOON=01EE2D;MAHJONG TILE PLUM=01F022" \o
      ";DOMINO TILE VERTICAL-02-06=01F077;DOMINO TILE VERTICAL-03-05=01F07D" \o
      ";DOMINO TILE VERTICAL-04-04=01F083;DOMINO TILE VERTICAL-05-03=01F089" \o
      ";DOMINO TILE VERTICAL-06-02=01F08F;PLAYING CARD SIX OF CLUBS=01F0D6;HORSE FACE=01F434" \o
      ";ANGRY FACE=01F620;FACE WITH NO GOOD GESTURE=01F645;LIGHT GREEK CROSS=01F7A2" \o
      ";HAND WITH INDEX FINGER AND THUMB CROSSED=01FAF0;BLOCK SEXTANT-2456=01FB37",
    ";LATIN SMALL LETTER N WITH LONG RIGHT LEG=00019E;MODIFIER LETTER LOW ACUTE ACCENT=0002CF" \o
      ";CYRILLIC CAPITAL LETTER GHE WITH STROKE=000492;ARABIC LETTER MEEM WITH THREE DOTS ABOVE=0008A7" \o
      ";ARABIC MARK SIDEWAYS NOON GHUNNA=0008FF;TAMIL NUMBER SIGN=000BFA;TELUGU LETTER BHA=000C2D" \o
      ";TELUGU DIGIT FIVE=000C6B;TELUGU DIGIT NINE=000C6F;TIBETAN LETTER YA=000F61" \o
      ";MYANMAR LETTER KA=001000;CANADIAN SYLLABICS WEST-CREE MWI=0014AF;HANUNOO LETTER HA=001731" \o
      ";LATIN SMALL LETTER U WITH HORN AND GRAVE=001EEB" \o
      ";GREEK SMALL LETTER OMICRON WITH PSILI AND VARIA=001F42;DOES NOT SUCCEED OR EQUAL=0022E1" \o
      ";INSERTION SYMBOL=002380;PARENTHESIZED DIGIT FIVE=002478;PARENTHESIZED DIGIT NINE=00247C" \o
      ";TRIGRAM FOR EARTH=002637;HEAVY LOW SINGLE COMMA QUOTATION MARK ORNAMENT=00275F" \o
      ";DASHED TRIANGLE-HEADED RIGHTWARDS ARROW=00279F" \o
      ";WHITE TRIANGLE CONTAINING SMALL WHITE TRIANGLE=0027C1;HORIZONTAL BLACK HEXAGON=002B23" \o
      ";RIGHTWARDS TRIANGLE-HEADED DASHED ARROW=002B6C;VAI SYLLABLE KPOO=00A57A" \o
      ";VAI SYLLABLE SHOO=00A588;LATIN CAPITAL LETTER EGYPTOLOGICAL ALEF=00A722" \o
      ";COMBINING DEVANAGARI DIGIT THREE=00A8E3;CJK COMPATIBILITY IDEOGRAPH-FA2F=00FA2F" \o
      ";CJK COMPATIBILITY IDEOGRAPH-FA3E=00FA3E;CJK COMPATIBILITY IDEOGRAPH-FA4D=00FA4D" \o
      ";CJK COMPATIBILITY IDEOGRAPH-FA5C=00FA5C;CJK COMPATIBILITY IDEOGRAPH-FA6B=00FA6B" \o
      ";CJK COMPATIBILITY IDEOGRAPH-FA7A=00FA7A;CJK COMPATIBILITY IDEOGRAPH-FAA7=00FAA7" \o
      ";CJK COMPATIBILITY IDEOGRAPH-FAB6=00FAB6;CJK COMPATIBILITY IDEOGRAPH-FAC5=00FAC5" \o
      ";CJK COMPATIBILITY IDEOGRAPH-FAD4=00FAD4;ARABIC LIGATURE YEH WITH ZAIN FINAL FORM=00FC92" \o
      ";UGARITIC LETTER I=01039B;OSMANYA LETTER HA=010494;VITHKUQI SMALL LETTER NE=0105AC" \o
      ";LINEAR A SIGN AB188=010653;AVESTAN LETTER AN=010B04;AVESTAN LETTER JE=010B18" \o
      ";OLD HUNGARIAN CAPITAL LETTER ENT=010CA7;OLD HUNGARIAN NUMBER ONE HUNDRED=010CFE" \o
      ";OLD SOGDIAN LIGATURE AYIN-DALETH=010F27;KAITHI LETTER SSA=0110AD" \o
      ";SIDDHAM SECTION MARK WITH TRIDENT AND DOTTED CRESCENTS=0115CB;EGYPTIAN HIEROGLYPH C010A=013067" \o
      ";EGYPTIAN HIEROGLYPH AA003=01340F;EGYPTIAN HIEROGLYPH AA012=01341A" \o
      ";EGYPTIAN HIEROGLYPH AA021=013423;EGYPTIAN HIEROGLYPH AA030=01342C" \o
      ";ANATOLIAN HIEROGLYPH A059=014441;ANATOLIAN HIEROGLYPH A068=01444D" \o
      ";ANATOLIAN HIEROGLYPH A077=014456;ANATOLIAN HIEROGLYPH A086=01445F" \o
      ";ANATOLIAN HIEROGLYPH A095=014468;ANATOLIAN HIEROGLYPH A149=0144B0" \o
      ";ANATOLIAN HIEROGLYPH A158=0144B9;ANATOLIAN HIEROGLYPH A167=0144C2" \o
      ";ANATOLIAN HIEROGLYPH A176=0144CB;ANATOLIAN HIEROGLYPH A185=0144D4" \o
      ";ANATOLIAN HIEROGLYPH A194=0144DD;ANATOLIAN HIEROGLYPH A239=014511" \o
      ";ANATOLIAN HIEROGLYPH A248=01451A;ANATOLIAN HIEROGLYPH A257=014523" \o
      ";ANATOLIAN HIEROGLYPH A266=01452C;ANATOLIAN HIEROGLYPH A275=014536" \o
      ";ANATOLIAN HIEROGLYPH A284=01453F;ANATOLIAN HIEROGLYPH A293=014549" \o
      ";ANATOLIAN HIEROGLYPH A329=014570;ANATOLIAN HIEROGLYPH A338=01457F" \o
      ";ANATOLIAN HIEROGLYPH A347=014588;ANATOLIAN HIEROGLYPH A356=014591" \o
      ";ANATOLIAN HIEROGLYPH A365=01459C;ANATOLIAN HIEROGLYPH A374=0145A7" \o
      ";ANATOLIAN HIEROGLYPH A392=0145BC;ANATOLIAN HIEROGLYPH A419=0145D8" \o
      ";ANATOLIAN HIEROGLYPH A428=0145E1;ANATOLIAN HIEROGLYPH A437=0145EA" \o
      ";ANATOLIAN HIEROGLYPH A446=0145F3;ANATOLIAN HIEROGLYPH A455=0145FD" \o
      ";ANATOLIAN HIEROGLYPH A464=014607;ANATOLIAN HIEROGLYPH A473=014610" \o
      ";ANATOLIAN HIEROGLYPH A482=014619;ANATOLIAN HIEROGLYPH A491=014622" \o
      ";ANATOLIAN HIEROGLYPH A509=014631;ANATOLIAN HIEROGLYPH A518=01463A" \o
      ";ANATOLIAN HIEROGLYPH A527=014643;BAMUM LETTER PHASE-A SISA=016823" \o
      ";BAMUM LETTER PHASE-D SHII=016954;BAMUM LETTER PHASE-E NDIQ=01698E" \o
      ";BAMUM LETTER PHASE-E YIEE=016994;BAMUM LETTER PHASE-F PUAE=016A2A" \o
      ";BYZANTINE MUSICAL SYMBOL KLASMA=01D024;MUSICAL SYMBOL COMBINING STACCATISSIMO=01D17E" \o
      ";MAYAN NUMERAL TEN=01D2EA;MATHEMATICAL BOLD SMALL M=01D426" \o
      ";MATHEMATICAL BOLD SCRIPT SMALL X=01D501;MATHEMATICAL MONOSPACE CAPITAL D=01D673" \o
      ";MATHEMATICAL BOLD ITALIC EPSILON SYMBOL=01D750;SIGNWRITING TONGUE CENTRE INSIDE MOUTH=01DA60" \o
      ";NYIAKENG PUACHUE HMONG LETTER FA=01E115;WANCHO DIGIT ZERO=01E2F0" \o
      ";DOMINO TILE VERTICAL-03-06=01F07E;DOMINO TILE VERTICAL-04-05=01F084" \o
      ";DOMINO TILE VERTICAL-05-04=01F08A;DOMINO TILE VERTICAL-06-03=01F090;CITYSCAPE AT DUSK=01F306" \o
      ";VIDEO GAME=01F3AE;HOUSE WITH GARDEN=01F3E1;CHART WITH UPWARDS TREND=01F4C8" \o
      ";BLOCK SEXTANT-3456=01FB39",
    ";HIGH OCTET PRESET=000081;LATIN SMALL LETTER U WITH MACRON=00016B" \o
      ";LATIN CAPITAL LETTER O WITH MIDDLE TILDE=00019F;CYRILLIC SMALL LETTER YU=00044E" \o
      ";ARABIC PIASTRE MARK ABOVE=000891;TAMIL LETTER NNNA=000BA9;TELUGU LETTER CHA=000C1B" \o
      ";THAI CHARACTER THO THAHAN=000E17;TIBETAN DIGIT TWO=000F22;TIBETAN LETTER ZA=000F5F" \o
      ";MYANMAR LETTER LA=00101C;HANGUL CHOSEONG CHITUEUMCHIEUCH=001154;HANGUL JONGSEONG KHIEUKH=0011BF" \o
      ";KHMER SYMBOL DAP-BEI KOET=0019ED;SUMMATION BOTTOM=0023B3;ADI SHAKTI=00262C" \o
      ";LEFT RIGHT TRIANGLE-HEADED ARROW=002B64;HORIZONTAL BLACK OCTAGON=002BC3" \o
      ";WHITE MOON SELENA=002BDD;BOPOMOFO LETTER A=00311A;YI SYLLABLE BBUOP=00A064" \o
      ";YI SYLLABLE NDIEX=00A155;YI SYLLABLE HNIET=00A16C;VAI SYLLABLE THOO=00A580" \o
      ";CYRILLIC SMALL LETTER IOTIFIED A=00A657;SAURASHTRA VOWEL SIGN AU=00A8C3" \o
      ";JAVANESE LETTER U=00A988;HANGUL JONGSEONG YESIEUNG-HIEUH=00D7F6" \o
      ";CJK COMPATIBILITY IDEOGRAPH-FA3F=00FA3F;CJK COMPATIBILITY IDEOGRAPH-FA4E=00FA4E" \o
      ";CJK COMPATIBILITY IDEOGRAPH-FA5D=00FA5D;CJK COMPATIBILITY IDEOGRAPH-FA6C=00FA6C" \o
      ";CJK COMPATIBILITY IDEOGRAPH-FA7B=00FA7B;CJK COMPATIBILITY IDEOGRAPH-FA8A=00FA8A" \o
      ";CJK COMPATIBILITY IDEOGRAPH-FAA8=00FAA8;CJK COMPATIBILITY IDEOGRAPH-FAB7=00FAB7" \o
      ";CJK COMPATIBILITY IDEOGRAPH-FAC6=00FAC6;CJK COMPATIBILITY IDEOGRAPH-FAD5=00FAD5" \o
      ";ARABIC LIGATURE NOON WITH REH FINAL FORM=00FC8A" \o
      ";ARABIC LIGATURE YEH WITH HAH WITH YEH FINAL FORM=00FDAE" \o
      ";GREEK ACROPHONIC THESPIAN THREE HUNDRED=01016B;OSMANYA LETTER EE=01049C" \o
      ";AVESTAN LETTER AO=010B02;AVESTAN LETTER KE=010B10;KAITHI LETTER NYA=011096" \o
      ";MULTANI LETTER GA=011286;TAMIL AND ODD SIGN=011FEB;CUNEIFORM SIGN DU=01207A" \o
      ";CUNEIFORM SIGN LAGAB TIMES ASH ZIDA TENU=0121BF;CUNEIFORM SIGN PI=01227F" \o
      ";CUNEIFORM SIGN TE=0122FC;CUNEIFORM SIGN UD=012313;EGYPTIAN HIEROGLYPH A040A=01302E" \o
      ";EGYPTIAN HIEROGLYPH C002A=01305C;EGYPTIAN HIEROGLYPH AA004=013410" \o
      ";EGYPTIAN HIEROGLYPH AA013=01341B;EGYPTIAN HIEROGLYPH AA022=013424" \o
      ";EGYPTIAN HIEROGLYPH AA031=01342D;ANATOLIAN HIEROGLYPH A069=01444E" \o
      ";ANATOLIAN HIEROGLYPH A078=014457;ANATOLIAN HIEROGLYPH A087=014460" \o
      ";ANATOLIAN HIEROGLYPH A096=014469;ANATOLIAN HIEROGLYPH A159=0144BA" \o
      ";ANATOLIAN HIEROGLYPH A168=0144C3;ANATOLIAN HIEROGLYPH A177=0144CC" \o
      ";ANATOLIAN HIEROGLYPH A186=0144D5;ANATOLIAN HIEROGLYPH A195=0144DE" \o
      ";ANATOLIAN HIEROGLYPH A249=01451B;ANATOLIAN HIEROGLYPH A258=014524" \o
      ";ANATOLIAN HIEROGLYPH A267=01452D;ANATOLIAN HIEROGLYPH A276=014537" \o
      ";ANATOLIAN HIEROGLYPH A285=014540;ANATOLIAN HIEROGLYPH A294=01454A" \o
      ";ANATOLIAN HIEROGLYPH A339=014580;ANATOLIAN HIEROGLYPH A348=014589" \o
      ";ANATOLIAN HIEROGLYPH A357=014592;ANATOLIAN HIEROGLYPH A366=01459D" \o
      ";ANATOLIAN HIEROGLYPH A375=0145A8;ANATOLIAN HIEROGLYPH A384=0145B3" \o
      ";ANATOLIAN HIEROGLYPH A429=0145E2;ANATOLIAN HIEROGLYPH A438=0145EB" \o
      ";ANATOLIAN HIEROGLYPH A447=0145F4;ANATOLIAN HIEROGLYPH A456=0145FE" \o
      ";ANATOLIAN HIEROGLYPH A465=014608;ANATOLIAN HIEROGLYPH A474=014611" \o
      ";ANATOLIAN HIEROGLYPH A483=01461A;ANATOLIAN HIEROGLYPH A492=014623" \o
      ";ANATOLIAN HIEROGLYPH A519=01463B;ANATOLIAN HIEROGLYPH A528=014644" \o
      ";BAMUM LETTER PHASE-D SUAE=016939;BAMUM LETTER PHASE-D KYEE=016956" \o
      ";BAMUM LETTER PHASE-F NTEE=016A20;ZNAMENNY COMBINING MARK GORAZDO VYSOKO=01CF1F" \o
      ";MUSICAL SYMBOL WITH FINGERNAILS=01D1B3;MATHEMATICAL BOLD SMALL N=01D427" \o
      ";MATHEMATICAL BOLD SCRIPT SMALL Y=01D502;MATHEMATICAL MONOSPACE CAPITAL E=01D674" \o
      ";MATHEMATICAL ITALIC CAPITAL ZETA=01D6E7;SIGNWRITING HAND-CUP MIDDLE RING LITTLE=01D8D0" \o
      ";SIGNWRITING HAND-HINGE INDEX THUMB OPEN=01D8EE;SIGNWRITING SQUEEZE SEQUENTIAL=01D91A" \o
      ";NYIAKENG PUACHUE HMONG LETTER GA=01E122;INDIC SIYAQ NUMBER EIGHT HUNDRED=01EC8A" \o
      ";DOMINO TILE VERTICAL-04-06=01F085;DOMINO TILE VERTICAL-05-05=01F08B" \o
      ";DOMINO TILE VERTICAL-06-04=01F091;BOTTLE WITH POPPING CORK=01F37E" \o
      ";WHITE UP POINTING BACKHAND INDEX=01F446;CARD INDEX=01F4C7;SYNAGOGUE=01F54D;POLICE CAR=01F693" \o
      ";BLACK TINY SQUARE=01F78C;CLOWN FACE=01F921;LYING FACE=01F925",
    ";GREATER-THAN SIGN=00003E;LATIN CAPITAL LETTER A WITH DOUBLE GRAVE=000200" \o
      ";LATIN SMALL LETTER ESH WITH CURL=000286;HEBREW LETTER QOF=0005E7;TELUGU LETTER DHA=000C27" \o
      ";MYANMAR LETTER MA=001019;CANADIAN SYLLABICS WEST-CREE SWE=0014F7" \o
      ";COMBINING DOUBLE PLUS SIGN ABOVE=001AC9;CYRILLIC LETTER SMALL CAPITAL EL=001D2B" \o
      ";GREEK CAPITAL LETTER EPSILON WITH PSILI=001F18;ROMAN NUMERAL ONE=002160" \o
      ";APL FUNCTIONAL SYMBOL QUAD GREATER-THAN=002344;DISCONTINUOUS UNDERLINE SYMBOL=002382" \o
      ";MALE WITH STROKE AND MALE AND FEMALE SIGN=0026A7;LEFTWARDS ARROW TO BLACK DIAMOND=00291D" \o
      ";IDEOGRAPHIC DESCRIPTION CHARACTER SURROUND FROM ABOVE=002FF5;BOPOMOFO LETTER B=003105" \o
      ";CIRCLED KATAKANA A=0032D0;SQUARE GURAMUTON=003319;CYRILLIC CAPITAL LETTER DOUBLE O=00A698" \o
      ";SAURASHTRA CONSONANT SIGN HAARU=00A8B4;JAVANESE VOWEL SIGN SUKU=00A9B8" \o
      ";LATIN SMALL LETTER BLACKLETTER E=00AB32;CJK COMPATIBILITY IDEOGRAPH-F9AA=00F9AA" \o
      ";CJK COMPATIBILITY IDEOGRAPH-FA4F=00FA4F;CJK COMPATIBILITY IDEOGRAPH-FA5E=00FA5E" \o
      ";CJK COMPATIBILITY IDEOGRAPH-FA6D=00FA6D;CJK COMPATIBILITY IDEOGRAPH-FA7C=00FA7C" \o
      ";CJK COMPATIBILITY IDEOGRAPH-FA8B=00FA8B;CJK COMPATIBILITY IDEOGRAPH-FA9A=00FA9A" \o
      ";CJK COMPATIBILITY IDEOGRAPH-FAA9=00FAA9;CJK COMPATIBILITY IDEOGRAPH-FAB8=00FAB8" \o
      ";CJK COMPATIBILITY IDEOGRAPH-FAC7=00FAC7;CJK COMPATIBILITY IDEOGRAPH-FAD6=00FAD6" \o
      ";SMALL NUMBER SIGN=00FE5F;FULLWIDTH LESS-THAN SIGN=00FF1C;OSMANYA LETTER JA=010483" \o
      ";VITHKUQI SMALL LETTER PE=0105AF;MODIFIER LETTER SMALL LEZH WITH RETROFLEX HOOK=01079F" \o
      ";MANICHAEAN PUNCTUATION TWO DOTS=010AF5;AVESTAN LETTER LE=010B2E;KAITHI LETTER TTA=011097" \o
      ";MULTANI LETTER HA=0112A6;GRANTHA LETTER OO=011313;TIRHUTA LETTER AA=011482" \o
      ";WARANG CITI NUMBER SIXTY=0118EF;SOYOMBO MARK SHAD=011A9B;CUNEIFORM SIGN AN OVER AN=01202E" \o
      ";CUNEIFORM SIGN NINDA2 TIMES ASH PLUS ASH=012255" \o
      ";CUNEIFORM NUMERIC SIGN ONE THIRD VARIANT FORM A=01245D;EGYPTIAN HIEROGLYPH A005A=013005" \o
      ";EGYPTIAN HIEROGLYPH A014A=013011;EGYPTIAN HIEROGLYPH A032A=013025" \o
      ";EGYPTIAN HIEROGLYPH C002B=01305D;EGYPTIAN HIEROGLYPH AA005=013411" \o
      ";EGYPTIAN HIEROGLYPH AA014=01341C;EGYPTIAN HIEROGLYPH AA023=013425" \o
      ";EGYPTIAN HIEROGLYPH AA032=01342E;ANATOLIAN HIEROGLYPH A079=014458" \o
      ";ANATOLIAN HIEROGLYPH A088=014461;ANATOLIAN HIEROGLYPH A097=01446A" \o
      ";ANATOLIAN HIEROGLYPH A169=0144C4;ANATOLIAN HIEROGLYPH A178=0144CD" \o
      ";ANATOLIAN HIEROGLYPH A187=0144D6;ANATOLIAN HIEROGLYPH A196=0144DF" \o
      ";ANATOLIAN HIEROGLYPH A259=014525;ANATOLIAN HIEROGLYPH A268=01452F" \o
      ";ANATOLIAN HIEROGLYPH A277=014538;ANATOLIAN HIEROGLYPH A286=014541" \o
      ";ANATOLIAN HIEROGLYPH A295=01454C;ANATOLIAN HIEROGLYPH A349=01458A" \o
      ";ANATOLIAN HIEROGLYPH A358=014593;ANATOLIAN HIEROGLYPH A367=01459E" \o
      ";ANATOLIAN HIEROGLYPH A376=0145A9;ANATOLIAN HIEROGLYPH A385=0145B4" \o
      ";ANATOLIAN HIEROGLYPH A394=0145BE;ANATOLIAN HIEROGLYPH A439=0145EC" \o
      ";ANATOLIAN HIEROGLYPH A448=0145F5;ANATOLIAN HIEROGLYPH A457=0145FF" \o
      ";ANATOLIAN HIEROGLYPH A466=014609;ANATOLIAN HIEROGLYPH A475=014612" \o
      ";ANATOLIAN HIEROGLYPH A484=01461B;ANATOLIAN HIEROGLYPH A493=014624" \o
      ";ANATOLIAN HIEROGLYPH A529=014645;BAMUM LETTER PHASE-B NGOM=01688E" \o
      ";BAMUM LETTER PHASE-D NDON=016918;BAMUM LETTER PHASE-F SHII=016A13" \o
      ";BYZANTINE MUSICAL SYMBOL TROMIKON ALLO=01D043;MATHEMATICAL BOLD SMALL O=01D428" \o
      ";MATHEMATICAL BOLD SCRIPT SMALL Z=01D503;MATHEMATICAL MONOSPACE CAPITAL F=01D675" \o
      ";SIGNWRITING ROTATION MODIFIER-2=01DAA1;NYIAKENG PUACHUE HMONG LETTER HA=01E104" \o
      ";ARABIC MATHEMATICAL GHAIN=01EE1B;DOMINO TILE VERTICAL-05-06=01F08C" \o
      ";DOMINO TILE VERTICAL-06-05=01F092;AMERICAN FOOTBALL=01F3C8" \o
      ";SIX POINTED STAR WITH MIDDLE DOT=01F52F;MANTELPIECE CLOCK=01F570;DISAPPOINTED FACE=01F61E" \o
      ";SHOPPING TROLLEY=01F6D2;BOLD WHITE SQUARE=01F790",
    ";LOCKING-SHIFT ONE=00000E;MODIFIER LETTER LOW GRAVE ACCENT=0002CE" \o
      ";CYRILLIC SMALL LETTER BASHKIR KA=0004A1;CYRILLIC CAPITAL LETTER KOMI LJE=000508" \o
      ";ARABIC BASELINE ROUND DOT=000887;MYANMAR LETTER NA=001014" \o
      ";CANADIAN SYLLABICS WEST-CREE PWI=00143D;CANADIAN SYLLABICS WEST-CREE TWE=001458" \o
      ";HANUNOO LETTER KA=001723;NEW TAI LUE VOWEL SIGN OY=0019BD;TAI THAM SIGN KAAN=001AA8" \o
      ";LATIN SMALL LETTER LONG S WITH DOT ABOVE=001E9B" \o
      ";GREEK SMALL LETTER EPSILON WITH PSILI AND VARIA=001F12;LOGICAL AND WITH HORIZONTAL DASH=002A5C" \o
      ";CAPITULUM=002E3F;BOPOMOFO LETTER C=003118;HANGUL LETTER SSANGCIEUC=003149" \o
      ";HANGUL LETTER RIEUL-KIYEOK-SIOS=003169;YI SYLLABLE HLIEX=00A19B;YI SYLLABLE MGIEX=00A230" \o
      ";YI SYLLABLE JJIEX=00A41D;YI SYLLABLE NJIET=00A435;JAVANESE PADA ADEG=00A9CA" \o
      ";CJK COMPATIBILITY IDEOGRAPH-F9AB=00F9AB;CJK COMPATIBILITY IDEOGRAPH-F9BA=00F9BA" \o
      ";CJK COMPATIBILITY IDEOGRAPH-FA5F=00FA5F;CJK COMPATIBILITY IDEOGRAPH-FA7D=00FA7D" \o
      ";CJK COMPATIBILITY IDEOGRAPH-FA8C=00FA8C;CJK COMPATIBILITY IDEOGRAPH-FA9B=00FA9B" \o
      ";CJK COMPATIBILITY IDEOGRAPH-FAB9=00FAB9;CJK COMPATIBILITY IDEOGRAPH-FAC8=00FAC8" \o
      ";CJK COMPATIBILITY IDEOGRAPH-FAD7=00FAD7;HEBREW LETTER SHIN WITH SHIN DOT=00FB2A" \o
      ";ARABIC LIGATURE BEH WITH ALEF MAKSURA FINAL FORM=00FC6E" \o
      ";ARABIC LIGATURE TEH WITH NOON FINAL FORM=00FC73;AVESTAN LETTER II=010B0D" \o
      ";AVESTAN LETTER ME=010B28;OLD HUNGARIAN CAPITAL LETTER ELY=010C97;KHOJKI SIGN NUKTA=011236" \o
      ";TIRHUTA LETTER BA=0114A5;TIRHUTA DIGIT ONE=0114D1;SIDDHAM LETTER UU=011585" \o
      ";MODI VOWEL SIGN VOCALIC L=011637;MASARAM GONDI LETTER DDHA=011D19" \o
      ";GUNJALA GONDI LETTER DDHA=011D83;TAMIL FRACTION THREE TWENTIETHS=011FCD" \o
      ";TAMIL FRACTION THREE SIXTEENTHS=011FCE;CUNEIFORM SIGN IR=012155;CUNEIFORM SIGN RI=012291" \o
      ";CUNEIFORM SIGN ZA=01235D;CUNEIFORM NUMERIC SIGN THREE VARIANT FORM ESH16=01243A" \o
      ";EGYPTIAN HIEROGLYPH A006A=013007;EGYPTIAN HIEROGLYPH A042A=013031" \o
      ";EGYPTIAN HIEROGLYPH B005A=013055;EGYPTIAN HIEROGLYPH C002C=01305E" \o
      ";EGYPTIAN HIEROGLYPH E020A=0130EA;EGYPTIAN HIEROGLYPH F001A=0130FF" \o
      ";EGYPTIAN HIEROGLYPH AA006=013412;EGYPTIAN HIEROGLYPH AA015=01341D" \o
      ";EGYPTIAN HIEROGLYPH AA024=013426;ANATOLIAN HIEROGLYPH A089=014462" \o
      ";ANATOLIAN HIEROGLYPH A098=01446C;ANATOLIAN HIEROGLYPH A179=0144CE" \o
      ";ANATOLIAN HIEROGLYPH A188=0144D7;ANATOLIAN HIEROGLYPH A197=0144E0" \o
      ";ANATOLIAN HIEROGLYPH A269=014530;ANATOLIAN HIEROGLYPH A278=014539" \o
      ";ANATOLIAN HIEROGLYPH A287=014542;ANATOLIAN HIEROGLYPH A296=01454D" \o
      ";ANATOLIAN HIEROGLYPH A359=014594;ANATOLIAN HIEROGLYPH A368=01459F" \o
      ";ANATOLIAN HIEROGLYPH A377=0145AA;ANATOLIAN HIEROGLYPH A386=0145B5" \o
      ";ANATOLIAN HIEROGLYPH A395=0145BF;ANATOLIAN HIEROGLYPH A449=0145F6" \o
      ";ANATOLIAN HIEROGLYPH A458=014601;ANATOLIAN HIEROGLYPH A467=01460A" \o
      ";ANATOLIAN HIEROGLYPH A476=014613;ANATOLIAN HIEROGLYPH A485=01461C" \o
      ";ANATOLIAN HIEROGLYPH A494=014625;BAMUM LETTER PHASE-A NTAP=01683F" \o
      ";BAMUM LETTER PHASE-C NGGU=0168CA;BAMUM LETTER PHASE-C NGOM=0168D0" \o
      ";BAMUM LETTER PHASE-D MFON=0168F4;BAMUM LETTER PHASE-E TUAE=016996" \o
      ";BAMUM LETTER PHASE-F KYEE=016A16;MATHEMATICAL BOLD SMALL P=01D429" \o
      ";MATHEMATICAL MONOSPACE CAPITAL G=01D676;SIGNWRITING MOVEMENT-WALLPLANE FINGER CONTACT=01D928" \o
      ";SIGNWRITING ROTATION MODIFIER-3=01DAA2;NYIAKENG PUACHUE HMONG LETTER EE=01E12B" \o
      ";WANCHO LETTER ONG=01E2E2;MENDE KIKAKUI DIGIT EIGHT=01E8CE;OTTOMAN SIYAQ NUMBER ONE=01ED01" \o
      ";DOMINO TILE VERTICAL-06-06=01F093;WIDE-HEADED SOUTH EAST MEDIUM BARB ARROW=01F876" \o
      ";TEDDY BEAR=01F9F8",
    ";LATIN SMALL LETTER U WITH OGONEK=000173;COMBINING ASTERISK BELOW=000359" \o
      ";DEVANAGARI VOWEL SIGN VOCALIC RR=000944;ORIYA SIGN VIRAMA=000B4D" \o
      ";CANADIAN SYLLABICS WEST-CREE KWO=00147B;CANADIAN SYLLABICS WEST-CREE YWA=00153A" \o
      ";OGHAM LETTER MUIN=00168B;HANUNOO LETTER LA=00172E;SUNDANESE SIGN PANGWISAD=001B82" \o
      ";LATIN CAPITAL LETTER Y WITH LOOP=001EFE;GREEK CAPITAL LETTER UPSILON WITH VARIA=001FEA" \o
      ";GERMAN PENNY SIGN=0020B0;WHITE CHESS QUEEN=002655;HEAVY GREEK CROSS=00271A" \o
      ";BLACK-FEATHERED NORTH EAST ARROW=0027B6" \o
      ";UPWARDS HARPOON WITH BARB LEFT BESIDE UPWARDS HARPOON WITH BARB RIGHT=002963" \o
      ";BLACK HORIZONTAL ELLIPSE=002B2C;CROSS PATTY WITH RIGHT CROSSBAR=002E50;BOPOMOFO LETTER D=003109" \o
      ";SQUARE KIROWATTO=003317;YI SYLLABLE HMIEX=00A095;YI SYLLABLE NGIEX=00A25D" \o
      ";MODIFIER LETTER DOT VERTICAL BAR=00A717;LATIN CAPITAL LETTER C WITH PALATAL HOOK=00A7C4" \o
      ";CJK COMPATIBILITY IDEOGRAPH-F9AC=00F9AC;CJK COMPATIBILITY IDEOGRAPH-F9BB=00F9BB" \o
      ";CJK COMPATIBILITY IDEOGRAPH-F9CA=00F9CA;CJK COMPATIBILITY IDEOGRAPH-FA7E=00FA7E" \o
      ";CJK COMPATIBILITY IDEOGRAPH-FA8D=00FA8D;CJK COMPATIBILITY IDEOGRAPH-FA9C=00FA9C" \o
      ";CJK COMPATIBILITY IDEOGRAPH-FAC9=00FAC9;CJK COMPATIBILITY IDEOGRAPH-FAD8=00FAD8" \o
      ";SMALL EQUALS SIGN=00FE66;ARABIC LETTER NOON ISOLATED FORM=00FEE5" \o
      ";PHAISTOS DISC SIGN TATTOOED HEAD=0101D2;COMBINING OLD PERMIC LETTER ZATA=010378" \o
      ";VITHKUQI SMALL LETTER RE=0105B1;MODIFIER LETTER SMALL DZ DIGRAPH=010787" \o
      ";AVESTAN LETTER NE=010B25;MULTANI LETTER JA=01128C;TIRHUTA LETTER CA=011494" \o
      ";MASARAM GONDI DIGIT EIGHT=011D58;GUNJALA GONDI DIGIT EIGHT=011DA8" \o
      ";TAMIL FRACTION ONE SIXTY-FOURTH=011FC3;TAMIL IN POSSESSION SIGN=011FEE;CUNEIFORM SIGN GU=012116" \o
      ";CUNEIFORM SIGN PI TIMES A=012280;CUNEIFORM SIGN SI=0122DB" \o
      ";CUNEIFORM NUMERIC SIGN FOUR VARIANT FORM LIMMU=01243C;EGYPTIAN HIEROGLYPH A006B=013008" \o
      ";EGYPTIAN HIEROGLYPH A043A=013033;EGYPTIAN HIEROGLYPH D031A=013097" \o
      ";EGYPTIAN HIEROGLYPH AA007=013413;EGYPTIAN HIEROGLYPH AA016=01341E" \o
      ";EGYPTIAN HIEROGLYPH AA025=013427;ANATOLIAN HIEROGLYPH A099=01446E" \o
      ";ANATOLIAN HIEROGLYPH A189=0144D8;ANATOLIAN HIEROGLYPH A198=0144E1" \o
      ";ANATOLIAN HIEROGLYPH A279=01453A;ANATOLIAN HIEROGLYPH A288=014543" \o
      ";ANATOLIAN HIEROGLYPH A297=01454E;ANATOLIAN HIEROGLYPH A369=0145A1" \o
      ";ANATOLIAN HIEROGLYPH A378=0145AB;ANATOLIAN HIEROGLYPH A387=0145B7" \o
      ";ANATOLIAN HIEROGLYPH A396=0145C0;ANATOLIAN HIEROGLYPH A459=014602" \o
      ";ANATOLIAN HIEROGLYPH A468=01460B;ANATOLIAN HIEROGLYPH A477=014614" \o
      ";ANATOLIAN HIEROGLYPH A486=01461D;ANATOLIAN HIEROGLYPH A495=014626" \o
      ";BAMUM LETTER PHASE-C KEUM=0168E2;SHORTHAND FORMAT UP STEP=01BCA3" \o
      ";MATHEMATICAL BOLD SMALL Q=01D42A;MATHEMATICAL MONOSPACE CAPITAL H=01D677" \o
      ";SIGNWRITING ROTATION MODIFIER-4=01DAA3;SAXOPHONE=01F3B7;NEWSPAPER=01F4F0;ROBOT FACE=01F916",
    ";BROKEN BAR=0000A6;MIDDLE DOT=0000B7;LATIN SMALL LETTER Y WITH MACRON=000233" \o
      ";COMBINING FERMATA=000352;CYRILLIC SMALL LETTER IOTIFIED E=000465" \o
      ";CYRILLIC CAPITAL LETTER KOMI NJE=00050A;BENGALI CURRENCY NUMERATOR FOUR=0009F7" \o
      ";GUJARATI LETTER O=000A93;ORIYA DIGIT SEVEN=000B6D;TELUGU LETTER GHA=000C18" \o
      ";MYANMAR LETTER PA=001015;CANADIAN SYLLABICS WEST-CREE LWO=0014E3;HANUNOO LETTER MA=00172B" \o
      ";NEW TAI LUE VOWEL SIGN UU=0019B4;SUNDANESE SIGN PANGLAYAR=001B81;OL CHIKI DIGIT ONE=001C51" \o
      ";INVERTED OHM SIGN=002127;MONOGRAM FOR YANG=00268A;LEFT-HANDED INTERLACED PENTAGRAM=0026E6" \o
      ";MATHEMATICAL RIGHT WHITE SQUARE BRACKET=0027E7" \o
      ";LEFTWARDS HARPOON WITH BARB UP ABOVE LEFTWARDS HARPOON WITH BARB DOWN=002962" \o
      ";ERROR-BARRED BLACK CIRCLE=0029F3;LATIN SMALL LETTER A WITH STROKE=002C65" \o
      ";COPTIC COMBINING SPIRITUS ASPER=002CF0;COPTIC COMBINING SPIRITUS LENIS=002CF1" \o
      ";BOPOMOFO LETTER E=00311C;HANGUL LETTER PIEUP-SIOS-KIYEOK=003174;SQUARE CM SQUARED=0033A0" \o
      ";YI SYLLABLE DDUOP=00A143;YI SYLLABLE HNIEX=00A16D;KAYAH LI DIGIT ONE=00A901" \o
      ";KAYAH LI LETTER BA=00A919;CJK COMPATIBILITY IDEOGRAPH-F9AD=00F9AD" \o
      ";CJK COMPATIBILITY IDEOGRAPH-F9BC=00F9BC;CJK COMPATIBILITY IDEOGRAPH-F9CB=00F9CB" \o
      ";CJK COMPATIBILITY IDEOGRAPH-F9DA=00F9DA;CJK COMPATIBILITY IDEOGRAPH-FA7F=00FA7F" \o
      ";CJK COMPATIBILITY IDEOGRAPH-FA8E=00FA8E;CJK COMPATIBILITY IDEOGRAPH-FA9D=00FA9D" \o
      ";CJK COMPATIBILITY IDEOGRAPH-FAD9=00FAD9;ARABIC LIGATURE HAH WITH ALEF MAKSURA FINAL FORM=00FD1B" \o
      ";AEGEAN NUMBER ONE HUNDRED=010119;GREEK ACROPHONIC CARYSTIAN FIVE HUNDRED=01016F" \o
      ";OSAGE CAPITAL LETTER EHKA=0104BD;VITHKUQI SMALL LETTER SE=0105B3" \o
      ";MODIFIER LETTER SMALL LS DIGRAPH=010799;HATRAN LETTER AYN=0108EF" \o
      ";MEROITIC HIEROGLYPHIC LETTER TO=01099C;OLD HUNGARIAN CAPITAL LETTER ENY=010C9A" \o
      ";YEZIDI LETTER SAD=010E93;YEZIDI LETTER QAF=010E9C;BRAHMI NUMBER TWO=011053" \o
      ";SINHALA ARCHAIC DIGIT TWO=0111E2;MULTANI LETTER KA=011284;NEWA VOWEL SIGN VOCALIC L=01143C" \o
      ";TIRHUTA LETTER DA=0114A0;CUNEIFORM SIGN HU=012137" \o
      ";CUNEIFORM SIGN LAGAB TIMES SHITA PLUS GISH TENU=0121DE;CUNEIFORM SIGN TI=0122FE" \o
      ";CUNEIFORM NUMERIC SIGN EIGHT VARIANT FORM USSU=012444;CUNEIFORM SIGN DUG TIMES SI GUNU=0124A8" \o
      ";EGYPTIAN HIEROGLYPH A017A=013015;EGYPTIAN HIEROGLYPH D050A=0130AE" \o
      ";EGYPTIAN HIEROGLYPH F021A=013115;EGYPTIAN HIEROGLYPH G011A=01314D" \o
      ";EGYPTIAN HIEROGLYPH G020A=013157;EGYPTIAN HIEROGLYPH AA008=013416" \o
      ";EGYPTIAN HIEROGLYPH AA017=01341F;EGYPTIAN HIEROGLYPH AA026=013428" \o
      ";ANATOLIAN HIEROGLYPH A199=0144E2;ANATOLIAN HIEROGLYPH A289=014544" \o
      ";ANATOLIAN HIEROGLYPH A298=01454F;ANATOLIAN HIEROGLYPH A379=0145AC" \o
      ";ANATOLIAN HIEROGLYPH A388=0145B8;ANATOLIAN HIEROGLYPH A397=0145C1" \o
      ";ANATOLIAN HIEROGLYPH A469=01460C;ANATOLIAN HIEROGLYPH A478=014615" \o
      ";ANATOLIAN HIEROGLYPH A487=01461E;ANATOLIAN HIEROGLYPH A496=014627" \o
      ";BAMUM LETTER PHASE-B NSEN=01688B;BAMUM LETTER PHASE-D KEUM=016926;TANGSA LETTER NYA=016AA8" \o
      ";TANGSA LETTER TSA=016AB6;DUPLOYAN LETTER SLOAN ON=01BC69" \o
      ";BYZANTINE MUSICAL SYMBOL FTHORA DIATONIKI NANA=01D0BB;MUSICAL SYMBOL CIRCLE X NOTEHEAD=01D145" \o
      ";MATHEMATICAL BOLD SMALL R=01D42B;MATHEMATICAL MONOSPACE CAPITAL I=01D678" \o
      ";SIGNWRITING ROTATION MODIFIER-5=01DAA4;NYIAKENG PUACHUE HMONG LETTER KA=01E10E" \o
      ";ADLAM CAPITAL LETTER JIIM=01E914;PLAYING CARD TWO OF CLUBS=01F0D2" \o
      ";RIGHT-POINTING MAGNIFYING GLASS=01F50E;SOUTH WEST POINTING LEAF=01F651" \o
      ";ARROW POINTING UPWARDS THEN NORTH WEST=01F8B0;CROISSANT=01F950;STUFFED FLATBREAD=01F959" \o
      ";WHITE CHESS PAWN ROTATED NINETY DEGREES=01FA0E",
    ";LATIN SMALL LETTER B WITH STROKE=000180;LATIN CAPITAL LETTER E WITH DOUBLE GRAVE=000204" \o
      ";HEBREW ACCENT ZAQEF QATAN=000594;ARABIC LETTER ALEF WITH WAVY HAMZA BELOW=000673" \o
      ";SAMARITAN LETTER SINGAAT=00080E;GURMUKHI EK ONKAR=000A74;KANNADA LETTER VOCALIC LL=000CE1" \o
      ";MYANMAR LETTER II=001024;CANADIAN SYLLABICS WEST-CREE MWO=0014B3" \o
      ";CANADIAN SYLLABICS WEST-CREE SWI=0014F9;HANUNOO LETTER NA=001728;TAI THAM SIGN HANG=001AAC" \o
      ";COMBINING LATIN SMALL LETTER ESH=001DEF;COMBINING LEFT RIGHT ARROW ABOVE=0020E1" \o
      ";OCR INVERTED FORK=002443;BLACK STAR=002605;LEFT CLOSED ENTRY=0026DC;BOPOMOFO LETTER F=003108" \o
      ";HANGUL LETTER MIEUM-SIOS=00316F;CIRCLED KATAKANA E=0032D3;SQUARE DM SQUARED=003378" \o
      ";HEXAGRAM FOR DEVELOPMENT=004DF4;MODIFIER LETTER RAISED EXCLAMATION MARK=00A71D" \o
      ";KAYAH LI LETTER CA=00A921;CJK COMPATIBILITY IDEOGRAPH-F9AE=00F9AE" \o
      ";CJK COMPATIBILITY IDEOGRAPH-F9BD=00F9BD;CJK COMPATIBILITY IDEOGRAPH-F9CC=00F9CC" \o
      ";CJK COMPATIBILITY IDEOGRAPH-F9DB=00F9DB;CJK COMPATIBILITY IDEOGRAPH-F9EA=00F9EA" \o
      ";CJK COMPATIBILITY IDEOGRAPH-FA8F=00FA8F;CJK COMPATIBILITY IDEOGRAPH-FA9E=00FA9E" \o
      ";ARABIC LIGATURE KAF WITH ALEF MAKSURA FINAL FORM=00FC83;SHAVIAN LETTER ON=01046A" \o
      ";VITHKUQI SMALL LETTER TE=0105B5;AVESTAN LETTER PE=010B1E;YEZIDI LETTER CIM=010E86" \o
      ";MULTANI LETTER LA=0112A3;CUNEIFORM SIGN NI TIMES E=01224D" \o
      ";CUNEIFORM SIGN NINDA2 TIMES SHE PLUS ASH=01225C;EGYPTIAN HIEROGLYPH A045A=013036" \o
      ";EGYPTIAN HIEROGLYPH D050B=0130AF;EGYPTIAN HIEROGLYPH F013A=01310C" \o
      ";EGYPTIAN HIEROGLYPH F031A=013120;EGYPTIAN HIEROGLYPH I010A=013194" \o
      ";EGYPTIAN HIEROGLYPH AA009=013417;EGYPTIAN HIEROGLYPH AA018=013420" \o
      ";EGYPTIAN HIEROGLYPH AA027=013429;ANATOLIAN HIEROGLYPH A299=014550" \o
      ";ANATOLIAN HIEROGLYPH A389=0145B9;ANATOLIAN HIEROGLYPH A398=0145C2" \o
      ";ANATOLIAN HIEROGLYPH A479=014616;ANATOLIAN HIEROGLYPH A488=01461F" \o
      ";ANATOLIAN HIEROGLYPH A497=014628;BAMUM LETTER PHASE-D MBUO=0168F1" \o
      ";BAMUM LETTER PHASE-D MONI=016919;BAMUM LETTER PHASE-D LEUM=016944" \o
      ";BAMUM LETTER PHASE-E PIET=0169CD;TANGSA LETTER AWQ=016A8A;DUPLOYAN AFFIX LOW ARROW=01BC99" \o
      ";ZNAMENNY COMBINING LOWER TONAL RANGE INDICATOR=01CF41;MATHEMATICAL BOLD SMALL S=01D42C" \o
      ";MATHEMATICAL MONOSPACE CAPITAL J=01D679;SIGNWRITING HAND-FLAT FOUR FINGERS BENT=01D845" \o
      ";SIGNWRITING HEAD MOVEMENT-FLOORPLANE STRAIGHT=01DA03" \o
      ";SIGNWRITING EYEGAZE-WALLPLANE CIRCLING=01DA29;SIGNWRITING ROTATION MODIFIER-6=01DAA5" \o
      ";NYIAKENG PUACHUE HMONG LETTER LA=01E109;WANCHO LETTER TRA=01E2E1;WEARY FACE=01F629",
    ";DC1=000011;LATIN CAPITAL LETTER O WITH DOT ABOVE AND MACRON=000230" \o
      ";LATIN SMALL LETTER C WITH STROKE=00023C;LATIN SMALL LETTER OPEN E=00025B" \o
      ";GREEK CAPITAL LETTER BETA=000392;CYRILLIC CAPITAL LETTER STRAIGHT U WITH STROKE=0004B0" \o
      ";CYRILLIC SMALL LETTER ZE WITH DIAERESIS=0004DF;ARMENIAN SMALL LIGATURE ECH YIWN=000587" \o
      ";HEBREW LETTER TAV=0005EA;ARABIC LETTER LAM WITH DOUBLE BAR=0008A6;BENGALI GANDA MARK=0009FB" \o
      ";MYANMAR LETTER RA=00101B;MYANMAR CONSONANT SIGN MEDIAL RA=00103C" \o
      ";CANADIAN SYLLABICS WEST-CREE TWI=00145A;OGHAM LETTER GORT=00168C;KHMER LETTER TTHA=00178B" \o
      ";LIMBU LETTER GYAN=00191D;BALINESE LETTER KAF SASAK=001B45" \o
      ";SUNDANESE VOWEL SIGN PANEULEUNG=001BA9;COMBINING LATIN SMALL LETTER ETH=001DD9" \o
      ";GREEK SMALL LETTER ETA WITH PERISPOMENI=001FC6;ROMAN NUMERAL TEN=002169;ASSERTION=0022A6" \o
      ";HOURGLASS=00231B;BOX DRAWINGS DOUBLE DOWN AND HORIZONTAL=002566" \o
      ";PARTIALLY-RECYCLED PAPER SYMBOL=00267D;OPHIUCHUS=0026CE;CJK RADICAL BAMBOO=002EAE" \o
      ";BOPOMOFO LETTER G=00310D;YI SYLLABLE HXIEP=00A24D;YI SYLLABLE NJIEX=00A436" \o
      ";VAI SYLLABLE ZHOO=00A58A;KAYAH LI LETTER DA=00A918;JAVANESE VOWEL SIGN WULU=00A9B6" \o
      ";CJK COMPATIBILITY IDEOGRAPH-F9AF=00F9AF;CJK COMPATIBILITY IDEOGRAPH-F9BE=00F9BE" \o
      ";CJK COMPATIBILITY IDEOGRAPH-F9CD=00F9CD;CJK COMPATIBILITY IDEOGRAPH-F9DC=00F9DC" \o
      ";CJK COMPATIBILITY IDEOGRAPH-F9EB=00F9EB;CJK COMPATIBILITY IDEOGRAPH-F9FA=00F9FA" \o
      ";CJK COMPATIBILITY IDEOGRAPH-FA9F=00FA9F;ARABIC SYMBOL TWO DOTS VERTICALLY ABOVE=00FBBD" \o
      ";ARABIC LIGATURE FEH WITH ALEF MAKSURA FINAL FORM=00FC7C" \o
      ";MEROITIC CURSIVE FRACTION SIX TWELFTHS=0109FB;OLD HUNGARIAN CAPITAL LETTER UNK=010C95" \o
      ";YEZIDI LETTER LAM=010EA0;KHOJKI LETTER NYA=011213;MULTANI LETTER MA=0112A0;NEWA COMMA=01144D" \o
      ";TAMIL SIGN CEVITU=011FD6;EGYPTIAN HIEROGLYPH D034A=01309B;EGYPTIAN HIEROGLYPH D050C=0130B0" \o
      ";EGYPTIAN HIEROGLYPH D052A=0130B9;EGYPTIAN HIEROGLYPH I011A=013196" \o
      ";EGYPTIAN HIEROGLYPH AA019=013421;EGYPTIAN HIEROGLYPH AA028=01342A" \o
      ";ANATOLIAN HIEROGLYPH A399=0145C3;ANATOLIAN HIEROGLYPH A489=014620" \o
      ";BAMUM LETTER PHASE-C NTEN=0168D4;BAMUM LETTER PHASE-C SHIQ=0168E8" \o
      ";BAMUM LETTER PHASE-E NTAP=0169CE;MIAO LETTER TLHYA=016F1C" \o
      ";ZNAMENNY COMBINING MARK CHASHKA POLNAYA=01CF39;MUSICAL SYMBOL SCANDICUS FLEXUS=01D1DB" \o
      ";MATHEMATICAL BOLD SMALL T=01D42D;MATHEMATICAL MONOSPACE CAPITAL K=01D67A" \o
      ";MATHEMATICAL SANS-SERIF BOLD CAPITAL CHI=01D76C" \o
      ";SIGNWRITING ROTATION-FLOORPLANE DOUBLE HITTING FLOOR=01D9D3" \o
      ";SIGNWRITING ROTATION MODIFIER-7=01DAA6;NYIAKENG PUACHUE HMONG LETTER MA=01E100" \o
      ";WANCHO LETTER TSA=01E2E0;WANCHO LETTER NYA=01E2E9;WANCHO LETTER UEN=01E2EA" \o
      ";MENDE KIKAKUI COMBINING NUMBER MILLIONS=01E8D6;INDIC SIYAQ NUMBER SIXTY=01EC7F" \o
      ";INDIC SIYAQ NUMBER PREFIXED FIVE=01ECA7;INDIC SIYAQ NUMBER PREFIXED NINE=01ECAB" \o
      ";WIND CHIME=01F390;MOUSE FACE=01F42D;COUPLE WITH HEART=01F491;NON-POTABLE WATER SYMBOL=01F6B1",
    ";DC2=000012;LATIN SMALL LETTER D WITH STROKE=000111;HEBREW LETTER YOD=0005D9" \o
      ";ARABIC LETTER ALEF WITH ATTACHED TOP RIGHT FATHA=000871;TELUGU LETTER JHA=000C1D" \o
      ";MYANMAR LETTER SA=00101E;CANADIAN SYLLABICS WEST-CREE WOO=001415" \o
      ";CANADIAN SYLLABICS WEST-CREE YWE=001530;OGHAM LETTER LUIS=001682;HANUNOO LETTER PA=001729" \o
      ";BALINESE LETTER NA RAMBAT=001B21;CLOSED INTERSECTION WITH SERIFS=002A4D" \o
      ";BOPOMOFO LETTER H=00310F;HANGUL LETTER NIEUN-SIOS=003167;HANGUL LETTER SIOS-NIEUN=00317B" \o
      ";IDEOGRAPHIC TELEGRAPH SYMBOL FOR HOUR THIRTEEN=003365;YI SYLLABLE CHUOP=00A368" \o
      ";LATIN SMALL LETTER CUATRILLO WITH COMMA=00A72F;CHAM VOWEL SIGN AA=00AA29" \o
      ";CJK COMPATIBILITY IDEOGRAPH-F9BF=00F9BF;CJK COMPATIBILITY IDEOGRAPH-F9CE=00F9CE" \o
      ";CJK COMPATIBILITY IDEOGRAPH-F9DD=00F9DD;CJK COMPATIBILITY IDEOGRAPH-F9EC=00F9EC" \o
      ";CJK COMPATIBILITY IDEOGRAPH-F9FB=00F9FB;ARABIC LIGATURE NOON WITH YEH FINAL FORM=00FC8F" \o
      ";ARABIC LIGATURE YEH WITH NOON FINAL FORM=00FC94;VITHKUQI SMALL LETTER VE=0105B8" \o
      ";MANICHAEAN NUMBER TWENTY=010AEE;AVESTAN LETTER RE=010B2D;YEZIDI LETTER RHA=010E8E" \o
      ";KHOJKI LETTER TTA=011214;MULTANI LETTER NA=01129A;TIRHUTA LETTER GA=011491" \o
      ";CUNEIFORM SIGN KU=0121AA;CUNEIFORM SIGN PI TIMES E=012284" \o
      ";CUNEIFORM NUMERIC SIGN EIGHT ASH=012406;CUNEIFORM NUMERIC SIGN SIX GESH2=01241A" \o
      ";EGYPTIAN HIEROGLYPH D008A=01307E;EGYPTIAN HIEROGLYPH D050D=0130B1" \o
      ";EGYPTIAN HIEROGLYPH E016A=0130E4;EGYPTIAN HIEROGLYPH E034A=0130FA" \o
      ";EGYPTIAN HIEROGLYPH F051A=01313A;EGYPTIAN HIEROGLYPH AA029=01342B" \o
      ";BAMUM LETTER PHASE-D NYAM=0168FA;BAMUM LETTER PHASE-D KEUP=01692C" \o
      ";BAMUM LETTER PHASE-D MEUN=01693E;BAMUM LETTER PHASE-E NGOP=01697D" \o
      ";BAMUM LETTER PHASE-E FUET=0169C4;TANGSA LETTER UEQ=016A96" \o
      ";ZNAMENNY NEUME DOUBLE ZAPYATAYA=01CF6B;BYZANTINE MUSICAL SYMBOL PSIFISTON NEO=01D05A" \o
      ";MUSICAL SYMBOL COMBINING TENUTO=01D17D;MATHEMATICAL BOLD SMALL U=01D42E" \o
      ";MATHEMATICAL MONOSPACE CAPITAL L=01D67B;SIGNWRITING ROTATION MODIFIER-8=01DAA7" \o
      ";NYIAKENG PUACHUE HMONG LETTER NA=01E105;ADLAM CAPITAL LETTER MIIM=01E903" \o
      ";INDIC SIYAQ NUMBER THREE HUNDRED=01EC85;INDIC SIYAQ NUMBER ALTERNATE ONE=01ECB1" \o
      ";OTTOMAN SIYAQ NUMBER TEN=01ED0A;HEAVY EQUALS SIGN=01F7F0",
    ";DC3=000013;LATIN SMALL LETTER E WITH STROKE=000247;LATIN SMALL LETTER EZH WITH CURL=000293" \o
      ";CYRILLIC SMALL LETTER IZHITSA WITH DOUBLE GRAVE ACCENT=000477;HEBREW LETTER VAV=0005D5" \o
      ";HEBREW LETTER TET=0005D8;SAMARITAN MARK OCCLUSION=000818" \o
      ";ARABIC LETTER ALEF WITH DOT ABOVE=00087A;ARABIC LETTER JEEM WITH THREE DOTS BELOW=0008C6" \o
      ";TELUGU LETTER KHA=000C16;TIBETAN SYMBOL PADMA GDAN=000FC6" \o
      ";TIBETAN MARK INITIAL BRDA RNYING YIG MGO MDUN MA=000FD3;MYANMAR LETTER TA=001010" \o
      ";MYANMAR DIGIT SIX=001046;HANGUL CHOSEONG CEONGCHIEUMSIOS=00113E" \o
      ";CANADIAN SYLLABICS WEST-CREE PWO=001441;NEW TAI LUE VOWEL SIGN UY=0019BC" \o
      ";TAI THAM LETTER LOW RATHA=001A30;VEDIC SIGN DOUBLE ANUSVARA ANTARGOMUKHA=001CFA" \o
      ";GREEK SMALL LETTER IOTA WITH DIALYTIKA AND PERISPOMENI=001FD7;LESS-THAN OR APPROXIMATE=002A85" \o
      ";BLACK LARGE CIRCLE=002B24;RIGHT SQUARE BRACKET WITH DOUBLE STROKE=002E58" \o
      ";BOPOMOFO LETTER I=003127;HANGUL LETTER WEO=00315D;YI SYLLABLE BBUOX=00A062" \o
      ";LATIN SMALL LETTER S WITH SHORT STROKE OVERLAY=00A7CA;SAURASHTRA VOWEL SIGN OO=00A8C2" \o
      ";COMBINING DEVANAGARI DIGIT SEVEN=00A8E7;CJK COMPATIBILITY IDEOGRAPH-F9CF=00F9CF" \o
      ";CJK COMPATIBILITY IDEOGRAPH-F9DE=00F9DE;CJK COMPATIBILITY IDEOGRAPH-F9ED=00F9ED" \o
      ";CJK COMPATIBILITY IDEOGRAPH-F9FC=00F9FC;FULLWIDTH LATIN CAPITAL LETTER A=00FF21" \o
      ";HATRAN LETTER TAW=0108F5;AVESTAN LETTER SE=010B2F;TIRHUTA LETTER HA=0114AF" \o
      ";MODI VOWEL SIGN VOCALIC R=011635;CUNEIFORM SIGN LU=0121FB" \o
      ";CUNEIFORM SIGN LAK-449 TIMES PAP PLUS LU3=0124F4;EGYPTIAN HIEROGLYPH D027A=013092" \o
      ";EGYPTIAN HIEROGLYPH D050E=0130B2;EGYPTIAN HIEROGLYPH D054A=0130BC" \o
      ";EGYPTIAN HIEROGLYPH E008A=0130DA;EGYPTIAN HIEROGLYPH E017A=0130E6" \o
      ";EGYPTIAN HIEROGLYPH F051B=01313B;EGYPTIAN HIEROGLYPH G006A=013145" \o
      ";BAMUM LETTER PHASE-A NDA LEERAEWA=016829;BAMUM LETTER PHASE-B MEUQ=016879" \o
      ";BAMUM LETTER PHASE-B FEUX=016883;BAMUM LETTER PHASE-E NDUN=016970" \o
      ";BAMUM LETTER PHASE-E NGOQ=016980;BAMUM LETTER PHASE-E NKOM=0169A8" \o
      ";BAMUM LETTER PHASE-E SHIQ=0169DE;BASSA VAH LETTER A=016AE7" \o
      ";BYZANTINE MUSICAL SYMBOL SEISMA=01D029;MUSICAL SYMBOL CRESCENDO=01D192" \o
      ";MATHEMATICAL BOLD SMALL V=01D42F;MATHEMATICAL SANS-SERIF ITALIC CAPITAL A=01D608" \o
      ";MATHEMATICAL MONOSPACE CAPITAL M=01D67C;SIGNWRITING ROTATION MODIFIER-9=01DAA8" \o
      ";WANCHO LETTER YIH=01E2EB;SANS-SERIF INTERROBANG ORNAMENT=01F67A;MANUAL WHEELCHAIR=01F9BD",
    ";DC4=000014;DIGIT FIVE=000035;DIGIT NINE=000039;LATIN CAPITAL LETTER I WITH DOUBLE GRAVE=000208" \o
      ";CYRILLIC CAPITAL LIGATURE TE TSE=0004B4;CYRILLIC CAPITAL LETTER KOMI SJE=00050C" \o
      ";ARABIC SMALL DAMMA=000619;ARABIC SMALL HIGH YEH BARREE WITH TWO DOTS BELOW=0008CB" \o
      ";BENGALI LETTER VOCALIC LL=0009E1;MYANMAR LETTER AU=00102A;HANUNOO LETTER RA=00172D" \o
      ";TAI THAM LETTER BA=001A37;OL CHIKI LETTER AG=001C5C" \o
      ";COMBINING LATIN SMALL LETTER L WITH DOUBLE MIDDLE TILDE=001DEC" \o
      ";APL FUNCTIONAL SYMBOL QUAD DELTA=00234D;NEGATIVE CIRCLED NUMBER EIGHTEEN=0024F2" \o
      ";BOX DRAWINGS DOWN SINGLE AND LEFT DOUBLE=002555;BOX DRAWINGS DOWN DOUBLE AND LEFT SINGLE=002556" \o
      ";CROSS OF LORRAINE=002628;WHITE FLAG=002690;Z NOTATION RIGHT BINDING BRACKET=00298A" \o
      ";BOPOMOFO LETTER J=003110;HANGUL LETTER RIEUL-SIOS=00313D;CIRCLED KATAKANA I=0032D1" \o
      ";VAI SYLLABLE WOON=00A575;LATIN SMALL LETTER F WITH STROKE=00A799;KAYAH LI LETTER GA=00A90C" \o
      ";CJK COMPATIBILITY IDEOGRAPH-F9DF=00F9DF;CJK COMPATIBILITY IDEOGRAPH-F9EE=00F9EE" \o
      ";CJK COMPATIBILITY IDEOGRAPH-F9FD=00F9FD;CJK COMPATIBILITY IDEOGRAPH-FAAA=00FAAA" \o
      ";PRESENTATION FORM FOR VERTICAL RIGHT BLACK LENTICULAR BRACKET=00FE3C" \o
      ";ZERO WIDTH NO-BREAK SPACE=00FEFF;FULLWIDTH LATIN CAPITAL LETTER B=00FF22" \o
      ";GREEK XESTES SIGN=010185;SHAVIAN LETTER OR=010479;OSMANYA LETTER RA=010487" \o
      ";OSAGE CAPITAL LETTER EHPA=0104C5;VITHKUQI SMALL LETTER XE=0105B9;AVESTAN LETTER TE=010B19" \o
      ";RUMI FRACTION TWO THIRDS=010E7E;YEZIDI LETTER PHE=010E83;MULTANI LETTER PA=01129B" \o
      ";TIRHUTA LETTER AI=01148C;SOYOMBO LETTER BA=011A72;CUNEIFORM SIGN MU=01222C" \o
      ";CUNEIFORM SIGN UM=01231D;EGYPTIAN HIEROGLYPH D046A=0130A8;EGYPTIAN HIEROGLYPH D050F=0130B3" \o
      ";EGYPTIAN HIEROGLYPH E009A=0130DC;EGYPTIAN HIEROGLYPH F051C=01313C" \o
      ";EGYPTIAN HIEROGLYPH G007A=013147;EGYPTIAN HIEROGLYPH G043A=013172" \o
      ";EGYPTIAN HIEROGLYPH H006A=013185;EGYPTIAN HIEROGLYPH I005A=01318D" \o
      ";EGYPTIAN HIEROGLYPH L002A=0131A5;EGYPTIAN HIEROGLYPH M001A=0131AE" \o
      ";EGYPTIAN HIEROGLYPH M010A=0131BA;BYZANTINE MUSICAL SYMBOL APOSTROFOI TELOUS ICHIMATOS=01D0AD" \o
      ";BYZANTINE MUSICAL SYMBOL FANEROSIS MONOFONIAS=01D0AF;MATHEMATICAL BOLD SMALL W=01D430" \o
      ";MATHEMATICAL SANS-SERIF ITALIC CAPITAL B=01D609;MATHEMATICAL MONOSPACE CAPITAL N=01D67D" \o
      ";SIGNWRITING HAND-FIST THUMB UNDER FOUR FINGERS=01D901;SIGNWRITING PARENTHESIS=01DA8B" \o
      ";NYIAKENG PUACHUE HMONG LETTER PA=01E11A;MENDE KIKAKUI DIGIT THREE=01E8C9" \o
      ";TELEPHONE ON TOP OF MODEM=01F580;MERPERSON=01F9DC" \o
      ";WHITE CHESS ROOK ROTATED NINETY DEGREES=01FA0B",
    ";LATIN SMALL LETTER G WITH STROKE=0001E5;CYRILLIC CAPITAL LETTER KOMI TJE=00050E" \o
      ";GUJARATI LETTER U=000A89;TELUGU LETTER NGA=000C19;TIBETAN LOGOTYPE SIGN CHAD RTAGS=000F15" \o
      ";MYANMAR VOWEL SIGN WESTERN PWO KAREN EU=001067;MYANMAR VOWEL SIGN WESTERN PWO KAREN UE=001068" \o
      ";HANGUL JONGSEONG PHIEUPH=0011C1;HANUNOO LETTER SA=001730" \o
      ";MONGOLIAN LETTER ALI GALI HALF YA=0018A7;NAIRA SIGN=0020A6;LOGICAL OR=002228" \o
      ";RIGHTWARDS TWO-HEADED TRIPLE DASH ARROW=002910;WHITE MEDIUM STAR=002B50" \o
      ";COPTIC COMBINING NI ABOVE=002CEF;BOPOMOFO LETTER K=00310E;HANGUL LETTER YEO=003155" \o
      ";YI SYLLABLE GGUOP=00A221;YI SYLLABLE HXIET=00A24A;PHAGS-PA MARK SHAD=00A876" \o
      ";KAYAH LI LETTER HA=00A91F;HANGUL JONGSEONG YESIEUNG-MIEUM=00D7F5" \o
      ";CJK COMPATIBILITY IDEOGRAPH-F9EF=00F9EF;CJK COMPATIBILITY IDEOGRAPH-F9FE=00F9FE" \o
      ";CJK COMPATIBILITY IDEOGRAPH-FAAB=00FAAB;CJK COMPATIBILITY IDEOGRAPH-FABA=00FABA" \o
      ";ARABIC LETTER RNOON INITIAL FORM=00FBA2;FULLWIDTH LATIN CAPITAL LETTER C=00FF23" \o
      ";LINEAR B IDEOGRAM B104 DEER=010082;SHAVIAN LETTER SO=010455;OSMANYA LETTER SA=010488" \o
      ";OLD HUNGARIAN CAPITAL LETTER ESZ=010CA5;OLD HUNGARIAN CAPITAL LETTER ETY=010CA8" \o
      ";OLD HUNGARIAN CAPITAL LETTER EZS=010CB0;SOGDIAN COMBINING TWO DOTS ABOVE=010F49" \o
      ";NEWA VOWEL SIGN VOCALIC R=01143A;TIRHUTA LETTER JA=011496;TAKRI LETTER TTHA=011695" \o
      ";NANDINAGARI VOWEL SIGN AA=0119D1;SOYOMBO LETTER CA=011A61;MASARAM GONDI DIGIT THREE=011D53" \o
      ";GUNJALA GONDI DIGIT THREE=011DA3;CUNEIFORM SIGN KA TIMES U=012187;CUNEIFORM SIGN NU=012261" \o
      ";CUNEIFORM SIGN UN=012326;CUNEIFORM SIGN ZI=012363;EGYPTIAN HIEROGLYPH D050G=0130B4" \o
      ";EGYPTIAN HIEROGLYPH E028A=0130F3;EGYPTIAN HIEROGLYPH F045A=013131" \o
      ";EGYPTIAN HIEROGLYPH G007B=013148;EGYPTIAN HIEROGLYPH G026A=01315E" \o
      ";EGYPTIAN HIEROGLYPH M001B=0131AF;BAMUM LETTER PHASE-A KPOQ=01683B" \o
      ";BAMUM LETTER PHASE-E PUAQ=0169CA" \o
      ";BYZANTINE MUSICAL SYMBOL DIESIS MONOGRAMMOS TESSERA DODEKATA=01D0D1" \o
      ";MATHEMATICAL BOLD SMALL X=01D431;MATHEMATICAL SANS-SERIF ITALIC CAPITAL C=01D60A" \o
      ";MATHEMATICAL MONOSPACE CAPITAL O=01D67E;SIGNWRITING TONGUE CENTRE STICKING OUT=01DA5F" \o
      ";NYIAKENG PUACHUE HMONG LETTER QA=01E117;FIREWORKS=01F386;BLUE HEART=01F499;GREEN BOOK=01F4D7" \o
      ";HEAVY AMPERSAND ORNAMENT=01F674;ALCHEMICAL SYMBOL FOR AIR=01F701" \o
      ";BLACK CHESS BISHOP ROTATED TWO HUNDRED SEVENTY DEGREES=01FA3C" \o
      ";BLACK CHESS KNIGHT ROTATED TWO HUNDRED SEVENTY DEGREES=01FA3D",
    ";LATIN SMALL LETTER H WITH STROKE=000127;RING ABOVE=0002DA;COMBINING LEFT TACK BELOW=000318" \o
      ";COMBINING CYRILLIC TITLO=000483;CYRILLIC CAPITAL LETTER BARRED O WITH DIAERESIS=0004EA" \o
      ";HEBREW MARK MASORA CIRCLE=0005AF;HEBREW PUNCTUATION MAQAF=0005BE" \o
      ";ARABIC VOWEL SIGN INVERTED SMALL V ABOVE=00065B;GURMUKHI LETTER A=000A05" \o
      ";MYANMAR LETTER WA=00101D;MYANMAR CONSONANT SIGN MEDIAL WA=00103D" \o
      ";CANADIAN SYLLABICS WEST-CREE SWO=0014FD;CANADIAN SYLLABICS WEST-CREE YWI=001532" \o
      ";HANUNOO LETTER TA=001726;TAI THAM LETTER DA=001A2F;STOPWATCH=0023F1;OPEN CENTRE CROSS=00271B" \o
      ";BLACK-FEATHERED SOUTH EAST ARROW=0027B4;LOGICAL AND WITH UNDERBAR=002A5F" \o
      ";LEFTWARDS TRIANGLE-HEADED PAIRED ARROWS=002B84;BOPOMOFO LETTER L=00310C" \o
      ";HANGUL LETTER PIEUP-SIOS=003144;HANGUL LETTER SIOS-PIEUP=00317D;SQUARE PIASUTORU=00332E" \o
      ";YI SYLLABLE BBURX=00A070;YI SYLLABLE CHUOT=00A365;VAI SYLLABLE NYOO=00A594" \o
      ";LATIN SMALL LETTER BLACKLETTER O=00AB3D;CJK COMPATIBILITY IDEOGRAPH-F9FF=00F9FF" \o
      ";CJK COMPATIBILITY IDEOGRAPH-FAAC=00FAAC;CJK COMPATIBILITY IDEOGRAPH-FABB=00FABB" \o
      ";CJK COMPATIBILITY IDEOGRAPH-FACA=00FACA;ARABIC SYMBOL WASLA ABOVE=00FBC2" \o
      ";ARABIC LIGATURE QAF WITH ALEF MAKSURA FINAL FORM=00FC7E" \o
      ";ARABIC LIGATURE AIN WITH ALEF MAKSURA FINAL FORM=00FD13" \o
      ";ARABIC LIGATURE SAD WITH ALEF MAKSURA FINAL FORM=00FD21;FULLWIDTH LATIN CAPITAL LETTER D=00FF24" \o
      ";PHAISTOS DISC SIGN TUNNY=0101F0;CARIAN LETTER UUU=0102A4;UGARITIC LETTER U=01039C" \o
      ";OSMANYA LETTER TA=010482;OSMANYA DIGIT SIX=0104A6;VITHKUQI SMALL LETTER ZE=0105BC" \o
      ";MODIFIER LETTER SMALL REVERSED E=01078E;MODIFIER LETTER SMALL LZ DIGRAPH=01079A" \o
      ";HATRAN LETTER WAW=0108E5;AVESTAN LETTER VE=010B2C;SHARADA LETTER VOCALIC LL=01118C" \o
      ";MULTANI LETTER RA=0112A2;TIRHUTA LETTER KA=01148F;SOYOMBO LETTER DA=011A6D" \o
      ";CUNEIFORM SIGN PI TIMES I=012285;CUNEIFORM SIGN NINDA2 TIMES PAP PLUS PAP=012529" \o
      ";EGYPTIAN HIEROGLYPH D048A=0130AB;EGYPTIAN HIEROGLYPH D050H=0130B5" \o
      ";EGYPTIAN HIEROGLYPH F037A=013127;EGYPTIAN HIEROGLYPH F046A=013133" \o
      ";EGYPTIAN HIEROGLYPH G036A=013169;EGYPTIAN HIEROGLYPH G045A=013175" \o
      ";EGYPTIAN HIEROGLYPH M003A=0131B2;EGYPTIAN HIEROGLYPH M012A=0131BD" \o
      ";EGYPTIAN HIEROGLYPH O001A=013251;EGYPTIAN HIEROGLYPH O010A=013262" \o
      ";BAMUM LETTER PHASE-E LOON=01696B;TANGSA LETTER UIQ=016A8E;DUPLOYAN LETTER A=01BC41" \o
      ";SHORTHAND FORMAT LETTER OVERLAP=01BCA0;ZNAMENNY NEUME STATYA S KRYZHEM=01CF88" \o
      ";BYZANTINE MUSICAL SYMBOL STIGMA=01D0E8;MATHEMATICAL BOLD SMALL Y=01D432" \o
      ";MATHEMATICAL SANS-SERIF ITALIC CAPITAL D=01D60B;MATHEMATICAL MONOSPACE CAPITAL P=01D67F" \o
      ";NYIAKENG PUACHUE HMONG LETTER RA=01E116;PASSPORT CONTROL=01F6C2;SUPERHERO=01F9B8",
    ";LATIN CAPITAL LETTER O WITH DOUBLE ACUTE=000150;LATIN SMALL LETTER I WITH STROKE=000268" \o
      ";GREEK CAPITAL LETTER HETA=000370;HEBREW LETTER NUN=0005E0;SYRIAC LETTER MIM=000721" \o
      ";HANGUL CHOSEONG YESIEUNG=00114C;CANADIAN SYLLABICS WEST-CREE TWO=00145E" \o
      ";KHMER SYMBOL PRAM-BEI ROC=0019F8;MODIFIER LETTER CAPITAL A=001D2C" \o
      ";SMALL ROMAN NUMERAL FIVE HUNDRED=00217E;TOP CURLY BRACKET=0023DE" \o
      ";DOUBLE CIRCLED DIGIT FOUR=0024F8;FULL BLOCK=002588" \o
      ";RIGHTWARDS ARROW ABOVE REVERSE ALMOST EQUAL TO=002B48;BOPOMOFO LETTER M=003107" \o
      ";HANGUL LETTER SSANGHIEUH=003185;IDEOGRAPHIC TELEGRAPH SYMBOL FOR HOUR FOURTEEN=003366" \o
      ";SQUARE KM SQUARED=0033A2;YI SYLLABLE DDUOX=00A141;YI SYLLABLE SSIEP=00A330" \o
      ";CJK COMPATIBILITY IDEOGRAPH-FAAD=00FAAD;CJK COMPATIBILITY IDEOGRAPH-FABC=00FABC" \o
      ";CJK COMPATIBILITY IDEOGRAPH-FACB=00FACB;FULLWIDTH LATIN CAPITAL LETTER E=00FF25" \o
      ";COPTIC EPACT NUMBER FOUR HUNDRED=0102F6;MODIFIER LETTER SMALL TS DIGRAPH=0107AC" \o
      ";MEROITIC CURSIVE FRACTION TWO TWELFTHS=0109F7;LARGE TWO DOTS OVER ONE DOT PUNCTUATION=010B3C" \o
      ";LARGE ONE DOT OVER TWO DOTS PUNCTUATION=010B3D;MULTANI LETTER SA=0112A5" \o
      ";TIRHUTA LETTER LA=0114AA;CUNEIFORM NUMERIC SIGN FIVE DISH=01240A" \o
      ";CUNEIFORM NUMERIC SIGN NINE DISH=01240E;CUNEIFORM NUMERIC SIGN TWO ESHE3=012459" \o
      ";EGYPTIAN HIEROGLYPH D050I=0130B6;EGYPTIAN HIEROGLYPH D067A=0130CA" \o
      ";EGYPTIAN HIEROGLYPH F038A=013129;EGYPTIAN HIEROGLYPH F047A=013135" \o
      ";EGYPTIAN HIEROGLYPH G037A=01316B;EGYPTIAN HIEROGLYPH M012B=0131BE" \o
      ";EGYPTIAN HIEROGLYPH M022A=0131D2;EGYPTIAN HIEROGLYPH M031A=0131DE" \o
      ";EGYPTIAN HIEROGLYPH M040A=0131EA;EGYPTIAN HIEROGLYPH O010B=013263" \o
      ";EGYPTIAN HIEROGLYPH O020A=013270;EGYPTIAN HIEROGLYPH P001A=01329C" \o
      ";BAMUM LETTER PHASE-A SHUM=016837;BAMUM LETTER PHASE-E KUET=0169AB;TANGSA LETTER AWX=016A8B" \o
      ";BASSA VAH LETTER E=016AEC;PAHAWH HMONG NUMBER TEN BILLIONS=016B60" \o
      ";PAHAWH HMONG SIGN VOS LUB=016B63;DUPLOYAN LETTER B=01BC07" \o
      ";BYZANTINE MUSICAL SYMBOL OMALON=01D05B;MUSICAL SYMBOL BEGIN BEAM=01D173" \o
      ";MUSICAL SYMBOL SEMIBREVIS WHITE=01D1B9;MAYAN NUMERAL SIX=01D2E6" \o
      ";MATHEMATICAL BOLD SMALL Z=01D433;MATHEMATICAL SANS-SERIF ITALIC CAPITAL E=01D60C" \o
      ";MATHEMATICAL MONOSPACE CAPITAL Q=01D680;MATHEMATICAL ITALIC NABLA=01D6FB" \o
      ";MATHEMATICAL SANS-SERIF BOLD CAPITAL ETA=01D75C;MATHEMATICAL SANS-SERIF BOLD SMALL LAMDA=01D77A" \o
      ";SIGNWRITING MOVEMENT-FLOORPLANE ARM CIRCLE HITTING WALL LARGE DOUBLE=01D9EC" \o
      ";NYIAKENG PUACHUE HMONG LETTER SA=01E10A;MAHJONG TILE GREEN DRAGON=01F005" \o
      ";FACE WITH LOOK OF TRIUMPH=01F624;KIWIFRUIT=01F95D",
    ";LATIN SMALL LETTER J WITH STROKE=000249;HEBREW ACCENT QARNEY PARA=00059F" \o
      ";ARABIC SMALL FATHA=000618;ARABIC LETTER TEH MARBUTA=000629;ARABIC LETTER DOTLESS BEH=00066E" \o
      ";SAMARITAN LETTER TSAADIY=000811;TELUGU LETTER PHA=000C2B;TELUGU LETTER LLA=000C33" \o
      ";MYANMAR LETTER YA=00101A;MYANMAR CONSONANT SIGN MEDIAL YA=00103B" \o
      ";HANGUL CHOSEONG PIEUP-SSANGSIOS=001125;OGHAM LETTER RUIS=00168F" \o
      ";RUNIC LETTER MANNAZ MAN M=0016D7;COMBINING DOUBLE PLUS SIGN BELOW=001ACA" \o
      ";MODIFIER LETTER CAPITAL B=001D2E" \o
      ";GREEK SMALL LETTER ALPHA WITH PSILI AND PERISPOMENI AND YPOGEGRAMMENI=001F86;GREEK OXIA=001FFD" \o
      ";THIN SPACE=002009;ELEMENT OF=002208;LOWER LEFT QUADRANT CIRCULAR ARC=0025DF" \o
      ";BLACK SMILING FACE=00263B;BRAILLE PATTERN DOTS-12345=00281F;RIGHT DOUBLE PARENTHESIS=002E29" \o
      ";RAISED DOT=002E33;IDEOGRAPHIC DESCRIPTION CHARACTER SURROUND FROM BELOW=002FF6" \o
      ";BOPOMOFO LETTER N=00310B;YI SYLLABLE NYIEP=00A451;BAMUM LETTER KEUX=00A6C4" \o
      ";KAYAH LI LETTER KA=00A90A;HANGUL CHOSEONG SSANGSIOS-PIEUP=00A975" \o
      ";CJK COMPATIBILITY IDEOGRAPH-FAAE=00FAAE;CJK COMPATIBILITY IDEOGRAPH-FABD=00FABD" \o
      ";CJK COMPATIBILITY IDEOGRAPH-FACC=00FACC;ARABIC LIGATURE LAM WITH ALEF MAKSURA FINAL FORM=00FC86" \o
      ";FULLWIDTH LATIN CAPITAL LETTER F=00FF26;SHAVIAN LETTER UP=010473" \o
      ";OSAGE CAPITAL LETTER EHTA=0104C9;HATRAN LETTER NUN=0108ED;AVESTAN LETTER XE=010B11" \o
      ";YEZIDI LETTER THE=010E84;OLD SOGDIAN LETTER LAMEDH=010F0C" \o
      ";OLD UYGHUR PUNCTUATION TWO BARS=010F87;CHAKMA LETTER DDAA=011113;MULTANI LETTER TA=011296" \o
      ";GRANTHA LETTER UU=01130A;TIRHUTA LETTER MA=0114A7;CUNEIFORM NUMERIC SIGN TWO GESH2=012416" \o
      ";EGYPTIAN HIEROGLYPH D067B=0130CB;EGYPTIAN HIEROGLYPH I009A=013192" \o
      ";EGYPTIAN HIEROGLYPH L006A=0131AA;EGYPTIAN HIEROGLYPH M012C=0131BF" \o
      ";EGYPTIAN HIEROGLYPH O010C=013264;EGYPTIAN HIEROGLYPH O030A=01327E" \o
      ";BAMUM LETTER PHASE-B VEUM=016873;BAMUM LETTER PHASE-D MEUT=01690B" \o
      ";BAMUM LETTER PHASE-D SHOQ=01695C;BAMUM LETTER PHASE-E NZAQ=0169A7" \o
      ";DUPLOYAN LETTER SLOAN OW=01BC42;TETRAGRAM FOR RESISTANCE=01D31B" \o
      ";MATHEMATICAL SANS-SERIF ITALIC CAPITAL F=01D60D;MATHEMATICAL MONOSPACE CAPITAL R=01D681" \o
      ";SIGNWRITING ROTATION-FLOORPLANE SINGLE HITTING FLOOR=01D9D2" \o
      ";NYIAKENG PUACHUE HMONG LETTER TA=01E103;NYIAKENG PUACHUE HMONG DIGIT SIX=01E146" \o
      ";ARABIC MATHEMATICAL SHEEN=01EE14;DOMINO TILE VERTICAL BACK=01F062;HEAVY LATIN CROSS=01F547" \o
      ";MATE DRINK=01F9C9;TAG QUESTION MARK=0E003F",
    ";CIRCUMFLEX ACCENT=00005E;ARMENIAN SMALL LETTER CHA=000579;ARABIC HAMZA ABOVE=000654" \o
      ";ARABIC LETTER ALEF WITH ATTACHED ROUND DOT ABOVE=000876;MYANMAR DIGIT TWO=001042" \o
      ";HANUNOO LETTER WA=00172F;MONGOLIAN LETTER SIBE GAA=00186C;OL CHIKI LETTER LA=001C5A" \o
      ";OL CHIKI LETTER AL=001C5E;LATIN SMALL LETTER REVERSED OPEN E WITH RETROFLEX HOOK=001D94" \o
      ";SUPERSCRIPT FOUR=002074;TRIGRAM FOR WATER=002635;BRAILLE PATTERN DOTS-12346=00282F" \o
      ";CJK RADICAL THREAD=002E93;BOPOMOFO LETTER O=00311B;HANGUL LETTER PIEUP-SIOS-TIKEUT=003175" \o
      ";SQUARE MM SQUARED=00339F;YI SYLLABLE GGUOT=00A21E;YI SYLLABLE HXIEX=00A24B" \o
      ";YI SYLLABLE NZIEP=00A2F3;LATIN SMALL LETTER K WITH STROKE=00A741" \o
      ";MODIFIER LETTER CAPITAL C=00A7F2;KAYAH LI LETTER LA=00A91C;MYANMAR SYMBOL AITON TWO=00AA79" \o
      ";CHEROKEE SMALL LETTER DLA=00ABAC;HANGUL JONGSEONG RIEUL-YESIEUNG=00D7DB" \o
      ";CJK COMPATIBILITY IDEOGRAPH-FAAF=00FAAF;CJK COMPATIBILITY IDEOGRAPH-FABE=00FABE" \o
      ";CJK COMPATIBILITY IDEOGRAPH-FACD=00FACD;ARABIC LIGATURE ALAYHAA AS-SALAAM=00FD4D" \o
      ";FULLWIDTH LATIN CAPITAL LETTER G=00FF27;GREEK ACROPHONIC THESPIAN FIVE THOUSAND=010172" \o
      ";MEROITIC CURSIVE NUMBER FORTY THOUSAND=0109E7;MANICHAEAN LETTER DHAMEDH=010AD4" \o
      ";AVESTAN LETTER OO=010B0B;AVESTAN LETTER YE=010B2B;YEZIDI LETTER HAY=010EA7" \o
      ";TIRHUTA LETTER NA=0114A2;SOYOMBO LETTER GA=011A5E;PAU CIN HAU LOW-FALLING TONE LONG=011AF3" \o
      ";CUNEIFORM SIGN GI TIMES U=012102;CUNEIFORM SIGN RU=012292;CUNEIFORM SIGN UR=012328" \o
      ";CUNEIFORM NUMERIC SIGN THREE ASH=012401;CUNEIFORM NUMERIC SIGN SIX SHAR2=012428" \o
      ";EGYPTIAN HIEROGLYPH D067C=0130CC;EGYPTIAN HIEROGLYPH M012D=0131C0" \o
      ";EGYPTIAN HIEROGLYPH M015A=0131C8;EGYPTIAN HIEROGLYPH M024A=0131D5" \o
      ";EGYPTIAN HIEROGLYPH M033A=0131E1;EGYPTIAN HIEROGLYPH P003A=01329F" \o
      ";EGYPTIAN HIEROGLYPH R010A=0132BC;BAMUM LETTER PHASE-C NGKUE MAEMBA=01688F" \o
      ";BAMUM LETTER PHASE-C NSOM=0168D3;BAMUM LETTER PHASE-D KUOM=016906" \o
      ";BAMUM LETTER PHASE-D TEUN=016941;BAMUM LETTER PHASE-E SHOQ=0169F4;TANGSA LETTER AWZ=016A88" \o
      ";TANGSA LETTER UEX=016A97;DUPLOYAN LETTER D=01BC08;TETRAGRAM FOR JOY=01D31D" \o
      ";MATHEMATICAL SANS-SERIF ITALIC CAPITAL G=01D60E;MATHEMATICAL MONOSPACE CAPITAL S=01D682" \o
      ";SIGNWRITING TONGUE LICKING LIPS=01DA5A;SQUARED HC=01F1A6;EARTH GLOBE EUROPE-AFRICA=01F30D" \o
      ";DIRECT HIT=01F3AF;LOWER LEFT CRAYON=01F58D;LIGHT RAIL=01F688;ARROWHEAD-SHAPED POINTER=01FBB0",
    ";LATIN SMALL LETTER L WITH STROKE=000142;LATIN CAPITAL LETTER O WITH DOUBLE GRAVE=00020C" \o
      ";ORIYA FRACTION THREE SIXTEENTHS=000B77;MONGOLIAN LETTER SIBE HAA=00186D" \o
      ";NEW TAI LUE LETTER HIGH BA=0019A2;MODIFIER LETTER CAPITAL D=001D30" \o
      ";LATIN CAPITAL LETTER L WITH DOT BELOW AND MACRON=001E38;RIGHT TACK=0022A2" \o
      ";DOUBLE CIRCLED NUMBER TEN=0024FE;BRAILLE PATTERN DOTS-12356=002837" \o
      ";BRAILLE PATTERN DOTS-12347=00284F;NORTH EAST TRIANGLE-HEADED ARROW=002B67" \o
      ";COPTIC SMALL LETTER DALDA=002C87;VERTICAL KANA REPEAT MARK=003031;BOPOMOFO LETTER P=003106" \o
      ";CIRCLED KATAKANA O=0032D4;SQUARE KURUZEIRO=00331A;SQUARE CAL=003388;YI SYLLABLE DDURX=00A14F" \o
      ";YI SYLLABLE CHUOX=00A366;KAYAH LI LETTER MA=00A917;CHAM VOWEL SIGN AI=00AA30" \o
      ";CJK COMPATIBILITY IDEOGRAPH-FABF=00FABF;CJK COMPATIBILITY IDEOGRAPH-FACE=00FACE" \o
      ";FULLWIDTH LATIN CAPITAL LETTER H=00FF28;OSMANYA LETTER XA=010484;AVESTAN LETTER ZE=010B30" \o
      ";YEZIDI LETTER MIM=010EA1;BRAHMI VOWEL SIGN BHATTIPROLU AA=011039;CHAKMA LETTER BHAA=01111E" \o
      ";MULTANI LETTER VA=0112A4;GRANTHA OM=011350;ZANABAZAR SQUARE MARK LONG TSHEG=011A44" \o
      ";SOYOMBO LETTER HA=011A82;CUNEIFORM SIGN HI TIMES U=012136" \o
      ";CUNEIFORM SIGN LUM OVER LUM GAR OVER GAR=01221F;CUNEIFORM SIGN SU=0122E2" \o
      ";CUNEIFORM NUMERIC SIGN FIVE SIXTHS DISH=01245C;EGYPTIAN HIEROGLYPH D067D=0130CD" \o
      ";EGYPTIAN HIEROGLYPH M012E=0131C1;EGYPTIAN HIEROGLYPH M016A=0131CA" \o
      ";EGYPTIAN HIEROGLYPH M033B=0131E2;EGYPTIAN HIEROGLYPH N033A=013213" \o
      ";EGYPTIAN HIEROGLYPH O005A=013256;EGYPTIAN HIEROGLYPH O050A=013298" \o
      ";EGYPTIAN HIEROGLYPH R002A=0132B1;BAMUM LETTER PHASE-A KUOQ=016835" \o
      ";BAMUM LETTER PHASE-A NYET=016849;BAMUM LETTER PHASE-E POON=0169C2;DUPLOYAN LETTER E=01BC47" \o
      ";MUSICAL SYMBOL SCANDICUS=01D1D6;MATHEMATICAL SANS-SERIF ITALIC CAPITAL H=01D60F" \o
      ";MATHEMATICAL MONOSPACE CAPITAL T=01D683;NYIAKENG PUACHUE HMONG LETTER VA=01E112" \o
      ";HORIZONTAL TRAFFIC LIGHT=01F6A5;BUTTERFLY=01F98B",
    ";LATIN SMALL LETTER OPEN O=000254;GREEK CAPITAL LETTER OMICRON WITH TONOS=00038C" \o
      ";COPTIC CAPITAL LETTER DEI=0003EE;CYRILLIC CAPITAL LETTER KOMI ZJE=000504" \o
      ";ARMENIAN SMALL LETTER TURNED AYB=000560;TELUGU LETTER SHA=000C36" \o
      ";MYANMAR VOWEL SIGN SHAN E=001084;CANADIAN SYLLABICS CARRIER TTSEE=00166A" \o
      ";HANUNOO LETTER YA=00172C;TAI THAM LETTER EE=001A51;MODIFIER LETTER CAPITAL E=001D31" \o
      ";GREEK SMALL LETTER OMEGA WITH PSILI AND PERISPOMENI AND YPOGEGRAMMENI=001FA6;MANAT SIGN=0020BC" \o
      ";ACCOUNT OF=002100;REVERSED NOT SIGN=002310;NUMBER SIXTEEN FULL STOP=002497" \o
      ";UPPER LEFT QUADRANT CIRCULAR ARC=0025DC;EAST SYRIAC CROSS=002671" \o
      ";BRAILLE PATTERN DOTS-12456=00283B;BRAILLE PATTERN DOTS-12357=002857" \o
      ";BRAILLE PATTERN DOTS-12348=00288F;BOPOMOFO LETTER Q=003111;YI SYLLABLE HLUOP=00A1A4" \o
      ";YI SYLLABLE MGUOP=00A238;YI SYLLABLE JJUOP=00A422;LATIN CAPITAL LETTER BETA=00A7B4" \o
      ";KAYAH LI LETTER NA=00A914;CJK COMPATIBILITY IDEOGRAPH-FACF=00FACF" \o
      ";ARABIC LIGATURE TAH WITH ALEF MAKSURA FINAL FORM=00FD11;FULLWIDTH LATIN CAPITAL LETTER I=00FF29" \o
      ";OSMANYA LETTER YA=010495;CHAKMA LETTER CHAA=01110D;TIRHUTA LETTER PA=0114A3" \o
      ";CUNEIFORM SIGN AB TIMES GAN2 TENU=01200E;CUNEIFORM SIGN TU=012305" \o
      ";EGYPTIAN HIEROGLYPH D067E=0130CE;EGYPTIAN HIEROGLYPH M012F=0131C2" \o
      ";EGYPTIAN HIEROGLYPH M017A=0131CC;EGYPTIAN HIEROGLYPH N025A=01320A" \o
      ";EGYPTIAN HIEROGLYPH N034A=013215;EGYPTIAN HIEROGLYPH O006A=013258" \o
      ";EGYPTIAN HIEROGLYPH O024A=013275;EGYPTIAN HIEROGLYPH O033A=013282" \o
      ";EGYPTIAN HIEROGLYPH O050B=013299;EGYPTIAN HIEROGLYPH R003A=0132B3" \o
      ";EGYPTIAN HIEROGLYPH S002A=0132D3;BAMUM LETTER PHASE-E KEUX=0169E6;TANGSA LETTER UEZ=016A95" \o
      ";BASSA VAH LETTER I=016AED;DUPLOYAN LETTER F=01BC04" \o
      ";ZNAMENNY NEUME STATYA S ZAPYATOY I PODCHASHIEM=01CF8F" \o
      ";BYZANTINE MUSICAL SYMBOL FTHORA SKLIRON CHROMA SYNAFI=01D0C6" \o
      ";MUSICAL SYMBOL TRIANGLE NOTEHEAD UP RIGHT BLACK=01D151;MUSICAL SYMBOL KIEVAN FINAL NOTE=01D1E0" \o
      ";MATHEMATICAL SANS-SERIF ITALIC CAPITAL I=01D610;MATHEMATICAL MONOSPACE CAPITAL U=01D684" \o
      ";MATHEMATICAL SANS-SERIF BOLD SMALL GAMMA=01D772;MATHEMATICAL MONOSPACE DIGIT ONE=01D7F7" \o
      ";SIGNWRITING MOVEMENT-DIAGONAL TOWARDS LARGEST=01D95C;INDIC SIYAQ NUMBER SEVEN HUNDRED=01EC89" \o
      ";SQUARED ID=01F194;ALCHEMICAL SYMBOL FOR ROCK SALT-2=01F719" \o
      ";WIDE-HEADED NORTH WEST MEDIUM BARB ARROW=01F874;BITING LIP=01FAE6" \o
      ";CJK COMPATIBILITY IDEOGRAPH-2F800=02F800",
    ";COMBINING LEFT RIGHT ARROW BELOW=00034D;ARABIC LETTER DOTLESS FEH=0006A1" \o
      ";ARABIC SMALL HIGH NOON WITH KASRA=0008D8;TELUGU LETTER NNA=000C23;TELUGU LETTER THA=000C25" \o
      ";TELUGU DIGIT FOUR=000C6A;KANNADA LETTER VOCALIC RR=000CE0" \o
      ";CANADIAN SYLLABICS WEST-CREE YWO=001536;MONGOLIAN LETTER SIBE CHA=001871" \o
      ";NEW TAI LUE LETTER HIGH DA=0019A1;KHMER SYMBOL DAP-PRAM ROC=0019FF;TURKISH LIRA SIGN=0020BA" \o
      ";PARENTHESIZED DIGIT FOUR=002477;DRAFTING POINT RIGHTWARDS ARROW=00279B" \o
      ";BRAILLE PATTERN DOTS-13456=00283D;BRAILLE PATTERN DOTS-12457=00285B" \o
      ";BRAILLE PATTERN DOTS-12367=002867;BRAILLE PATTERN DOTS-12358=002897" \o
      ";COPTIC CAPITAL LETTER EIE=002C88;GEORGIAN SMALL LETTER HAE=002D20;KANGXI RADICAL ICE=002F0E" \o
      ";BOPOMOFO LETTER R=003116;HANGUL LETTER SSANGIEUNG=003180;YI SYLLABLE HMUOP=00A09E" \o
      ";YI SYLLABLE NYIET=00A44E;VAI QUESTION MARK=00A60F;MODIFIER LETTER CAPITAL F=00A7F3" \o
      ";FULLWIDTH LATIN CAPITAL LETTER J=00FF2A;LINEAR B IDEOGRAM B141 GOLD=01009B" \o
      ";OLD PERSIAN SIGN A=0103A0;OSMANYA DIGIT TWO=0104A2;HANIFI ROHINGYA LETTER BA=010D01" \o
      ";HANIFI ROHINGYA DIGIT ONE=010D31;CHAKMA LETTER DHAA=011119;TIRHUTA LETTER II=011484" \o
      ";SIDDHAM LETTER VOCALIC LL=011589;DIVES AKURU VOWEL SIGN AA=011930;SOYOMBO LETTER JA=011A63" \o
      ";CANADIAN SYLLABICS NATTILIK SHRA=011ABA;PAU CIN HAU LETTER FINAL K=011ADD" \o
      ";CUNEIFORM SIGN I A=012140;EGYPTIAN HIEROGLYPH D067F=0130CF;EGYPTIAN HIEROGLYPH M012G=0131C3" \o
      ";EGYPTIAN HIEROGLYPH N035A=013217;EGYPTIAN HIEROGLYPH O006B=013259" \o
      ";EGYPTIAN HIEROGLYPH O025A=013277;EGYPTIAN HIEROGLYPH R003B=0132B4" \o
      ";EGYPTIAN HIEROGLYPH T011A=013316;BAMUM LETTER PHASE-B MBIT MBAAKET=01686C" \o
      ";BAMUM LETTER PHASE-E LOOT=01698C;BAMUM LETTER PHASE-E PEUT=0169BD" \o
      ";MIAO LETTER NASALIZATION=016F50;DUPLOYAN LETTER G=01BC0A" \o
      ";MATHEMATICAL SANS-SERIF ITALIC CAPITAL J=01D611;MATHEMATICAL MONOSPACE CAPITAL V=01D685" \o
      ";MATHEMATICAL ITALIC KAPPA SYMBOL=01D718;NYIAKENG PUACHUE HMONG LETTER XA=01E106" \o
      ";WHITE LATIN CROSS=01F546;ZIPPER-MOUTH FACE=01F910;CJK COMPATIBILITY IDEOGRAPH-2F801=02F801" \o
      ";CJK COMPATIBILITY IDEOGRAPH-2F810=02F810;CJK COMPATIBILITY IDEOGRAPH-2F900=02F900",
    ";LATIN SMALL LETTER O WITH STROKE=0000F8;LATIN CAPITAL LETTER U WITH DOUBLE ACUTE=000170" \o
      ";LATIN SMALL LETTER LONG S=00017F;LATIN CAPITAL LETTER R WITH DOUBLE GRAVE=000210" \o
      ";COPTIC CAPITAL LETTER FEI=0003E4;ARMENIAN SMALL LETTER ECH=000565" \o
      ";ARABIC LETTER SEEN WITH THREE DOTS BELOW=00069B;ARABIC LETTER ZAIN WITH INVERTED V ABOVE=0008B2" \o
      ";SINHALA VOWEL SIGN DIGA PAA-PILLA=000DD6;HANGUL JONGSEONG THIEUTH=0011C0" \o
      ";KHMER SYMBOL DAP-PII KOET=0019EC;OL CHIKI LETTER IH=001C66;OL CHIKI LETTER LE=001C6E" \o
      ";OL CHIKI LETTER OB=001C75;MODIFIER LETTER CAPITAL G=001D33" \o
      ";GREEK SMALL LETTER UPSILON WITH PSILI AND VARIA=001F52;SUPERSCRIPT ZERO=002070" \o
      ";TENGE SIGN=0020B8;TAPE DRIVE=002707;DOUBLE CURLY LOOP=0027BF;BRAILLE PATTERN DOTS-23456=00283E" \o
      ";BRAILLE PATTERN DOTS-13457=00285D;BRAILLE PATTERN DOTS-12467=00286B" \o
      ";BRAILLE PATTERN DOTS-12458=00289B;BRAILLE PATTERN DOTS-12368=0028A7" \o
      ";COPTIC CAPITAL LETTER CRYPTOGRAMMIC EIE=002CB6;RIGHT ANGLE SUBSTITUTION MARKER=002E00" \o
      ";KANGXI RADICAL BIG=002F24;BOPOMOFO LETTER S=003119;YI SYLLABLE GGUOX=00A21F" \o
      ";YI SYLLABLE CHURX=00A374;BAMUM LETTER PEUX=00A6C5;SYLOTI NAGRI LETTER TTHO=00A811" \o
      ";PHAGS-PA LETTER BA=00A84E;KAYAH LI LETTER PA=00A915" \o
      ";ARABIC SYMBOL TWO DOTS VERTICALLY BELOW=00FBBE;FULLWIDTH LATIN CAPITAL LETTER K=00FF2B" \o
      ";HANIFI ROHINGYA LETTER CA=010D06;MULTANI LETTER YA=0112A1;TIRHUTA LETTER RA=0114A9" \o
      ";NANDINAGARI VOWEL SIGN AI=0119DB;SOYOMBO LETTER KA=011A5C;PAU CIN HAU LETTER FINAL L=011AE1" \o
      ";TAMIL FRACTION DOWNSCALING FACTOR KIIZH=011FD4;CUNEIFORM SIGN EZEN TIMES KASKAL=0120AC" \o
      ";CUNEIFORM SIGN KI TIMES U=0121A2;EGYPTIAN HIEROGLYPH D067G=0130D0" \o
      ";EGYPTIAN HIEROGLYPH M012H=0131C4;EGYPTIAN HIEROGLYPH M028A=0131DA" \o
      ";EGYPTIAN HIEROGLYPH N018A=013201;EGYPTIAN HIEROGLYPH O006C=01325A" \o
      ";EGYPTIAN HIEROGLYPH T003A=01330A;EGYPTIAN HIEROGLYPH V001A=013363" \o
      ";BAMUM LETTER PHASE-D NYET=016922;BAMUM LETTER PHASE-E KUOP=01697A;TANGSA LETTER UIX=016A8F" \o
      ";DUPLOYAN LETTER H=01BC00;BYZANTINE MUSICAL SYMBOL GORGON NEO ANO=01D08F" \o
      ";MAYAN NUMERAL TWO=01D2E2;MATHEMATICAL SANS-SERIF ITALIC CAPITAL K=01D612" \o
      ";MATHEMATICAL MONOSPACE CAPITAL W=01D686;SIGNWRITING TORSO-FLOORPLANE TWISTING=01DA74" \o
      ";NYIAKENG PUACHUE HMONG LETTER YA=01E118;MENDE KIKAKUI DIGIT SEVEN=01E8CD" \o
      ";ARABIC MATHEMATICAL DOTLESS NOON=01EE1D;SQUARED CL=01F191;KEYCAP TEN=01F51F" \o
      ";ALCHEMICAL SYMBOL FOR OIL=01F746;RIGHTWARDS ARROW WITH LARGE TRIANGLE ARROWHEAD=01F80A" \o
      ";PALMS UP TOGETHER=01F932;SECOND PLACE MEDAL=01F948;CHECKER BOARD FILL=01FB95" \o
      ";CJK COMPATIBILITY IDEOGRAPH-2F802=02F802;CJK COMPATIBILITY IDEOGRAPH-2F811=02F811" \o
      ";CJK COMPATIBILITY IDEOGRAPH-2F820=02F820;CJK COMPATIBILITY IDEOGRAPH-2F901=02F901" \o
      ";CJK COMPATIBILITY IDEOGRAPH-2F910=02F910",
    ";GREEK CAPITAL LETTER EPSILON WITH TONOS=000388;HEBREW ACCENT DEHI=0005AD" \o
      ";SYRIAC LETTER SUPERSCRIPT ALAPH=000711;GURMUKHI LETTER I=000A07;ORIYA LETTER TTHA=000B20" \o
      ";TELUGU LETTER DZA=000C59;TIBETAN MARK GTER YIG MGO -UM RNAM BCAD MA=000F02" \o
      ";KHMER SYMBOL LEK ATTAK PRAM-MUOY=0017F6;MONGOLIAN SIBE SYLLABLE BOUNDARY MARKER=001807" \o
      ";NEW TAI LUE LETTER HIGH FA=00199A;TAI THAM LETTER LA=001A43" \o
      ";TAI THAM CONSONANT SIGN MEDIAL LA=001A56;COMBINING RIGHT PARENTHESIS ABOVE RIGHT=001AC2" \o
      ";MODIFIER LETTER CAPITAL H=001D34;LATIN SMALL LETTER P WITH STROKE=001D7D" \o
      ";ROMAN NUMERAL SIX=002165;MULTISET MULTIPLICATION=00228D;SQUARE CAP=002293" \o
      ";APL FUNCTIONAL SYMBOL CIRCLE JOT=00233E;WHITE CONCAVE-SIDED DIAMOND WITH LEFTWARDS TICK=0027E2" \o
      ";BRAILLE PATTERN DOTS-23457=00285E;BRAILLE PATTERN DOTS-13467=00286D" \o
      ";BRAILLE PATTERN DOTS-12567=002873;BRAILLE PATTERN DOTS-13458=00289D" \o
      ";BRAILLE PATTERN DOTS-12468=0028AB;BRAILLE PATTERN DOTS-12378=0028C7;KANGXI RADICAL AND=002F7D" \o
      ";BOPOMOFO LETTER T=00310A;SQUARE GAL=0033FF;PHAGS-PA LETTER CA=00A844;CHAM VOWEL SIGN EI=00AA2C" \o
      ";SESAME DOT=00FE45;FULLWIDTH LATIN CAPITAL LETTER L=00FF2C;LINEAR B IDEOGRAM B106F EWE=010086" \o
      ";DESERET CAPITAL LETTER EF=010419;HANIFI ROHINGYA LETTER DA=010D0A" \o
      ";HANIFI ROHINGYA SIGN TANA=010D26;YEZIDI LETTER ZAL=010E8C;SHARADA SEPARATOR=0111C8" \o
      ";TIRHUTA LETTER SA=0114AE;AHOM VOWEL SIGN AA=011721;SOYOMBO LETTER LA=011A7D" \o
      ";PAU CIN HAU LETTER FINAL M=011ADF;MASARAM GONDI DIGIT SEVEN=011D57" \o
      ";GUNJALA GONDI DIGIT SEVEN=011DA7;EGYPTIAN HIEROGLYPH D067H=0130D1" \o
      ";EGYPTIAN HIEROGLYPH N018B=013202;EGYPTIAN HIEROGLYPH N037A=01321A" \o
      ";EGYPTIAN HIEROGLYPH O006D=01325B;EGYPTIAN HIEROGLYPH O036A=013286" \o
      ";EGYPTIAN HIEROGLYPH S014A=0132E1;EGYPTIAN HIEROGLYPH V001B=013364" \o
      ";EGYPTIAN HIEROGLYPH V002A=01336D;EGYPTIAN HIEROGLYPH V011A=013379" \o
      ";EGYPTIAN HIEROGLYPH V020A=013387;EGYPTIAN HIEROGLYPH W010A=0133BB" \o
      ";BAMUM LETTER PHASE-D NYUE=01692F;BAMUM LETTER PHASE-E TOON=016967" \o
      ";BAMUM LETTER PHASE-E YEUM=0169BE;DUPLOYAN LETTER I=01BC46" \o
      ";ZNAMENNY COMBINING MARK MALO POVYSHE S KRYZHEM=01CF19" \o
      ";MATHEMATICAL SANS-SERIF ITALIC CAPITAL L=01D613;MATHEMATICAL MONOSPACE CAPITAL X=01D687" \o
      ";MATHEMATICAL SANS-SERIF BOLD CAPITAL PHI=01D76B;MATHEMATICAL SANS-SERIF BOLD SMALL ALPHA=01D770" \o
      ";SIGNWRITING HAND-FIST INDEX MIDDLE THUMB ANGLED=01D83F" \o
      ";SIGNWRITING HAND-CIRCLE MIDDLE RING LITTLE BENT=01D8D5" \o
      ";SIGNWRITING MOVEMENT-FLOORPLANE ARM CIRCLE HITTING WALL LARGE SINGLE=01D9E9" \o
      ";NYIAKENG PUACHUE HMONG LETTER ZA=01E10B;NYIAKENG PUACHUE HMONG DIGIT TWO=01E142" \o
      ";SUNFLOWER=01F33B;SPIDER WEB=01F578;SWASH AMPERSAND ORNAMENT=01F675" \o
      ";CJK COMPATIBILITY IDEOGRAPH-2F803=02F803;CJK COMPATIBILITY IDEOGRAPH-2F812=02F812" \o
      ";CJK COMPATIBILITY IDEOGRAPH-2F821=02F821;CJK COMPATIBILITY IDEOGRAPH-2F830=02F830" \o
      ";CJK COMPATIBILITY IDEOGRAPH-2F902=02F902;CJK COMPATIBILITY IDEOGRAPH-2F911=02F911" \o
      ";CJK COMPATIBILITY IDEOGRAPH-2F920=02F920",
    ";LATIN CAPITAL LIGATURE IJ=000132;LATIN LETTER DENTAL CLICK=0001C0" \o
      ";COMBINING NOT TILDE ABOVE=00034A;ARABIC LETTER BEEH=00067B" \o
      ";ARABIC LETTER MEEM WITH DOT ABOVE=000765;SINHALA LETTER ILUUYANNA=000D90" \o
      ";HANGUL JONGSEONG PANSIOS=0011EB;ETHIOPIC TONAL MARK DIFAT=001394;KHMER LETTER TTHO=00178D" \o
      ";TAI THAM LETTER MA=001A3E;BALINESE VOWEL SIGN PEPET TEDUNG=001B43;BATAK VOWEL SIGN E=001BE7" \o
      ";OL CHIKI LETTER EN=001C71;MODIFIER LETTER CAPITAL I=001D35;PARENTHESIZED NUMBER TEN=00247D" \o
      ";BLACK UP-POINTING SMALL TRIANGLE=0025B4;BRAILLE PATTERN DOTS-23467=00286E" \o
      ";BRAILLE PATTERN DOTS-13567=002875;BRAILLE PATTERN DOTS-23458=00289E" \o
      ";BRAILLE PATTERN DOTS-13468=0028AD;BRAILLE PATTERN DOTS-12568=0028B3" \o
      ";BRAILLE PATTERN DOTS-12478=0028CB;GEORGIAN SMALL LETTER BAN=002D01;BOPOMOFO LETTER U=003128" \o
      ";HANGUL LETTER RIEUL-YEORINHIEUH=00316D;SQUARE BAR=003374;YI SYLLABLE SSIEX=00A32E" \o
      ";BAMUM LETTER REUX=00A6D0;PHAGS-PA LETTER DA=00A84A;SAURASHTRA VOWEL SIGN UU=00A8B9" \o
      ";KAYAH LI LETTER RA=00A91A;CHEROKEE SMALL LETTER HNA=00AB8F;CHEROKEE SMALL LETTER NAH=00AB90" \o
      ";ARABIC LIGATURE TEH WITH ALEF MAKSURA FINAL FORM=00FC74;FULLWIDTH LATIN CAPITAL LETTER M=00FF2D" \o
      ";OSMANYA LETTER OO=01049D;CHAKMA LETTER GHAA=01110A;TIRHUTA LETTER TA=01149E" \o
      ";TIRHUTA DIGIT SIX=0114D6;SIDDHAM REPETITION MARK-1=0115C6;SOYOMBO LETTER MA=011A74" \o
      ";PAU CIN HAU LETTER FINAL N=011AE0;TAMIL SIGN KURUNI=011FDA" \o
      ";CUNEIFORM NUMERIC SIGN TWO SHAR2=012423;EGYPTIAN HIEROGLYPH O006E=01325C" \o
      ";EGYPTIAN HIEROGLYPH O019A=01326E;EGYPTIAN HIEROGLYPH O036B=013287" \o
      ";EGYPTIAN HIEROGLYPH R016A=0132C3;EGYPTIAN HIEROGLYPH S006A=0132D8" \o
      ";EGYPTIAN HIEROGLYPH S014B=0132E2;EGYPTIAN HIEROGLYPH T032A=01332D" \o
      ";EGYPTIAN HIEROGLYPH V001C=013365;EGYPTIAN HIEROGLYPH V011B=01337A" \o
      ";EGYPTIAN HIEROGLYPH V012A=01337D;EGYPTIAN HIEROGLYPH V020B=013388" \o
      ";EGYPTIAN HIEROGLYPH V030A=0133A0;BAMUM LETTER PHASE-D TEUT=016900" \o
      ";BAMUM LETTER PHASE-D MVOP=01695E;TANGSA LETTER UIZ=016A8C;MIAO VOWEL SIGN AA=016F55" \o
      ";DUPLOYAN LETTER J=01BC1B;ZNAMENNY NEUME STRELA POVODNAYA=01CF96" \o
      ";BYZANTINE MUSICAL SYMBOL DIGORGON PARESTIGMENON ARISTERA ANO=01D094" \o
      ";MATHEMATICAL SANS-SERIF ITALIC CAPITAL M=01D614;MATHEMATICAL MONOSPACE CAPITAL Y=01D688" \o
      ";SIGNWRITING TRAVEL-WALLPLANE ROTATION-WALLPLANE ALTERNATING=01D94D;WANCHO TONE TUPNI=01E2ED" \o
      ";INDIC SIYAQ NUMBER LAKHAN=01EC9F;OTTOMAN SIYAQ NUMBER SIX=01ED06;STATUE OF LIBERTY=01F5FD" \o
      ";BOX DRAWINGS LIGHT DIAGONAL MIDDLE LEFT TO LOWER CENTRE=01FBA2" \o
      ";CJK COMPATIBILITY IDEOGRAPH-2F804=02F804;CJK COMPATIBILITY IDEOGRAPH-2F813=02F813" \o
      ";CJK COMPATIBILITY IDEOGRAPH-2F822=02F822;CJK COMPATIBILITY IDEOGRAPH-2F831=02F831" \o
      ";CJK COMPATIBILITY IDEOGRAPH-2F840=02F840;CJK COMPATIBILITY IDEOGRAPH-2F903=02F903" \o
      ";CJK COMPATIBILITY IDEOGRAPH-2F912=02F912;CJK COMPATIBILITY IDEOGRAPH-2F921=02F921" \o
      ";CJK COMPATIBILITY IDEOGRAPH-2F930=02F930",
    ";LATIN CAPITAL LIGATURE OE=000152;LATIN CAPITAL LETTER U WITH DOUBLE GRAVE=000214" \o
      ";LATIN SMALL LETTER R WITH STROKE=00024D;CYRILLIC CAPITAL LETTER GHE WITH UPTURN=000490" \o
      ";ARMENIAN SMALL LETTER FEH=000586;ARABIC LETTER DDAL=000688" \o
      ";ARABIC LETTER NOON WITH THREE DOTS ABOVE=0006BD;SYRIAC LETTER TAW=00072C" \o
      ";BENGALI LETTER VOCALIC RR=0009E0;TELUGU DIGIT ZERO=000C66;KANNADA LETTER DDA=000CA1" \o
      ";RUNIC LETTER SHORT-TWIG-HAGALL H=0016BD;RUNIC LETTER STAN=0016E5" \o
      ";NEW TAI LUE LETTER HIGH HA=0019A0;KHMER SYMBOL DAP-BUON ROC=0019FE;TAI THAM LETTER NA=001A36" \o
      ";MODIFIER LETTER CAPITAL J=001D36;LATIN CAPITAL LETTER R WITH DOT BELOW AND MACRON=001E5C" \o
      ";ZERO WIDTH JOINER=00200D;BOTTOM RIGHT CROP=00230C;AC CURRENT=0023E6" \o
      ";BLACK LOWER LEFT TRIANGLE=0025E3;BALLOT BOX=002610;BRAILLE PATTERN DOTS-23567=002876" \o
      ";BRAILLE PATTERN DOTS-14567=002879;BRAILLE PATTERN DOTS-23468=0028AE" \o
      ";BRAILLE PATTERN DOTS-13568=0028B5;BRAILLE PATTERN DOTS-13478=0028CD" \o
      ";BRAILLE PATTERN DOTS-12578=0028D3;RIGHT SQUARE BRACKET WITH TICK IN BOTTOM CORNER=00298E" \o
      ";EQUALS SIGN ABOVE TILDE OPERATOR=002A73;COPTIC SMALL LETTER CROSSED SHEI=002CC3" \o
      ";COPTIC CAPITAL LETTER L-SHAPED HA=002CD0;GEORGIAN SMALL LETTER CAN=002D1A" \o
      ";BOPOMOFO LETTER V=00312A;CIRCLED KATAKANA U=0032D2;HEXAGRAM FOR GREAT TAMING=004DD9" \o
      ";YI SYLLABLE GGURX=00A22E;YI SYLLABLE NGUOT=00A264;YI SYLLABLE NYIEX=00A44F" \o
      ";COMBINING CYRILLIC VZMET=00A66F;BAMUM LETTER SEUX=00A6B9;KAYAH LI LETTER SA=00A90E" \o
      ";KAYAH LI LETTER OE=00A923;HANGUL JONGSEONG TIKEUT-THIEUTH=00D7D4" \o
      ";ARABIC LETTER ALEF MAKSURA ISOLATED FORM=00FEEF;FULLWIDTH LATIN CAPITAL LETTER N=00FF2E" \o
      ";LINEAR A SIGN A701 A=010740;MEROITIC CURSIVE NUMBER EIGHT HUNDRED THOUSAND=0109F4" \o
      ";KHAROSHTHI SIGN ANUSVARA=010A0E;HANIFI ROHINGYA LETTER FA=010D09;CHAKMA DIGIT EIGHT=01113E" \o
      ";KHOJKI SIGN SUKUN=01123E;TIRHUTA LETTER AU=01148E;SIDDHAM REPETITION MARK-2=0115C7" \o
      ";SOYOMBO LETTER NA=011A6F;CUNEIFORM SIGN DU OVER DU=01207B;EGYPTIAN HIEROGLYPH NL001=013220" \o
      ";EGYPTIAN HIEROGLYPH NL010=01322A;EGYPTIAN HIEROGLYPH O006F=01325D" \o
      ";EGYPTIAN HIEROGLYPH O029A=01327C;EGYPTIAN HIEROGLYPH O036C=013288" \o
      ";EGYPTIAN HIEROGLYPH T033A=01332F;EGYPTIAN HIEROGLYPH U023A=01334C" \o
      ";EGYPTIAN HIEROGLYPH U032A=013357;EGYPTIAN HIEROGLYPH V001D=013366" \o
      ";EGYPTIAN HIEROGLYPH V011C=01337B;EGYPTIAN HIEROGLYPH V012B=01337E" \o
      ";EGYPTIAN HIEROGLYPH V020C=013389;EGYPTIAN HIEROGLYPH V031A=0133A2" \o
      ";EGYPTIAN HIEROGLYPH V040A=0133AE;EGYPTIAN HIEROGLYPH W003A=0133B2" \o
      ";EGYPTIAN HIEROGLYPH Y001A=0133DC;BAMUM LETTER PHASE-B TU MAEMGBIEE=016858" \o
      ";BAMUM LETTER PHASE-C YEUQ=0168A7;BAMUM LETTER PHASE-C NSUN=0168D6" \o
      ";BAMUM LETTER PHASE-D NSUM=016940;BAMUM LETTER PHASE-E PEUX=0169E7" \o
      ";BAMUM LETTER PHASE-F VUEQ=016A38;DUPLOYAN LETTER K=01BC05" \o
      ";ZNAMENNY COMBINING MARK POVYSHE ON LEFT=01CF07" \o
      ";BYZANTINE MUSICAL SYMBOL SIMANSIS THESEOS TETRASIMOU=01D0E1" \o
      ";MATHEMATICAL SANS-SERIF ITALIC CAPITAL N=01D615;MATHEMATICAL MONOSPACE CAPITAL Z=01D689" \o
      ";SIGNWRITING HAND-FIST INDEX MIDDLE CONJOINED HINGED THUMB SIDE=01D832" \o
      ";SIGNWRITING DREAMY EYEBROWS UP NEUTRAL=01DA0F;SIGNWRITING DREAMY EYEBROWS NEUTRAL UP=01DA10" \o
      ";LATIN SMALL LETTER ENG WITH PALATAL HOOK=01DF14;INDIC SIYAQ NUMBER FIVE THOUSAND=01EC90" \o
      ";INDIC SIYAQ NUMBER NINE THOUSAND=01EC94;CIRCLED WZ=01F12E;LAST QUARTER MOON SYMBOL=01F317" \o
      ";LEFTWARDS ARROW WITH MEDIUM TRIANGLE ARROWHEAD=01F804;CJK COMPATIBILITY IDEOGRAPH-2F805=02F805" \o
      ";CJK COMPATIBILITY IDEOGRAPH-2F814=02F814;CJK COMPATIBILITY IDEOGRAPH-2F823=02F823" \o
      ";CJK COMPATIBILITY IDEOGRAPH-2F832=02F832;CJK COMPATIBILITY IDEOGRAPH-2F841=02F841" \o
      ";CJK COMPATIBILITY IDEOGRAPH-2F850=02F850;CJK COMPATIBILITY IDEOGRAPH-2F904=02F904" \o
      ";CJK COMPATIBILITY IDEOGRAPH-2F913=02F913;CJK COMPATIBILITY IDEOGRAPH-2F922=02F922" \o
      ";CJK COMPATIBILITY IDEOGRAPH-2F931=02F931;CJK COMPATIBILITY IDEOGRAPH-2F940=02F940",
    ";COMBINING DOT ABOVE RIGHT=000358;ARABIC LETTER DOTLESS QAF=00066F" \o
      ";SYRIAC HBASA-ESASA DOTTED=00073C;TIBETAN LOGOTYPE SIGN LHAG RTAGS=000F16" \o
      ";MYANMAR SYMBOL COMPLETED=00104D;MONGOLIAN LETTER ALI GALI DAGALGA=0018A9" \o
      ";OL CHIKI DIGIT SIX=001C56;OL CHIKI LETTER AT=001C5B;OL CHIKI LETTER LI=001C64" \o
      ";OL CHIKI LETTER EP=001C6F;MODIFIER LETTER CAPITAL K=001D37" \o
      ";GREEK SMALL LETTER ALPHA WITH DASIA AND VARIA AND YPOGEGRAMMENI=001F83" \o
      ";RIGHTWARDS ARROW WITH CORNER DOWNWARDS=0021B4;RIGHT SEMIDIRECT PRODUCT=0022CC" \o
      ";NEGATIVE CIRCLED NUMBER NINETEEN=0024F3;BLACK MEDIUM SMALL SQUARE=0025FE" \o
      ";BLACK LEFT POINTING INDEX=00261A;BRAILLE PATTERN DOTS-24567=00287A" \o
      ";BRAILLE PATTERN DOTS-23568=0028B6;BRAILLE PATTERN DOTS-14568=0028B9" \o
      ";BRAILLE PATTERN DOTS-23478=0028CE;BRAILLE PATTERN DOTS-13578=0028D5" \o
      ";BRAILLE PATTERN DOTS-12678=0028E3;TIE OVER INFINITY=0029DD;VERTICAL SIX DOTS=002E3D" \o
      ";SQUARE RAD=0033AD;YI SYLLABLE NZIEX=00A2F1;YI SYLLABLE CHYRX=00A37A" \o
      ";LATIN CAPITAL LETTER HENG=00A726;PHAGS-PA LETTER FA=00A864;KAYAH LI DIGIT SIX=00A906" \o
      ";KAYAH LI LETTER TA=00A912;FULLWIDTH LATIN CAPITAL LETTER O=00FF2F" \o
      ";AEGEAN NUMBER SIX HUNDRED=01011E;PALMYRENE LEFT-POINTING FLEURON=010877" \o
      ";KHAROSHTHI SIGN BAR ABOVE=010A38;HANIFI ROHINGYA LETTER GA=010D12;RUMI NUMBER FIFTY=010E6D" \o
      ";YEZIDI LETTER SIN=010E91;SOGDIAN COMBINING TWO DOTS BELOW=010F47" \o
      ";BRAHMI NUMBER ONE HUNDRED=011064;TIRHUTA LETTER VA=0114AB;SIDDHAM REPETITION MARK-3=0115C8" \o
      ";NANDINAGARI SIGN AVAGRAHA=0119E1;PAU CIN HAU LETTER FINAL P=011ADC" \o
      ";BHAIKSUKI WORD SEPARATOR=011C43;TAMIL FRACTION ONE EIGHTH=011FCC;CUNEIFORM SIGN ZU=01236A" \o
      ";EGYPTIAN HIEROGLYPH NL002=013221;EGYPTIAN HIEROGLYPH NL011=01322B" \o
      ";EGYPTIAN HIEROGLYPH NL020=013235;EGYPTIAN HIEROGLYPH O036D=013289" \o
      ";EGYPTIAN HIEROGLYPH S017A=0132E6;EGYPTIAN HIEROGLYPH S026A=0132F0" \o
      ";EGYPTIAN HIEROGLYPH S035A=0132FB;EGYPTIAN HIEROGLYPH T007A=01330F" \o
      ";EGYPTIAN HIEROGLYPH T016A=01331C;EGYPTIAN HIEROGLYPH U006A=013339" \o
      ";EGYPTIAN HIEROGLYPH V001E=013367;EGYPTIAN HIEROGLYPH V020D=01338A" \o
      ";EGYPTIAN HIEROGLYPH V023A=013396;BAMUM LETTER PHASE-C SEUX=0168AA" \o
      ";BAMUM LETTER PHASE-F PEUX=016A1F;BASSA VAH LETTER O=016AE8;DUPLOYAN LETTER L=01BC06" \o
      ";ZNAMENNY NEUME SKAMEYTSA DVOECHELNAYA NEPOSTOYANNAYA=01CF7B" \o
      ";BYZANTINE MUSICAL SYMBOL MARTYRIA ALLI DEYTEROS ICHOS=01D0A5;TETRAGRAM FOR COMPLETION=01D34E" \o
      ";MATHEMATICAL SANS-SERIF ITALIC CAPITAL O=01D616;MATHEMATICAL SANS-SERIF BOLD SMALL OMEGA=01D788" \o
      ";MATHEMATICAL SANS-SERIF BOLD DIGIT EIGHT=01D7F4" \o
      ";SIGNWRITING MOVEMENT-WALLPLANE CURVE QUARTER LARGEST=01D98B;SIGNWRITING DYNAMIC FAST=01D9F7" \o
      ";NYIAKENG PUACHUE HMONG LETTER OO=01E129;LEFTWARDS TRIANGLE-HEADED ARROW WITH BOLD SHAFT=01F828" \o
      ";UPWARDS ARROW AND RIGHT ONE EIGHTH BLOCK=01FBB8;CJK COMPATIBILITY IDEOGRAPH-2F806=02F806" \o
      ";CJK COMPATIBILITY IDEOGRAPH-2F815=02F815;CJK COMPATIBILITY IDEOGRAPH-2F824=02F824" \o
      ";CJK COMPATIBILITY IDEOGRAPH-2F833=02F833;CJK COMPATIBILITY IDEOGRAPH-2F842=02F842" \o
      ";CJK COMPATIBILITY IDEOGRAPH-2F851=02F851;CJK COMPATIBILITY IDEOGRAPH-2F860=02F860" \o
      ";CJK COMPATIBILITY IDEOGRAPH-2F905=02F905;CJK COMPATIBILITY IDEOGRAPH-2F914=02F914" \o
      ";CJK COMPATIBILITY IDEOGRAPH-2F923=02F923;CJK COMPATIBILITY IDEOGRAPH-2F932=02F932" \o
      ";CJK COMPATIBILITY IDEOGRAPH-2F941=02F941;CJK COMPATIBILITY IDEOGRAPH-2F950=02F950",
    ";LATIN SMALL LETTER T WITH STROKE=000167;COMBINING ACUTE TONE MARK=000341" \o
      ";GREEK CAPITAL LETTER IOTA=000399;ARMENIAN SMALL LETTER BEN=000562" \o
      ";EXTENDED ARABIC-INDIC DIGIT EIGHT=0006F8;KANNADA LETTER BHA=000CAD;KANNADA DIGIT FIVE=000CEB" \o
      ";KANNADA DIGIT NINE=000CEF;MODIFIER LETTER CAPITAL L=001D38" \o
      ";APL FUNCTIONAL SYMBOL QUAD EQUAL=002338;BRAILLE PATTERN DOTS-34567=00287C" \o
      ";BRAILLE PATTERN DOTS-24568=0028BA;BRAILLE PATTERN DOTS-23578=0028D6" \o
      ";BRAILLE PATTERN DOTS-14578=0028D9;BRAILLE PATTERN DOTS-13678=0028E5;DOUBLE LOGICAL AND=002A53" \o
      ";LESS-THAN CLOSED BY CURVE=002AA6;SOUTH EAST TRIANGLE-HEADED ARROW=002B68" \o
      ";GEORGIAN SMALL LETTER AEN=002D2D;CJK RADICAL REPEAT=002E80;BOPOMOFO LETTER X=003112" \o
      ";PARENTHESIZED IDEOGRAPH SOCIETY=003233;SQUARE GPA=0033AC;YI SYLLABLE NBURX=00A089" \o
      ";YI SYLLABLE SHUOP=00A3B1;PHAGS-PA LETTER GA=00A842;KAYAH LI SIGN SHYA=00A92F" \o
      ";JAVANESE LETTER NGA LELET=00A98A;CHAM VOWEL SIGN II=00AA2B" \o
      ";FULLWIDTH LATIN CAPITAL LETTER P=00FF30;LINEAR A SIGN A702 B=010741" \o
      ";HANIFI ROHINGYA LETTER HA=010D07;CHAKMA LETTER JHAA=01110F;SHARADA LETTER VOCALIC RR=01118A" \o
      ";MODI VOWEL SIGN AA=011630;SOYOMBO LETTER PA=011A70;CUNEIFORM SIGN PI TIMES U=012287" \o
      ";CUNEIFORM NUMERIC SIGN SEVEN ASH=012405;EGYPTIAN HIEROGLYPH NL003=013222" \o
      ";EGYPTIAN HIEROGLYPH NL012=01322C;EGYPTIAN HIEROGLYPH S026B=0132F1" \o
      ";EGYPTIAN HIEROGLYPH T008A=013311;EGYPTIAN HIEROGLYPH U006B=01333A" \o
      ";EGYPTIAN HIEROGLYPH V001F=013368;EGYPTIAN HIEROGLYPH V020E=01338B" \o
      ";EGYPTIAN HIEROGLYPH V033A=0133A5;EGYPTIAN HIEROGLYPH W014A=0133C0" \o
      ";EGYPTIAN HIEROGLYPH X004A=0133D3;EGYPTIAN HIEROGLYPH Z002A=0133E6" \o
      ";BAMUM LETTER PHASE-E YUEQ=0169B2;BAMUM LETTER PHASE-E NTUM=0169BC" \o
      ";BAMUM LETTER PHASE-E REUX=0169EF;DUPLOYAN LETTER M=01BC19" \o
      ";ZNAMENNY NEUME GOLUBCHIK SVETLY=01CF61;MATHEMATICAL SANS-SERIF ITALIC CAPITAL P=01D617" \o
      ";MATHEMATICAL SANS-SERIF BOLD SMALL DELTA=01D773" \o
      ";SIGNWRITING HAND-FIST INDEX MIDDLE STRAIGHT THUMB BENT=01D820" \o
      ";SIGNWRITING HAND-FIST INDEX MIDDLE BENT THUMB STRAIGHT=01D821" \o
      ";SIGNWRITING HAND-FIST INDEX MIDDLE THUMB HINGED=01D82B;SIGNWRITING HAND-FLAT THUMB SIDE=01D85D" \o
      ";SIGNWRITING HAND-CLAW THUMB SIDE=01D867;SIGNWRITING HAND-FIST INDEX RING LITTLE=01D8BA" \o
      ";SIGNWRITING HAND-FIST INDEX THUMB SIDE THUMB CONJOINED=01D8DF" \o
      ";SIGNWRITING MOVEMENT-FLOORPLANE CORNER MEDIUM=01D975;COMBINING GLAGOLITIC LETTER VEDE=01E002" \o
      ";COMBINING GLAGOLITIC LETTER FITA=01E02A;INPUT SYMBOL FOR NUMBERS=01F522;DIZZY FACE=01F635" \o
      ";CAT FACE WITH TEARS OF JOY=01F639;ALCHEMICAL SYMBOL FOR GUM=01F749" \o
      ";BOX DRAWINGS LIGHT DIAGONAL UPPER CENTRE TO MIDDLE LEFT=01FBA0;STICK FIGURE LEANING LEFT=01FBC7" \o
      ";CJK COMPATIBILITY IDEOGRAPH-2F807=02F807;CJK COMPATIBILITY IDEOGRAPH-2F816=02F816" \o
      ";CJK COMPATIBILITY IDEOGRAPH-2F825=02F825;CJK COMPATIBILITY IDEOGRAPH-2F834=02F834" \o
      ";CJK COMPATIBILITY IDEOGRAPH-2F843=02F843;CJK COMPATIBILITY IDEOGRAPH-2F852=02F852" \o
      ";CJK COMPATIBILITY IDEOGRAPH-2F861=02F861;CJK COMPATIBILITY IDEOGRAPH-2F870=02F870" \o
      ";CJK COMPATIBILITY IDEOGRAPH-2F906=02F906;CJK COMPATIBILITY IDEOGRAPH-2F915=02F915" \o
      ";CJK COMPATIBILITY IDEOGRAPH-2F924=02F924;CJK COMPATIBILITY IDEOGRAPH-2F933=02F933" \o
      ";CJK COMPATIBILITY IDEOGRAPH-2F942=02F942;CJK COMPATIBILITY IDEOGRAPH-2F951=02F951" \o
      ";CJK COMPATIBILITY IDEOGRAPH-2F960=02F960",
    ";COMBINING DOWN TACK BELOW=00031E;CYRILLIC CAPITAL LETTER A=000410;ARABIC LETTER ALEF=000627" \o
      ";SYRIAC LETTER WAW=000718;TELUGU SIGN NUKTA=000C3C;KANNADA LETTER CHA=000C9B" \o
      ";HANGUL JUNGSEONG ARAEA-EO=00119F;NEW TAI LUE LETTER HIGH KA=001982" \o
      ";NEW TAI LUE LETTER FINAL B=0019C7;TAI THAM LETTER II=001A4E;TAI THAM SIGN KHUEN TONE-3=001A77" \o
      ";BATAK VOWEL SIGN I=001BEA;OL CHIKI LETTER OH=001C77;MODIFIER LETTER CAPITAL M=001D39" \o
      ";GREEK SUBSCRIPT SMALL LETTER CHI=001D6A;LEFT SQUARE BRACKET LOWER CORNER=0023A3" \o
      ";BLACK UPPER LEFT TRIANGLE=0025E4;BRAILLE PATTERN DOTS-34568=0028BC" \o
      ";BRAILLE PATTERN DOTS-24578=0028DA;BRAILLE PATTERN DOTS-23678=0028E6" \o
      ";BRAILLE PATTERN DOTS-14678=0028E9;DOWNWARDS TRIANGLE-HEADED PAIRED ARROWS=002B87" \o
      ";BOTTOM RIGHT HALF BRACKET=002E25;KANGXI RADICAL EAR=002F7F;HANGUL LETTER SSANGNIEUN=003165" \o
      ";CIRCLED IDEOGRAPH SPECIAL=003295;SQUARE HPA=003371;YI SYLLABLE HLUOX=00A1A2" \o
      ";YI SYLLABLE MGUOX=00A236;YI SYLLABLE JJUOX=00A420;LATIN SMALL LETTER U WITH STROKE=00A7B9" \o
      ";PHAGS-PA LETTER HA=00A85C;KAYAH LI LETTER VA=00A920;FULLWIDTH LATIN CAPITAL LETTER Q=00FF31" \o
      ";DESERET SMALL LETTER CHEE=01043D;YEZIDI LETTER EYN=010E97;CHAKMA LETTER KHAA=011108" \o
      ";SOYOMBO SIGN UPADHMANIYA=011A85;CUNEIFORM NUMERIC SIGN ONE GESHU=01241E" \o
      ";EGYPTIAN HIEROGLYPH NL004=013223;EGYPTIAN HIEROGLYPH NL013=01322D" \o
      ";EGYPTIAN HIEROGLYPH T009A=013313;EGYPTIAN HIEROGLYPH V001G=013369" \o
      ";EGYPTIAN HIEROGLYPH V007A=013373;EGYPTIAN HIEROGLYPH V020F=01338C" \o
      ";EGYPTIAN HIEROGLYPH W024A=0133CD;EGYPTIAN HIEROGLYPH X004B=0133D4" \o
      ";EGYPTIAN HIEROGLYPH Z002B=0133E7;EGYPTIAN HIEROGLYPH Z003A=0133EB" \o
      ";BAMUM LETTER PHASE-F REUX=016A25;MIAO VOWEL SIGN AE=016F73;MIAO VOWEL SIGN EA=016F85" \o
      ";DUPLOYAN LETTER N=01BC1A;DUPLOYAN PUNCTUATION CHINOOK FULL STOP=01BC9F" \o
      ";BYZANTINE MUSICAL SYMBOL DIESIS TETARTIMORION=01D0CF;MUSICAL SYMBOL TR=01D196" \o
      ";MATHEMATICAL SANS-SERIF ITALIC CAPITAL Q=01D618;INDIC SIYAQ NUMBER PREFIXED FOUR=01ECA6" \o
      ";INDIC SIYAQ FRACTION ONE QUARTER=01ECAD;SQUARED NG=01F196;LINKED PAPERCLIPS=01F587" \o
      ";WIDE-HEADED SOUTH WEST MEDIUM BARB ARROW=01F877;BLACK CHESS TURNED BISHOP=01FA27" \o
      ";BLACK CHESS TURNED KNIGHT=01FA28;BLACK CHESS KNIGHT-BISHOP=01FA53" \o
      ";CJK COMPATIBILITY IDEOGRAPH-2F808=02F808;CJK COMPATIBILITY IDEOGRAPH-2F817=02F817" \o
      ";CJK COMPATIBILITY IDEOGRAPH-2F826=02F826;CJK COMPATIBILITY IDEOGRAPH-2F835=02F835" \o
      ";CJK COMPATIBILITY IDEOGRAPH-2F844=02F844;CJK COMPATIBILITY IDEOGRAPH-2F853=02F853" \o
      ";CJK COMPATIBILITY IDEOGRAPH-2F862=02F862;CJK COMPATIBILITY IDEOGRAPH-2F871=02F871" \o
      ";CJK COMPATIBILITY IDEOGRAPH-2F880=02F880;CJK COMPATIBILITY IDEOGRAPH-2F907=02F907" \o
      ";CJK COMPATIBILITY IDEOGRAPH-2F916=02F916;CJK COMPATIBILITY IDEOGRAPH-2F925=02F925" \o
      ";CJK COMPATIBILITY IDEOGRAPH-2F934=02F934;CJK COMPATIBILITY IDEOGRAPH-2F943=02F943" \o
      ";CJK COMPATIBILITY IDEOGRAPH-2F952=02F952;CJK COMPATIBILITY IDEOGRAPH-2F961=02F961" \o
      ";CJK COMPATIBILITY IDEOGRAPH-2F970=02F970",
    ";MICRO SIGN=0000B5;COMBINING PALATALIZED HOOK BELOW=000321;COMBINING DOUBLE LOW LINE=000333" \o
      ";COMBINING SHORT SOLIDUS OVERLAY=000337;NKO LETTER JONA JA=0007E8;BENGALI LETTER DDA=0009A1" \o
      ";TELUGU LETTER RRA=000C31;KANNADA LETTER DHA=000CA7;MALAYALAM LETTER CHILLU K=000D7F" \o
      ";MONGOLIAN LETTER SIBE RAA=001870;NEW TAI LUE LETTER HIGH LA=00199C" \o
      ";NEW TAI LUE THAM DIGIT ONE=0019DA;TAI THAM LETTER RA=001A41" \o
      ";TAI THAM CONSONANT SIGN MEDIAL RA=001A55;TAI THAM SIGN KHUEN TONE-4=001A78" \o
      ";OL CHIKI LETTER UC=001C6A;MODIFIER LETTER CAPITAL N=001D3A" \o
      ";GREEK CAPITAL LETTER ETA WITH DASIA AND OXIA AND PROSGEGRAMMENI=001F9D" \o
      ";GREEK SMALL LETTER OMEGA WITH DASIA AND VARIA AND YPOGEGRAMMENI=001FA3;RUBLE SIGN=0020BD" \o
      ";OUNCE SIGN=002125;ROMAN NUMERAL TWO=002161;BRAILLE PATTERN DOTS-34578=0028DC" \o
      ";BRAILLE PATTERN DOTS-24678=0028EA;BRAILLE PATTERN DOTS-15678=0028F1" \o
      ";PARALLEL WITH HORIZONTAL STROKE=002AF2;LEFTWARDS ARROW WITH TAIL WITH VERTICAL STROKE=002B39" \o
      ";GEORGIAN SMALL LETTER GAN=002D02;GEORGIAN SMALL LETTER HIE=002D22;KANGXI RADICAL LID=002F07" \o
      ";BOPOMOFO LETTER Z=003117;YI SYLLABLE HMUOX=00A09C;YI SYLLABLE NDURX=00A166" \o
      ";YI SYLLABLE NGUOX=00A265;PHAGS-PA LETTER EE=00A866;KAYAH LI LETTER WA=00A91D" \o
      ";CHAM VOWEL SIGN OE=00AA2E;ARABIC LETTER TCHEHEH MEDIAL FORM=00FB81" \o
      ";ARABIC LIGATURE YEH WITH ALEF MAKSURA FINAL FORM=00FC95" \o
      ";PRESENTATION FORM FOR VERTICAL LOW LINE=00FE33;FULLWIDTH LATIN CAPITAL LETTER R=00FF32" \o
      ";HALFWIDTH HANGUL LETTER A=00FFC2;LINEAR B IDEOGRAM B106M RAM=010087;OLD PERSIAN SIGN I=0103A1" \o
      ";DESERET CAPITAL LETTER EL=010422;HANIFI ROHINGYA LETTER JA=010D05;CHAKMA LETTER LHAA=011144" \o
      ";NEWA VOWEL SIGN AA=011435;TIRHUTA LETTER YA=0114A8;DIVES AKURU VOWEL SIGN AI=011937" \o
      ";SOYOMBO LETTER RA=011A7C;CANADIAN SYLLABICS NATTILIK SHRI=011AB6" \o
      ";CUNEIFORM SIGN KA TIMES GAN2 TENU=012164;CUNEIFORM SIGN NINDA2 TIMES SHE PLUS A AN=01225B" \o
      ";EGYPTIAN HIEROGLYPH NL005=013224;EGYPTIAN HIEROGLYPH NL014=01322E" \o
      ";EGYPTIAN HIEROGLYPH V001H=01336A;EGYPTIAN HIEROGLYPH V007B=013374" \o
      ";EGYPTIAN HIEROGLYPH V020G=01338D;EGYPTIAN HIEROGLYPH X006A=0133D7" \o
      ";EGYPTIAN HIEROGLYPH Z002C=0133E8;EGYPTIAN HIEROGLYPH Z003B=0133EC" \o
      ";EGYPTIAN HIEROGLYPH Z004A=0133EE;BAMUM LETTER PHASE-C VEUX=0168B1" \o
      ";BAMUM LETTER PHASE-F SEUX=016A15;MIAO LETTER TONE-2=016F93" \o
      ";DUPLOYAN LETTER S WITH DOT BELOW=01BC26;DUPLOYAN LETTER O=01BC44" \o
      ";ZNAMENNY COMBINING MARK TSATA S KRYZHEM=01CF18;ZNAMENNY NEUME PEREVODKA=01CF58" \o
      ";ZNAMENNY NEUME SKAMEYTSA KLYUCHEVAYA SVETLAYA=01CF76;DIGRAM FOR HEAVENLY EARTH=01D301" \o
      ";DIGRAM FOR EARTHLY HEAVEN=01D303;MATHEMATICAL SANS-SERIF ITALIC CAPITAL R=01D619" \o
      ";COMBINING GLAGOLITIC LETTER KAKO=01E00D;SIDEWAYS BLACK UP POINTING INDEX=01F5A0" \o
      ";KISSING CAT FACE WITH CLOSED EYES=01F63D;NO SMOKING SYMBOL=01F6AD;BED=01F6CF" \o
      ";WIDE-HEADED NORTH EAST BARB ARROW=01F86D;WRESTLERS=01F93C" \o
      ";CJK COMPATIBILITY IDEOGRAPH-2F809=02F809;CJK COMPATIBILITY IDEOGRAPH-2F818=02F818" \o
      ";CJK COMPATIBILITY IDEOGRAPH-2F827=02F827;CJK COMPATIBILITY IDEOGRAPH-2F836=02F836" \o
      ";CJK COMPATIBILITY IDEOGRAPH-2F845=02F845;CJK COMPATIBILITY IDEOGRAPH-2F854=02F854" \o
      ";CJK COMPATIBILITY IDEOGRAPH-2F863=02F863;CJK COMPATIBILITY IDEOGRAPH-2F872=02F872" \o
      ";CJK COMPATIBILITY IDEOGRAPH-2F881=02F881;CJK COMPATIBILITY IDEOGRAPH-2F890=02F890" \o
      ";CJK COMPATIBILITY IDEOGRAPH-2F908=02F908;CJK COMPATIBILITY IDEOGRAPH-2F917=02F917" \o
      ";CJK COMPATIBILITY IDEOGRAPH-2F926=02F926;CJK COMPATIBILITY IDEOGRAPH-2F935=02F935" \o
      ";CJK COMPATIBILITY IDEOGRAPH-2F944=02F944;CJK COMPATIBILITY IDEOGRAPH-2F953=02F953" \o
      ";CJK COMPATIBILITY IDEOGRAPH-2F962=02F962;CJK COMPATIBILITY IDEOGRAPH-2F971=02F971" \o
      ";CJK COMPATIBILITY IDEOGRAPH-2F980=02F980;CJK COMPATIBILITY IDEOGRAPH-2FA00=02FA00",
    ";COMBINING GRAVE TONE MARK=000340;ARMENIAN SMALL LETTER KEH=000584" \o
      ";HEBREW LETTER FINAL TSADI=0005E5;ARABIC HAMZA BELOW=000655;SYRIAC SUPRALINEAR COLON=000703" \o
      ";SYRIAC LETTER NUN=000722;SAMARITAN VOWEL SIGN OVERLONG AA=00081E" \o
      ";ARABIC LETTER ALEF WITH ATTACHED ROUND DOT BELOW=000879;MALAYALAM LETTER CHILLU L=000D7D" \o
      ";SINHALA LETTER IRUUYANNA=000D8E;GEORGIAN LETTER HARD SIGN=0010FE" \o
      ";ETHIOPIC TONAL MARK HIDET=001397;MONGOLIAN FREE VARIATION SELECTOR THREE=00180D" \o
      ";NEW TAI LUE LETTER HIGH MA=001996;NEW TAI LUE LETTER FINAL D=0019C6" \o
      ";TAI THAM CONSONANT SIGN FINAL NGA=001A59;TAI THAM SIGN KHUEN TONE-5=001A79" \o
      ";COMBINING OPEN MARK BELOW=001AB7;OL CHIKI LETTER UD=001C6B;VEDIC SIGN VISARGA UDATTA=001CE3" \o
      ";MODIFIER LETTER CAPITAL O=001D3C;MODIFIER LETTER SMALL CHI=001D61;COLON SIGN=0020A1" \o
      ";APL FUNCTIONAL SYMBOL QUAD SLASH=002341;APL FUNCTIONAL SYMBOL QUAD COLON=002360" \o
      ";BRAILLE PATTERN DOTS-34678=0028EC;BRAILLE PATTERN DOTS-25678=0028F2" \o
      ";CLOSED SUBSET OR EQUAL TO=002AD1;COPTIC CAPITAL LETTER KHI=002CAC;KANGXI RADICAL DOG=002F5D" \o
      ";KANGXI RADICAL EAT=002FB7;SQUARE RAD OVER S SQUARED=0033AF;YI SYLLABLE HNUOX=00A174" \o
      ";YI SYLLABLE ZZIEP=00A2D7;LATIN CAPITAL LETTER REVERSED C WITH DOT=00A73E" \o
      ";LATIN CAPITAL LETTER Z WITH PALATAL HOOK=00A7C6;PHAGS-PA LETTER JA=00A846" \o
      ";MYANMAR LETTER KHAMTI DDA=00AA68;FULLWIDTH LATIN CAPITAL LETTER S=00FF33" \o
      ";DESERET CAPITAL LETTER EM=010423;LINEAR A SIGN A703 D=010742;AVESTAN LETTER UU=010B0F" \o
      ";SMALL TWO DOTS OVER ONE DOT PUNCTUATION=010B3B;HANIFI ROHINGYA LETTER KA=010D11" \o
      ";CHAKMA LETTER NGAA=01110B;MAHAJANI LETTER BA=01116A;TIRHUTA DIGIT TWO=0114D2" \o
      ";NANDINAGARI VOWEL SIGN II=0119D3;SOYOMBO LETTER SA=011A81;PAU CIN HAU LETTER FINAL T=011ADE" \o
      ";EGYPTIAN HIEROGLYPH NL006=013226;EGYPTIAN HIEROGLYPH NL015=01322F" \o
      ";EGYPTIAN HIEROGLYPH V001I=01336B;EGYPTIAN HIEROGLYPH V020H=01338E" \o
      ";EGYPTIAN HIEROGLYPH W017A=0133C4;EGYPTIAN HIEROGLYPH Z002D=0133E9" \o
      ";EGYPTIAN HIEROGLYPH Z005A=0133F0;MIAO LETTER TONE-3=016F94;DUPLOYAN LETTER P=01BC02" \o
      ";DUPLOYAN AFFIX HIGH ACUTE=01BC80;BYZANTINE MUSICAL SYMBOL TRIPLI=01D087" \o
      ";MATHEMATICAL SANS-SERIF ITALIC CAPITAL S=01D61A;MATHEMATICAL ITALIC THETA SYMBOL=01D717" \o
      ";MATHEMATICAL SANS-SERIF BOLD SMALL KAPPA=01D779;SIGNWRITING HAND-CUP OPEN THUMB FORWARD=01D872" \o
      ";SIGNWRITING HAND-HOOK MIDDLE RING LITTLE CONJOINED OUT=01D8D8" \o
      ";SIGNWRITING MOVEMENT-FLOORPLANE ZIGZAG MEDIUM=01D97C" \o
      ";SIGNWRITING MOVEMENT-FLOORPLANE ARM CIRCLE HITTING WALL SMALL DOUBLE=01D9EA" \o
      ";OTTOMAN SIYAQ NUMBER TWO=01ED02;PLAYING CARD ACE OF SPADES=01F0A1;SQUARED SD=01F14C" \o
      ";SATELLITE ANTENNA=01F4E1;EMPTY PAGE=01F5CC;UPWARDS SANS-SERIF ARROW=01F851;PETRI DISH=01F9EB" \o
      ";CJK COMPATIBILITY IDEOGRAPH-2F819=02F819;CJK COMPATIBILITY IDEOGRAPH-2F828=02F828" \o
      ";CJK COMPATIBILITY IDEOGRAPH-2F837=02F837;CJK COMPATIBILITY IDEOGRAPH-2F846=02F846" \o
      ";CJK COMPATIBILITY IDEOGRAPH-2F855=02F855;CJK COMPATIBILITY IDEOGRAPH-2F864=02F864" \o
      ";CJK COMPATIBILITY IDEOGRAPH-2F873=02F873;CJK COMPATIBILITY IDEOGRAPH-2F882=02F882" \o
      ";CJK COMPATIBILITY IDEOGRAPH-2F891=02F891;CJK COMPATIBILITY IDEOGRAPH-2F909=02F909" \o
      ";CJK COMPATIBILITY IDEOGRAPH-2F918=02F918;CJK COMPATIBILITY IDEOGRAPH-2F927=02F927" \o
      ";CJK COMPATIBILITY IDEOGRAPH-2F936=02F936;CJK COMPATIBILITY IDEOGRAPH-2F945=02F945" \o
      ";CJK COMPATIBILITY IDEOGRAPH-2F954=02F954;CJK COMPATIBILITY IDEOGRAPH-2F963=02F963" \o
      ";CJK COMPATIBILITY IDEOGRAPH-2F972=02F972;CJK COMPATIBILITY IDEOGRAPH-2F981=02F981" \o
      ";CJK COMPATIBILITY IDEOGRAPH-2F990=02F990;CJK COMPATIBILITY IDEOGRAPH-2FA01=02FA01" \o
      ";CJK COMPATIBILITY IDEOGRAPH-2FA10=02FA10",
    ";DIGIT FOUR=000034;OPERATING SYSTEM COMMAND=00009D;ARABIC SMALL KASRA=00061A" \o
      ";ARABIC LETTER NOON GHUNNA=0006BA;MANDAIC LETTER KAD=000857;BENGALI LETTER BHA=0009AD" \o
      ";BENGALI DIGIT FIVE=0009EB;BENGALI DIGIT NINE=0009EF;TELUGU LETTER SSA=000C37" \o
      ";MALAYALAM LETTER CHILLU M=000D54;MONGOLIAN LETTER SIBE ANG=001862" \o
      ";NEW TAI LUE LETTER HIGH NA=001990;BALINESE LETTER ZAL SASAK=001B4A" \o
      ";MODIFIER LETTER CAPITAL P=001D3E;LATIN SMALL LETTER ESH WITH PALATAL HOOK=001D8B" \o
      ";LEFT FLOOR=00230A;LEFT SQUARE BRACKET UPPER CORNER=0023A1;MEDIUM SMALL WHITE CIRCLE=0026AC" \o
      ";BRAILLE PATTERN DOTS-35678=0028F4;EMPTY SET WITH RIGHT ARROW ABOVE=0029B3" \o
      ";RIGHT DOUBLE WIGGLY FENCE=0029DB;UNION ABOVE INTERSECTION=002A46" \o
      ";INTERSECTION ABOVE UNION=002A47;GEORGIAN SMALL LETTER RAE=002D10" \o
      ";GEORGIAN SMALL LETTER CIL=002D1C;KANGXI RADICAL RED=002F9A" \o
      ";KATAKANA-HIRAGANA SEMI-VOICED SOUND MARK=00309C;SQUARE KPA=0033AA" \o
      ";HEXAGRAM FOR SMALL TAMING=004DC8;HEXAGRAM FOR GREAT PREPONDERANCE=004DDB" \o
      ";HEXAGRAM FOR THE CAULDRON=004DF1;HEXAGRAM FOR THE WANDERER=004DF7;YI SYLLABLE NBYRX=00A08F" \o
      ";YI SYLLABLE HLURX=00A1AF;YI SYLLABLE MGURX=00A244;YI SYLLABLE JJURX=00A42B" \o
      ";CYRILLIC SMALL LETTER CLOSED LITTLE YUS=00A659;PHAGS-PA LETTER KA=00A840" \o
      ";KAYAH LI LETTER YA=00A91B;CHAM VOWEL SIGN AU=00AA31;MODIFIER LETTER LEFT TACK=00AB6A" \o
      ";ORNATE RIGHT PARENTHESIS=00FD3F;FULLWIDTH LATIN CAPITAL LETTER T=00FF34" \o
      ";LINEAR B IDEOGRAM B254 DART=0100D8;DESERET CAPITAL LETTER EN=010424" \o
      ";OSAGE CAPITAL LETTER TSHA=0104CC;MEROITIC CURSIVE NUMBER SIXTY THOUSAND=0109E9" \o
      ";KHAROSHTHI PUNCTUATION MANGALAM=010A54;HANIFI ROHINGYA LETTER LA=010D13" \o
      ";YEZIDI LETTER WAW=010EA4;OLD SOGDIAN LETTER SAMEKH=010F11;MAHAJANI LETTER CA=011159" \o
      ";SHARADA LETTER DDA=01119D;AHOM VOWEL SIGN AI=011729;SOYOMBO LETTER TA=011A6B" \o
      ";CUNEIFORM SIGN GA2 TIMES IGI GUNU=0120D6;CUNEIFORM NUMERIC SIGN THREE SHAR2 VARIANT FORM=012425" \o
      ";EGYPTIAN HIEROGLYPH NL007=013227;EGYPTIAN HIEROGLYPH NL016=013230" \o
      ";EGYPTIAN HIEROGLYPH U029A=013353;EGYPTIAN HIEROGLYPH V020I=01338F" \o
      ";EGYPTIAN HIEROGLYPH V028A=01339C;EGYPTIAN HIEROGLYPH V037A=0133AA" \o
      ";EGYPTIAN HIEROGLYPH W009A=0133B9;EGYPTIAN HIEROGLYPH W018A=0133C6" \o
      ";EGYPTIAN HIEROGLYPH X008A=0133DA;EGYPTIAN HIEROGLYPH Z015A=0133FB;MIAO LETTER TONE-4=016F95" \o
      ";BYZANTINE MUSICAL SYMBOL PSILON=01D017;MATHEMATICAL SANS-SERIF ITALIC CAPITAL T=01D61B" \o
      ";MATHEMATICAL SANS-SERIF BOLD CAPITAL RHO=01D766;SIGNWRITING HAND-FLAT THUMB BENT=01D85F" \o
      ";WINE GLASS=01F377;ALCHEMICAL SYMBOL FOR MERCURY SUBLIMATE=01F710" \o
      ";RIGHT THREE EIGHTHS BLOCK=01FB88;CJK COMPATIBILITY IDEOGRAPH-2F829=02F829" \o
      ";CJK COMPATIBILITY IDEOGRAPH-2F838=02F838;CJK COMPATIBILITY IDEOGRAPH-2F847=02F847" \o
      ";CJK COMPATIBILITY IDEOGRAPH-2F856=02F856;CJK COMPATIBILITY IDEOGRAPH-2F865=02F865" \o
      ";CJK COMPATIBILITY IDEOGRAPH-2F874=02F874;CJK COMPATIBILITY IDEOGRAPH-2F883=02F883" \o
      ";CJK COMPATIBILITY IDEOGRAPH-2F892=02F892;CJK COMPATIBILITY IDEOGRAPH-2F919=02F919" \o
      ";CJK COMPATIBILITY IDEOGRAPH-2F928=02F928;CJK COMPATIBILITY IDEOGRAPH-2F937=02F937" \o
      ";CJK COMPATIBILITY IDEOGRAPH-2F946=02F946;CJK COMPATIBILITY IDEOGRAPH-2F955=02F955" \o
      ";CJK COMPATIBILITY IDEOGRAPH-2F964=02F964;CJK COMPATIBILITY IDEOGRAPH-2F973=02F973" \o
      ";CJK COMPATIBILITY IDEOGRAPH-2F982=02F982;CJK COMPATIBILITY IDEOGRAPH-2F991=02F991" \o
      ";CJK COMPATIBILITY IDEOGRAPH-2FA02=02FA02;CJK COMPATIBILITY IDEOGRAPH-2FA11=02FA11",
    ";CCH=000094;LATIN SMALL LETTER C WITH CEDILLA=0000E7;LATIN SMALL LETTER Y WITH STROKE=00024F" \o
      ";CYRILLIC CAPITAL LETTER E=00042D;ARABIC LETTER KHAH=00062E;BENGALI LETTER CHA=00099B" \o
      ";TELUGU LETTER NYA=000C1E;TELUGU LETTER TSA=000C58;KANNADA LETTER GHA=000C98" \o
      ";MALAYALAM LETTER CHILLU N=000D7B;OL CHIKI DIGIT TWO=001C52;OL CHIKI LETTER IR=001C68" \o
      ";OL CHIKI LETTER LO=001C73;VEDIC TONE TWO DOTS BELOW=001CDE;BRAILLE PATTERN DOTS-45678=0028F8" \o
      ";RIGHTWARDS DOUBLE ARROW FROM BAR=002907;COPTIC SMALL LETTER GAMMA=002C85" \o
      ";KANGXI RADICAL MAN=002F08;LEFT ANGLE BRACKET=003008;HIRAGANA LETTER BA=003070" \o
      ";HANGUL LETTER SSANGPIEUP=003143;HEXAGRAM FOR DIFFICULTY AT THE BEGINNING=004DC2" \o
      ";YI SYLLABLE HMURX=00A0A7;YI SYLLABLE HXUOP=00A255;YI SYLLABLE NJUOX=00A439" \o
      ";BAMUM LETTER NTUU=00A6EB;MODIFIER LETTER CAPITAL Q=00A7F4" \o
      ";NORTH INDIC FRACTION ONE QUARTER=00A830;PHAGS-PA LETTER LA=00A859;KAYAH LI DIGIT TWO=00A902" \o
      ";KAYAH LI LETTER ZA=00A910;ARABIC LIGATURE BEH WITH MEEM MEDIAL FORM=00FCE1" \o
      ";FULLWIDTH LATIN CAPITAL LETTER U=00FF35;AEGEAN NUMBER TWO HUNDRED=01011A" \o
      ";LINEAR A SIGN A704 E=010743;MEROITIC CURSIVE NUMBER THREE HUNDRED THOUSAND=0109EF" \o
      ";HANIFI ROHINGYA LETTER MA=010D14;CHAKMA DIGIT THREE=011139;MAHAJANI LETTER DA=011165" \o
      ";GRANTHA LETTER VOCALIC LL=011361;CUNEIFORM SIGN AB2=012016" \o
      ";CUNEIFORM SIGN SHIM TIMES KUSHU2=0122CE;CUNEIFORM SIGN GA2 TIMES DIM GUNU=0124B7" \o
      ";EGYPTIAN HIEROGLYPH NL008=013228;EGYPTIAN HIEROGLYPH NL017=013231" \o
      ";EGYPTIAN HIEROGLYPH V020J=013390;EGYPTIAN HIEROGLYPH V029A=01339E" \o
      ";EGYPTIAN HIEROGLYPH Z015B=0133FC;EGYPTIAN HIEROGLYPH Z016A=013405" \o
      ";BAMUM LETTER PHASE-D YUOM=016934;BAMUM LETTER PHASE-E WEUX=01699E;BASSA VAH LETTER U=016AEA" \o
      ";MIAO VOWEL SIGN IA=016F62;MIAO VOWEL SIGN AI=016F79;MIAO LETTER TONE-5=016F96" \o
      ";DUPLOYAN LETTER R=01BC0B;BYZANTINE MUSICAL SYMBOL YFESIS MONOGRAMMOS TESSERA DODEKATA=01D0D5" \o
      ";MATHEMATICAL SANS-SERIF ITALIC CAPITAL U=01D61C;MATHEMATICAL SANS-SERIF BOLD CAPITAL TAU=01D769" \o
      ";MAHJONG TILE WHITE DRAGON=01F006;NEW MOON WITH FACE=01F31A;CURRENCY EXCHANGE=01F4B1" \o
      ";AIRPLANE ARRIVING=01F6EC;LARGE GREEN CIRCLE=01F7E2;NEGATIVE DIAGONAL DIAMOND=01FBBF" \o
      ";CJK COMPATIBILITY IDEOGRAPH-2F839=02F839;CJK COMPATIBILITY IDEOGRAPH-2F848=02F848" \o
      ";CJK COMPATIBILITY IDEOGRAPH-2F857=02F857;CJK COMPATIBILITY IDEOGRAPH-2F866=02F866" \o
      ";CJK COMPATIBILITY IDEOGRAPH-2F875=02F875;CJK COMPATIBILITY IDEOGRAPH-2F884=02F884" \o
      ";CJK COMPATIBILITY IDEOGRAPH-2F893=02F893;CJK COMPATIBILITY IDEOGRAPH-2F929=02F929" \o
      ";CJK COMPATIBILITY IDEOGRAPH-2F938=02F938;CJK COMPATIBILITY IDEOGRAPH-2F947=02F947" \o
      ";CJK COMPATIBILITY IDEOGRAPH-2F956=02F956;CJK COMPATIBILITY IDEOGRAPH-2F965=02F965" \o
      ";CJK COMPATIBILITY IDEOGRAPH-2F974=02F974;CJK COMPATIBILITY IDEOGRAPH-2F983=02F983" \o
      ";CJK COMPATIBILITY IDEOGRAPH-2F992=02F992;CJK COMPATIBILITY IDEOGRAPH-2FA03=02FA03" \o
      ";CJK COMPATIBILITY IDEOGRAPH-2FA12=02FA12",
    ";ACK=000006;LATIN SMALL LETTER Z WITH STROKE=0001B6" \o
      ";LATIN CAPITAL LETTER A WITH DIAERESIS AND MACRON=0001DE;THAANA LETTER HHAA=000799" \o
      ";BENGALI LETTER DHA=0009A7;TELUGU LETTER TTA=000C1F;TIBETAN SIGN RDEL NAG GCIG=000F1D" \o
      ";MYANMAR LETTER UU=001026;MYANMAR VOWEL SIGN MON II=001033" \o
      ";CANADIAN SYLLABICS FINAL DOUBLE SHORT VERTICAL STROKES=001426;TAI LE LETTER TSHA=001961" \o
      ";NEW TAI LUE LETTER HIGH PA=001994;TAI THAM SIGN KEOW=001AA3;LEPCHA DIGIT EIGHT=001C48" \o
      ";OL CHIKI LETTER IS=001C65;VEDIC SIGN ANUSVARA BAHIRGOMUKHA=001CEA" \o
      ";MODIFIER LETTER CAPITAL R=001D3F;LATIN SMALL LETTER D WITH CEDILLA=001E11" \o
      ";GREEK SMALL LETTER ETA WITH DASIA=001F21;CIRCLE WITH VERTICAL FILL=0025CD" \o
      ";COPTIC SMALL LETTER IAUDA=002C93;GEORGIAN SMALL LETTER KAN=002D09;KANGXI RADICAL JAR=002F78" \o
      ";KANGXI RADICAL SEE=002F92;DITTO MARK=003003;KATAKANA LETTER BA=0030D0;SQUARE ERG=0032CD" \o
      ";SQUARE MPA=0033AB;PHAGS-PA LETTER MA=00A84F;MYANMAR LETTER KHAMTI CHA=00AA62" \o
      ";FULLWIDTH LATIN CAPITAL LETTER V=00FF36;HALFWIDTH HANGUL LETTER E=00FFC7" \o
      ";LINEAR B IDEOGRAM B131 WINE=010096;GREEK DRACHMA SIGN=01017B;MANICHAEAN SIGN UD=010AC8" \o
      ";OLD HUNGARIAN NUMBER FIVE=010CFB;HANIFI ROHINGYA LETTER NA=010D15;YEZIDI LETTER NUN=010EA2" \o
      ";CHAKMA LETTER PHAA=01111C;SHARADA LETTER BHA=0111A8;SHARADA DIGIT FIVE=0111D5" \o
      ";SHARADA DIGIT NINE=0111D9;SIDDHAM LETTER VOCALIC RR=011587;SOYOMBO LETTER VA=011A7E" \o
      ";PAU CIN HAU LETTER FINAL W=011AE2;EGYPTIAN HIEROGLYPH NL009=013229" \o
      ";EGYPTIAN HIEROGLYPH NL018=013233;EGYPTIAN HIEROGLYPH V020K=013391" \o
      ";EGYPTIAN HIEROGLYPH Z015C=0133FD;EGYPTIAN HIEROGLYPH Z016B=013406;MIAO LETTER TONE-6=016F97" \o
      ";DUPLOYAN LETTER S=01BC1C;DUPLOYAN AFFIX HIGH GRAVE=01BC82" \o
      ";BYZANTINE MUSICAL SYMBOL DIPLI ARCHAION=01D080;TETRAGRAM FOR CONTENTION=01D31E" \o
      ";MATHEMATICAL SANS-SERIF ITALIC CAPITAL V=01D61D;MATHEMATICAL SANS-SERIF BOLD DIGIT THREE=01D7EF" \o
      ";TORTOISE SHELL BRACKETED LATIN CAPITAL LETTER S=01F12A;SQUARED WC=01F14F;SQUARED OK=01F197" \o
      ";LARGE BLUE DIAMOND=01F537;LEFT SPEECH BUBBLE=01F5E8;CJK COMPATIBILITY IDEOGRAPH-2F849=02F849" \o
      ";CJK COMPATIBILITY IDEOGRAPH-2F858=02F858;CJK COMPATIBILITY IDEOGRAPH-2F867=02F867" \o
      ";CJK COMPATIBILITY IDEOGRAPH-2F876=02F876;CJK COMPATIBILITY IDEOGRAPH-2F885=02F885" \o
      ";CJK COMPATIBILITY IDEOGRAPH-2F894=02F894;CJK COMPATIBILITY IDEOGRAPH-2F939=02F939" \o
      ";CJK COMPATIBILITY IDEOGRAPH-2F948=02F948;CJK COMPATIBILITY IDEOGRAPH-2F957=02F957" \o
      ";CJK COMPATIBILITY IDEOGRAPH-2F966=02F966;CJK COMPATIBILITY IDEOGRAPH-2F975=02F975" \o
      ";CJK COMPATIBILITY IDEOGRAPH-2F984=02F984;CJK COMPATIBILITY IDEOGRAPH-2F993=02F993" \o
      ";CJK COMPATIBILITY IDEOGRAPH-2FA04=02FA04;CJK COMPATIBILITY IDEOGRAPH-2FA13=02FA13",
    ";LATIN SMALL LETTER E WITH CEDILLA=000229;GREEK CAPITAL LETTER ZETA=000396" \o
      ";ARMENIAN SMALL LETTER AYB=000561;ARMENIAN SMALL LETTER SHA=000577" \o
      ";EXTENDED ARABIC-INDIC DIGIT THREE=0006F3;LAO LETTER KHO TAM=000E84" \o
      ";NEW TAI LUE LETTER HIGH QA=001980;KHMER SYMBOL PRAM-PII ROC=0019F7;TAI THAM LETTER WA=001A45" \o
      ";BATAK VOWEL SIGN O=001BEC;CYRILLIC SMALL LETTER ROUNDED VE=001C80" \o
      ";MODIFIER LETTER SMALL AIN=001D5C;GREATER-THAN AND NOT APPROXIMATE=002A8A" \o
      ";GLAGOLITIC CAPITAL LETTER ZEMLJA=002C08;GEORGIAN SMALL LETTER HAR=002D24" \o
      ";KANGXI RADICAL AXE=002F44;HIRAGANA LETTER DA=003060;HEXAGRAM FOR OBSTRUCTION=004DE6" \o
      ";YI SYLLABLE ZZIET=00A2D4;YI SYLLABLE ZHUOP=00A34C;PHAGS-PA LETTER NA=00A84B" \o
      ";SAURASHTRA SIGN ANUSVARA=00A880;DEVANAGARI JAIN OM=00A8FD;MYANMAR LETTER KHAMTI DHA=00AA6A" \o
      ";CHEROKEE SMALL LETTER TLA=00ABAD;FULLWIDTH LATIN CAPITAL LETTER W=00FF37" \o
      ";LINEAR B IDEOGRAM B109F COW=01008C;LINEAR A SIGN A705 F=010744;MANICHAEAN LETTER THAMEDH=010AD5" \o
      ";SHARADA LETTER CHA=011197;DOGRA VOWEL SIGN E=011833;NANDINAGARI VOWEL SIGN AU=0119DD" \o
      ";CUNEIFORM NUMERIC SIGN FOUR DISH=012409;EGYPTIAN HIEROGLYPH NL019=013234" \o
      ";EGYPTIAN HIEROGLYPH NU001=013236;EGYPTIAN HIEROGLYPH NU010=01323F" \o
      ";EGYPTIAN HIEROGLYPH V020L=013392;EGYPTIAN HIEROGLYPH Z015D=0133FE" \o
      ";EGYPTIAN HIEROGLYPH Z016C=013407;BAMUM LETTER PHASE-D TUOT=01693D" \o
      ";BAMUM LETTER PHASE-D NTUU=016962;BAMUM LETTER PHASE-E YEUX=0169DF;MIAO LETTER TONE-7=016F98" \o
      ";DUPLOYAN LETTER T=01BC03;MUSICAL SYMBOL FUSA BLACK=01D1C0" \o
      ";MATHEMATICAL SANS-SERIF ITALIC CAPITAL W=01D61E;MATHEMATICAL SANS-SERIF BOLD CAPITAL PSI=01D76D" \o
      ";MATHEMATICAL SANS-SERIF BOLD SMALL SIGMA=01D782;EAR OF RICE=01F33E;POCKET CALCULATOR=01F5A9" \o
      ";ALCHEMICAL SYMBOL FOR WAX=01F74A;CJK COMPATIBILITY IDEOGRAPH-2F859=02F859" \o
      ";CJK COMPATIBILITY IDEOGRAPH-2F868=02F868;CJK COMPATIBILITY IDEOGRAPH-2F877=02F877" \o
      ";CJK COMPATIBILITY IDEOGRAPH-2F886=02F886;CJK COMPATIBILITY IDEOGRAPH-2F895=02F895" \o
      ";CJK COMPATIBILITY IDEOGRAPH-2F949=02F949;CJK COMPATIBILITY IDEOGRAPH-2F958=02F958" \o
      ";CJK COMPATIBILITY IDEOGRAPH-2F967=02F967;CJK COMPATIBILITY IDEOGRAPH-2F976=02F976" \o
      ";CJK COMPATIBILITY IDEOGRAPH-2F985=02F985;CJK COMPATIBILITY IDEOGRAPH-2F994=02F994" \o
      ";CJK COMPATIBILITY IDEOGRAPH-2FA05=02FA05;CJK COMPATIBILITY IDEOGRAPH-2FA14=02FA14",
    ";DIGIT ZERO=000030;ARMENIAN SMALL LETTER GIM=000563;ARMENIAN SMALL LETTER PEH=00057A" \o
      ";HEBREW PUNCTUATION PASEQ=0005C0;SYRIAC OBLIQUE LINE ABOVE=000747" \o
      ";ARABIC LETTER ALEF WITH ATTACHED RIGHT ROUND DOT=000877;ARABIC CURLY DAMMA=0008E5" \o
      ";GURMUKHI LETTER U=000A09;KANNADA LETTER JHA=000C9D;LAO LETTER LO LING=000EA3" \o
      ";ETHIOPIC TONAL MARK KENAT=001395;COMBINING RIGHT PARENTHESIS BELOW RIGHT=001AC4" \o
      ";MODIFIER LETTER CAPITAL T=001D40;BET SYMBOL=002136" \o
      ";RIGHT ANGLE WITH DOWNWARDS ZIGZAG ARROW=00237C;CIRCLED DIGIT FIVE=002464" \o
      ";CIRCLED DIGIT NINE=002468;LAST QUARTER MOON=00263E;BLACK CIRCLE WITH WHITE DOT RIGHT=002688" \o
      ";GLAGOLITIC CAPITAL LETTER DJERVI=002C0C;GLAGOLITIC SMALL LETTER I=002C3B" \o
      ";GEORGIAN SMALL LETTER MAN=002D0B;GEORGIAN SMALL LETTER HOE=002D25;KANGXI RADICAL OLD=002F7C" \o
      ";LEFT WHITE CORNER BRACKET=00300E;KATAKANA LETTER DA=0030C0" \o
      ";IDEOGRAPHIC TELEGRAPH SYMBOL FOR AUGUST=0032C7;YI SYLLABLE HLYRX=00A1B5" \o
      ";YI SYLLABLE SHUOX=00A3AF;YI SYLLABLE NJURX=00A442;KAYAH LI LETTER OO=00A925" \o
      ";CHAM VOWEL SIGN UE=00AA32;ARABIC LIGATURE KAF WITH MEEM MEDIAL FORM=00FCEC" \o
      ";FULLWIDTH LATIN CAPITAL LETTER X=00FF38;DESERET CAPITAL LETTER ER=010421" \o
      ";HANIFI ROHINGYA LETTER PA=010D02;OLD UYGHUR PUNCTUATION TWO DOTS=010F88" \o
      ";MAHAJANI LETTER GA=011157;SHARADA LETTER DHA=0111A3;MODI VOWEL SIGN AI=01163A" \o
      ";AHOM VOWEL SIGN AM=01172A;CANADIAN SYLLABICS NATTILIK SHRO=011AB8" \o
      ";PAU CIN HAU LETTER FINAL Y=011AE4;CUNEIFORM SIGN GAN2 CROSSING GAN2=0120FA" \o
      ";CUNEIFORM SIGN AB2 TIMES A=012371;CUNEIFORM NUMERIC SIGN ONE SHARU=01242C" \o
      ";CUNEIFORM SIGN LAK-081 OVER LAK-081=0124DE;EGYPTIAN HIEROGLYPH NU002=013237" \o
      ";EGYPTIAN HIEROGLYPH NU011=013241;EGYPTIAN HIEROGLYPH NU020=01324C" \o
      ";EGYPTIAN HIEROGLYPH Z015E=0133FF;EGYPTIAN HIEROGLYPH Z016D=013408" \o
      ";BAMUM LETTER PHASE-D YUOP=016936;MIAO LETTER TONE-8=016F99;DUPLOYAN LETTER U=01BC51" \o
      ";MATHEMATICAL SANS-SERIF ITALIC CAPITAL X=01D61F" \o
      ";SIGNWRITING HAND-HINGE FIVE FINGERS SPREAD OPEN=01D855;SIGNWRITING HAND-FIST THUMB HEEL=01D8F6" \o
      ";INDIC SIYAQ NUMBER ALTERNATE TWO=01ECB2;CROSSED NEGATIVE SQUARED LATIN CAPITAL LETTER P=01F18A" \o
      ";CHILDREN CROSSING=01F6B8;CJK COMPATIBILITY IDEOGRAPH-2F869=02F869" \o
      ";CJK COMPATIBILITY IDEOGRAPH-2F878=02F878;CJK COMPATIBILITY IDEOGRAPH-2F887=02F887" \o
      ";CJK COMPATIBILITY IDEOGRAPH-2F896=02F896;CJK COMPATIBILITY IDEOGRAPH-2F959=02F959" \o
      ";CJK COMPATIBILITY IDEOGRAPH-2F968=02F968;CJK COMPATIBILITY IDEOGRAPH-2F977=02F977" \o
      ";CJK COMPATIBILITY IDEOGRAPH-2F986=02F986;CJK COMPATIBILITY IDEOGRAPH-2F995=02F995" \o
      ";CJK COMPATIBILITY IDEOGRAPH-2FA06=02FA06;CJK COMPATIBILITY IDEOGRAPH-2FA15=02FA15",
    ";CAN=000018;LATIN SMALL LETTER G WITH CEDILLA=000123;CYRILLIC CAPITAL LETTER I=000418" \o
      ";ARMENIAN SMALL LETTER KEN=00056F;HEBREW POINT HATAF QAMATS=0005B3" \o
      ";ARABIC LETTER MEEM WITH DOT BELOW=000766;THAANA LETTER KHAA=00079A;ARABIC LETTER GRAF=0008C8" \o
      ";BENGALI LETTER GHA=000998;KANNADA LETTER KHA=000C96;ETHIOPIC TONAL MARK DERET=001391" \o
      ";MONGOLIAN LETTER ALI GALI UBADAMA=001883;MONGOLIAN LETTER TODO ALI GALI TA=001898" \o
      ";NEW TAI LUE LETTER HIGH SA=001989;MODIFIER LETTER CAPITAL U=001D41" \o
      ";MODIFIER LETTER SMALL ENG=001D51;RUPEE SIGN=0020A8;SMALL ROMAN NUMERAL ONE THOUSAND=00217F" \o
      ";RIGHTWARDS PAIRED ARROWS=0021C9;NOT EQUIVALENT TO=00226D;LESS-THAN OR GREATER-THAN=002276" \o
      ";GREATER-THAN OR LESS-THAN=002277;ERASE TO THE RIGHT=002326;WHEELCHAIR SYMBOL=00267F" \o
      ";MATHEMATICAL LEFT FLATTENED PARENTHESIS=0027EE;GLAGOLITIC CAPITAL LETTER CHRIVI=002C1D" \o
      ";KANGXI RADICAL PIG=002F97;HIRAGANA LETTER BE=003079;HEXAGRAM FOR PEACE=004DCA" \o
      ";YI SYLLABLE HMYRX=00A0AC;YI SYLLABLE HXUOT=00A252;PHAGS-PA LETTER PA=00A84C" \o
      ";FULLWIDTH LATIN CAPITAL LETTER Y=00FF39;DESERET CAPITAL LETTER ES=01041D" \o
      ";DESERET CAPITAL LETTER OI=010426;PHOENICIAN NUMBER TWENTY=010918;MAHAJANI LETTER HA=011171" \o
      ";SOYOMBO LETTER YA=011A7B;BHAIKSUKI NUMBER SEVENTY=011C69" \o
      ";CUNEIFORM SIGN EN TIMES GAN2 TENU=012099;CUNEIFORM SIGN UM TIMES U=012321" \o
      ";EGYPTIAN HIEROGLYPH NU003=013238;EGYPTIAN HIEROGLYPH NU012=013243" \o
      ";EGYPTIAN HIEROGLYPH NU021=01324D;EGYPTIAN HIEROGLYPH Z015F=013400" \o
      ";EGYPTIAN HIEROGLYPH Z016E=013409;BAMUM LETTER PHASE-D PUUT=01691B" \o
      ";PAHAWH HMONG CLAN SIGN FAJ=016B8B;MIAO VOWEL SIGN IE=016F66;MIAO VOWEL SIGN EI=016F7A" \o
      ";DUPLOYAN LETTER V=01BC09;BYZANTINE MUSICAL SYMBOL YPSILI=01D050" \o
      ";MATHEMATICAL SANS-SERIF ITALIC CAPITAL Y=01D620;SIGNWRITING MOVEMENT-WALLPLANE SHAKING=01D9A5" \o
      ";SIGNWRITING EYEGAZE-WALLPLANE STRAIGHT=01DA21;LOVE HOTEL=01F3E9;WOMANS HAT=01F452" \o
      ";INCOMING ENVELOPE=01F4E8;RIGHTWARDS ARROW WITH SMALL TRIANGLE ARROWHEAD=01F802" \o
      ";CJK COMPATIBILITY IDEOGRAPH-2F879=02F879;CJK COMPATIBILITY IDEOGRAPH-2F888=02F888" \o
      ";CJK COMPATIBILITY IDEOGRAPH-2F897=02F897;CJK COMPATIBILITY IDEOGRAPH-2F969=02F969" \o
      ";CJK COMPATIBILITY IDEOGRAPH-2F978=02F978;CJK COMPATIBILITY IDEOGRAPH-2F987=02F987" \o
      ";CJK COMPATIBILITY IDEOGRAPH-2F996=02F996;CJK COMPATIBILITY IDEOGRAPH-2FA07=02FA07" \o
      ";CJK COMPATIBILITY IDEOGRAPH-2FA16=02FA16",
    ";BEL=000007;LATIN CAPITAL LETTER IOTA=000196;LATIN SMALL LETTER A WITH INVERTED BREVE=000203" \o
      ";MODIFIER LETTER LOW UP ARROWHEAD=0002F0;ARMENIAN SMALL LETTER REH=000580" \o
      ";ARABIC LETTER JEEM=00062C;NKO LETTER JONA RA=0007EA;ARABIC SMALL HIGH WORD SAH=0008CC" \o
      ";DEVANAGARI LETTER SHORT A=000904;DEVANAGARI VOWEL SIGN OOE=00093B" \o
      ";THAI CHARACTER ANGKHANKHU=000E5A;BUHID VOWEL SIGN I=001752;MONGOLIAN LETTER TODO GAA=001858" \o
      ";MONGOLIAN LETTER SIBE SHA=001867;NEW TAI LUE LETTER HIGH TA=00198E" \o
      ";NEW TAI LUE LETTER FINAL K=0019C5;LATIN SMALL LETTER H WITH CEDILLA=001E29" \o
      ";MODIFIER LETTER CAPITAL V=002C7D;HIRAGANA LETTER GA=00304C;KATAKANA LETTER BE=0030D9" \o
      ";PARENTHESIZED IDEOGRAPH CONGRATULATION=003237;SQUARE LOG=0033D2;SQUARE MIL=0033D5" \o
      ";HEXAGRAM FOR SMALL PREPONDERANCE=004DFD;LATIN CAPITAL LETTER VEND=00A768" \o
      ";PHAGS-PA LETTER QA=00A862;ARABIC LIGATURE DAD WITH HAH INITIAL FORM=00FCB5" \o
      ";FULLWIDTH LATIN CAPITAL LETTER Z=00FF3A;HALFWIDTH HANGUL LETTER I=00FFDC" \o
      ";LINEAR A SIGN A706 H=010745;HATRAN NUMBER ONE HUNDRED=0108FF;HANIFI ROHINGYA LETTER RA=010D0C" \o
      ";CHAKMA LETTER NNAA=011115;CHAKMA LETTER THAA=011117;NEWA VOWEL SIGN AI=01143F" \o
      ";SIDDHAM LETTER DDA=01159A;DIVES AKURU VOWEL SIGN II=011932;SOYOMBO LETTER ZA=011A79" \o
      ";PAU CIN HAU MID-LEVEL TONE=011AEF;CUNEIFORM SIGN GA2=0120B7;EGYPTIAN HIEROGLYPH NU004=013239" \o
      ";EGYPTIAN HIEROGLYPH NU013=013244;EGYPTIAN HIEROGLYPH NU022=01324E" \o
      ";EGYPTIAN HIEROGLYPH Z015G=013401;EGYPTIAN HIEROGLYPH Z016F=01340A" \o
      ";BAMUM LETTER PHASE-E NZUQ=0169C1;MIAO VOWEL SIGN AN=016F57;DUPLOYAN LETTER W=01BC38" \o
      ";TETRAGRAM FOR FULL CIRCLE=01D307;MATHEMATICAL SANS-SERIF ITALIC CAPITAL Z=01D621" \o
      ";MATHEMATICAL BOLD ITALIC SMALL PI=01D745" \o
      ";SIGNWRITING HAND-FIST INDEX UP MIDDLE HINGED THUMB SIDE=01D824" \o
      ";SIGNWRITING HAND-FIST INDEX HINGED MIDDLE UP THUMB SIDE=01D826" \o
      ";SIGNWRITING MOVEMENT-FLOORPLANE TRIPLE ALTERNATING MOVEMENT=01D971" \o
      ";SIGNWRITING MOVEMENT-FLOORPLANE ARM CIRCLE HITTING WALL SMALL SINGLE=01D9E7" \o
      ";PLAYING CARD ACE OF HEARTS=01F0B1;SQUARED HV=01F14A;MOUNTAIN CABLEWAY=01F6A0" \o
      ";WIDE-HEADED SOUTH EAST BARB ARROW=01F86E;WIDE-HEADED RIGHTWARDS MEDIUM BARB ARROW=01F872" \o
      ";EGG=01F95A;SAFETY PIN=01F9F7;NEUTRAL CHESS EQUIHOPPER=01FA4A" \o
      ";CJK COMPATIBILITY IDEOGRAPH-2F80A=02F80A;CJK COMPATIBILITY IDEOGRAPH-2F889=02F889" \o
      ";CJK COMPATIBILITY IDEOGRAPH-2F898=02F898;CJK COMPATIBILITY IDEOGRAPH-2F8A0=02F8A0" \o
      ";CJK COMPATIBILITY IDEOGRAPH-2F979=02F979;CJK COMPATIBILITY IDEOGRAPH-2F988=02F988" \o
      ";CJK COMPATIBILITY IDEOGRAPH-2F997=02F997;CJK COMPATIBILITY IDEOGRAPH-2FA08=02FA08" \o
      ";CJK COMPATIBILITY IDEOGRAPH-2FA17=02FA17",
    ";END OF LINE=00000A;APC=00009F;LATIN LETTER WYNN=0001BF;CGJ=00034F" \o
      ";COMBINING DOUBLE RIGHTWARDS ARROW BELOW=000362;CYRILLIC SMALL LETTER CHE=000447" \o
      ";ARMENIAN SMALL LETTER INI=00056B;ARMENIAN SMALL LETTER MEN=000574" \o
      ";ARMENIAN SMALL LETTER SEH=00057D;GUJARATI LETTER VOCALIC L=000A8C;KANNADA LETTER NGA=000C99" \o
      ";HANGUL CHOSEONG KAPYEOUNPHIEUPH=001157;MONGOLIAN LETTER TODO HAA=001859" \o
      ";OL CHIKI LETTER LU=001C69;MODIFIER LETTER CAPITAL W=001D42;SWUNG DASH=002053" \o
      ";COMBINING ANNUITY SYMBOL=0020E7;GEORGIAN SMALL LETTER JIL=002D1B" \o
      ";TIFINAGH LETTER AYER YAGH=002D58;KANGXI RADICAL ONE=002F00;HIRAGANA LETTER DE=003067" \o
      ";HIRAGANA LETTER HA=00306F;KATAKANA LETTER GA=0030AC;YI SYLLABLE ZZIEX=00A2D5" \o
      ";YI SYLLABLE SHURX=00A3BE;SYLOTI NAGRI VOWEL SIGN A=00A823;PHAGS-PA LETTER RA=00A858" \o
      ";MYANMAR LETTER KHAMTI HHA=00AA6E;CHEROKEE SMALL LETTER TLE=00ABAE" \o
      ";ARABIC LIGATURE ALAYHIM AS-SALAAM=00FD48;AEGEAN NUMBER FIVE=01010B;AEGEAN NUMBER NINE=01010F" \o
      ";AEGEAN DRY MEASURE FIRST SUBUNIT=01013C;DESERET CAPITAL LETTER AY=01040C" \o
      ";MEROITIC CURSIVE NUMBER SEVENTY=0109CF;HANIFI ROHINGYA LETTER SA=010D0F" \o
      ";BRAHMI LETTER DDHA=011020;MAHAJANI LETTER JA=01115B;SHARADA LETTER GHA=011194" \o
      ";DOGRA VOWEL SIGN I=01182D;MASARAM GONDI LETTER TTHA=011D17;GUNJALA GONDI LETTER TTHA=011D7E" \o
      ";CUNEIFORM SIGN IL TIMES GAN2 TENU=01214C;CUNEIFORM NUMERIC SIGN FIVE BURU=012439" \o
      ";CUNEIFORM SIGN NINDA2 TIMES KESH2=012526;EGYPTIAN HIEROGLYPH NU005=01323A" \o
      ";EGYPTIAN HIEROGLYPH NU014=013245;EGYPTIAN HIEROGLYPH Z015H=013402" \o
      ";EGYPTIAN HIEROGLYPH Z016G=01340B;BASSA VAH COMBINING HIGH-LOW TONE=016AF4" \o
      ";MIAO VOWEL SIGN IG=016F84;DUPLOYAN LETTER X=01BC01;ZNAMENNY COMBINING MARK OBLACHKO=01CF3A" \o
      ";MUSICAL SYMBOL RIGHT REPEAT SIGN=01D107;TETRAGRAM FOR ENCOUNTERS=01D330" \o
      ";MATHEMATICAL MONOSPACE DIGIT SIX=01D7FC;SIGNWRITING HAND-FIST INDEX BENT=01D806" \o
      ";SIGNWRITING HAND-FIST INDEX MIDDLE THUMB HOOKED=01D82A;SIGNWRITING HAND-OVAL THUMB SIDE=01D878" \o
      ";SIGNWRITING GRASP SINGLE=01D908;SIGNWRITING MOUTH OPEN WRINKLED=01DA46" \o
      ";LATIN SMALL LETTER EZH WITH PALATAL HOOK=01DF18;NYIAKENG PUACHUE HMONG CIRCLED CA=01E14F" \o
      ";DOWNWARDS ARROW WITH MEDIUM TRIANGLE ARROWHEAD=01F807;LEFTWARDS TOP SHADED WHITE ARROW=01F8A2" \o
      ";CJK COMPATIBILITY IDEOGRAPH-2F80B=02F80B;CJK COMPATIBILITY IDEOGRAPH-2F81A=02F81A" \o
      ";CJK COMPATIBILITY IDEOGRAPH-2F899=02F899;CJK COMPATIBILITY IDEOGRAPH-2F8A1=02F8A1" \o
      ";CJK COMPATIBILITY IDEOGRAPH-2F8B0=02F8B0;CJK COMPATIBILITY IDEOGRAPH-2F90A=02F90A" \o
      ";CJK COMPATIBILITY IDEOGRAPH-2F989=02F989;CJK COMPATIBILITY IDEOGRAPH-2F998=02F998" \o
      ";CJK COMPATIBILITY IDEOGRAPH-2F9A0=02F9A0;CJK COMPATIBILITY IDEOGRAPH-2FA09=02FA09" \o
      ";CJK COMPATIBILITY IDEOGRAPH-2FA18=02FA18",
    ";DLE=000010;DEL=00007F;PAD=000080;LATIN CAPITAL LETTER A WITH ACUTE=0000C1" \o
      ";LATIN CAPITAL LETTER A WITH TILDE=0000C3;GREEK CAPITAL LETTER UPSILON WITH TONOS=00038E" \o
      ";MANDAIC LETTER AIN=000858;ARABIC CURLY FATHA=0008E4;BENGALI LETTER JHA=00099D" \o
      ";ORIYA FRACTION ONE EIGHTH=000B76;MALAYALAM LETTER DOT REPH=000D4E" \o
      ";SINHALA LETTER MUURDHAJA LAYANNA=000DC5;LAO LETTER PHO TAM=000E9E" \o
      ";NEW TAI LUE LETTER HIGH VA=00199B;NEW TAI LUE LETTER FINAL M=0019C4" \o
      ";GREEK CAPITAL LETTER OMICRON WITH DASIA AND OXIA=001F4D;NEGATIVE CIRCLED NUMBER THIRTEEN=0024ED" \o
      ";CROSS MARK=00274C;ERROR-BARRED BLACK SQUARE=0029EF;COPTIC SMALL LETTER OLD COPTIC HA=002CCF" \o
      ";GEORGIAN SMALL LETTER LAS=002D0A;KANGXI RADICAL RAP=002F41;KANGXI RADICAL EYE=002F6C" \o
      ";KATAKANA LETTER DE=0030C7;KATAKANA LETTER HA=0030CF;YI SYLLABLE NJYRX=00A448" \o
      ";YI SYLLABLE NYUOP=00A454;PHAGS-PA LETTER SA=00A85B;SAURASHTRA VOWEL SIGN VOCALIC LL=00A8BD" \o
      ";LATIN SMALL LETTER X WITH LOW RIGHT RING=00AB56;ARABIC LETTER DAHAL ISOLATED FORM=00FB84" \o
      ";ARABIC LETTER E FINAL FORM=00FBE5;ARABIC LIGATURE MEEM WITH ALEF FINAL FORM=00FC88" \o
      ";LINEAR B IDEOGRAM B151 HORN=0100A0;LINEAR B IDEOGRAM B176 TREE=0100B7" \o
      ";AEGEAN WORD SEPARATOR DOT=010101;KHAROSHTHI VIRAMA=010A3F;HANIFI ROHINGYA LETTER TA=010D03" \o
      ";HANIFI ROHINGYA DIGIT SIX=010D36;YEZIDI LETTER YOT WITH CIRCUMFLEX ABOVE=010EB1" \o
      ";BRAHMI DIGIT EIGHT=01106E;MAHAJANI LETTER KA=011155;SIDDHAM LETTER BHA=0115A5" \o
      ";AHOM VOWEL SIGN II=011723;MASARAM GONDI LETTER KSSA=011D2E;MASARAM GONDI LETTER JNYA=011D2F" \o
      ";EGYPTIAN HIEROGLYPH NU006=01323B;EGYPTIAN HIEROGLYPH NU015=013246" \o
      ";EGYPTIAN HIEROGLYPH Z015I=013403;EGYPTIAN HIEROGLYPH Z016H=01340C" \o
      ";BAMUM LETTER PHASE-C KUOP NKAARAE=0168D5;MIAO LETTER YI NNA=016F12" \o
      ";MUSICAL SYMBOL F CLEF OTTAVA ALTA=01D123;MUSICAL SYMBOL PEDAL MARK=01D1AE" \o
      ";MATHEMATICAL SANS-SERIF BOLD SMALL THETA=01D777;COMBINING GLAGOLITIC LETTER IZHE=01E009" \o
      ";COMBINING GLAGOLITIC LETTER SHTA=01E01B;PLAYING CARD JACK OF CLUBS=01F0DB" \o
      ";RACING MOTORCYCLE=01F3CD;DOWNWARDS TRIANGLE-HEADED ARROW WITH BOLD SHAFT=01F82B" \o
      ";CJK COMPATIBILITY IDEOGRAPH-2F80C=02F80C;CJK COMPATIBILITY IDEOGRAPH-2F81B=02F81B" \o
      ";CJK COMPATIBILITY IDEOGRAPH-2F82A=02F82A;CJK COMPATIBILITY IDEOGRAPH-2F8A2=02F8A2" \o
      ";CJK COMPATIBILITY IDEOGRAPH-2F8B1=02F8B1;CJK COMPATIBILITY IDEOGRAPH-2F8C0=02F8C0" \o
      ";CJK COMPATIBILITY IDEOGRAPH-2F90B=02F90B;CJK COMPATIBILITY IDEOGRAPH-2F91A=02F91A" \o
      ";CJK COMPATIBILITY IDEOGRAPH-2F999=02F999;CJK COMPATIBILITY IDEOGRAPH-2F9A1=02F9A1" \o
      ";CJK COMPATIBILITY IDEOGRAPH-2F9B0=02F9B0;CJK COMPATIBILITY IDEOGRAPH-2FA19=02FA19",
    ";PU1=000091;EPA=000097;LATIN SMALL LETTER K WITH CEDILLA=000137" \o
      ";LATIN CAPITAL LETTER A WITH CARON=0001CD;ARABIC LETTER MEEM=000645" \o
      ";ARABIC LETTER DAL WITH INVERTED V=0006EE;BENGALI LETTER KHA=000996;OGHAM FEATHER MARK=00169B" \o
      ";KHMER SIGN LEK TOO=0017D7;MONGOLIAN LETTER TODO CHA=001852;NEW TAI LUE LETTER FINAL N=0019C3" \o
      ";TAI THAM LETTER OO=001A52;BALINESE LETTER BA=001B29;BALINESE DIGIT ONE=001B51" \o
      ";BALINESE MUSICAL SYMBOL DANG GEDE=001B6A;BATAK VOWEL SIGN U=001BEE;LEPCHA DIGIT THREE=001C43" \o
      ";VEDIC TONE DOUBLE SVARITA=001CDA;MODIFIER LETTER SMALL SIDEWAYS U=001D59;ARC=002312" \o
      ";INTEGRAL AROUND A POINT OPERATOR=002A15;INTEGRAL WITH LEFTWARDS ARROW WITH HOOK=002A17" \o
      ";GEORGIAN SMALL LETTER DON=002D03;GEORGIAN SMALL LETTER NAR=002D0C;HIRAGANA LETTER BI=003073" \o
      ";SQUARE HON=00333F;HEXAGRAM FOR GRACE=004DD5;YI SYLLABLE HXUOX=00A253;VAI SYLLABLE DHHEE=00A511" \o
      ";LATIN CAPITAL LETTER J WITH CROSSED-TAIL=00A7B2;PHAGS-PA LETTER TA=00A848" \o
      ";MYANMAR LETTER KHAMTI JHA=00AA64;CHEROKEE SMALL LETTER QUA=00AB96" \o
      ";DESERET CAPITAL LETTER EW=010427;ELBASAN LETTER CHE=010503;LINEAR A SIGN A707 J=010746" \o
      ";MAHAJANI LETTER LA=01116E;KHOJKI SIGN SHADDA=011237;SIDDHAM LETTER CHA=011594" \o
      ";CUNEIFORM SIGN UMUM TIMES KASKAL=012324;CUNEIFORM NUMERIC SIGN SEVEN VARIANT FORM IMIN3=012441" \o
      ";EGYPTIAN HIEROGLYPH NU007=01323C;EGYPTIAN HIEROGLYPH NU016=013247;MIAO VOWEL SIGN II=016F67" \o
      ";ZNAMENNY PRIZNAK MODIFIER KRYZH=01CF45;MUSICAL SYMBOL G CLEF OTTAVA ALTA=01D11F" \o
      ";TETRAGRAM FOR EXHAUSTION=01D34A;MATHEMATICAL BOLD ITALIC CAPITAL OMICRON=01D72A" \o
      ";MATHEMATICAL SANS-SERIF BOLD ITALIC CAPITAL BETA=01D791" \o
      ";SIGNWRITING TRAVEL-WALLPLANE ARM SPIRAL DOUBLE=01D953" \o
      ";SIGNWRITING MOVEMENT-FLOORPLANE CURVE LARGEST=01D9D8;SIGNWRITING NOSE CONTACT=01DA32" \o
      ";SIGNWRITING MOUTH TENSE FORWARD=01DA51;SIGNWRITING UPPER BODY TILTING FROM HIP JOINTS=01DA75" \o
      ";SQUARED UP WITH EXCLAMATION MARK=01F199;WATER WAVE=01F30A;INPUT SYMBOL FOR SYMBOLS=01F523" \o
      ";RIGHT SEVEN EIGHTHS BLOCK=01FB8B;CJK COMPATIBILITY IDEOGRAPH-2F80D=02F80D" \o
      ";CJK COMPATIBILITY IDEOGRAPH-2F81C=02F81C;CJK COMPATIBILITY IDEOGRAPH-2F82B=02F82B" \o
      ";CJK COMPATIBILITY IDEOGRAPH-2F83A=02F83A;CJK COMPATIBILITY IDEOGRAPH-2F8A3=02F8A3" \o
      ";CJK COMPATIBILITY IDEOGRAPH-2F8B2=02F8B2;CJK COMPATIBILITY IDEOGRAPH-2F8C1=02F8C1" \o
      ";CJK COMPATIBILITY IDEOGRAPH-2F8D0=02F8D0;CJK COMPATIBILITY IDEOGRAPH-2F90C=02F90C" \o
      ";CJK COMPATIBILITY IDEOGRAPH-2F91B=02F91B;CJK COMPATIBILITY IDEOGRAPH-2F92A=02F92A" \o
      ";CJK COMPATIBILITY IDEOGRAPH-2F9A2=02F9A2;CJK COMPATIBILITY IDEOGRAPH-2F9B1=02F9B1" \o
      ";CJK COMPATIBILITY IDEOGRAPH-2F9C0=02F9C0",
    ";TAB=000009;PU2=000092;POUND SIGN=0000A3;LATIN CAPITAL LETTER A WITH BREVE=000102" \o
      ";LATIN CAPITAL LETTER C WITH ACUTE=000106;LATIN SMALL LETTER L WITH CEDILLA=00013C" \o
      ";LATIN SMALL LETTER E WITH INVERTED BREVE=000207;CYRILLIC SMALL LETTER DJE=000452" \o
      ";SYRIAC HBASA ABOVE=00073A;ARABIC SMALL HIGH WORD QIF=0008DE;DEVANAGARI LETTER SHORT E=00090E" \o
      ";KANNADA LETTER PHA=000CAB;KANNADA LETTER LLA=000CB3;SINHALA LETTER MUURDHAJA NAYANNA=000DAB" \o
      ";LAO LETTER KHMU GO=000EDE;KHMER SIGN KAKABAT=0017CE;NEW TAI LUE LETTER HIGH XA=001983" \o
      ";BALINESE LETTER CA=001B18;BATAK LETTER SIMALUNGUN A=001BC1" \o
      ";SUNDANESE PUNCTUATION BINDU LEU SATANGA=001CC4;GREEK SUBSCRIPT SMALL LETTER PHI=001D69" \o
      ";LATIN SMALL LETTER A WITH BREVE AND ACUTE=001EAF" \o
      ";LATIN SMALL LETTER A WITH BREVE AND TILDE=001EB5;THREE-PER-EM SPACE=002004" \o
      ";MEDIUM MATHEMATICAL SPACE=00205F;BOX DRAWINGS UP HEAVY AND DOWN HORIZONTAL LIGHT=002540" \o
      ";BOX DRAWINGS DOWN HEAVY AND UP HORIZONTAL LIGHT=002541" \o
      ";BOX DRAWINGS DOWN LIGHT AND UP HORIZONTAL HEAVY=002547" \o
      ";BOX DRAWINGS UP LIGHT AND DOWN HORIZONTAL HEAVY=002548" \o
      ";RIGHTWARDS HARPOON WITH BARB UP FROM BAR=00295B;UPWARDS HARPOON WITH BARB RIGHT FROM BAR=00295C" \o
      ";NORTH WEST TRIANGLE-HEADED ARROW=002B66;COPTIC CAPITAL LETTER KSI=002C9C" \o
      ";GEORGIAN SMALL LETTER SAN=002D11;CJK RADICAL MOTHER=002E9F;HIRAGANA LETTER KA=00304B" \o
      ";HIRAGANA LETTER GE=003052;KATAKANA LETTER BI=0030D3;LATIN CAPITAL LETTER RUM ROTUNDA=00A75C" \o
      ";CHEROKEE SMALL LETTER TSA=00ABB3;ARABIC LETTER BEHEH ISOLATED FORM=00FB5A" \o
      ";ARABIC LIGATURE SEEN WITH HAH MEDIAL FORM=00FD35;OLD PERSIAN SIGN U=0103A2" \o
      ";ELBASAN LETTER DHE=010506;MEROITIC CURSIVE NUMBER SEVEN HUNDRED THOUSAND=0109F3" \o
      ";HANIFI ROHINGYA LETTER VA=010D1C;CHAKMA DIGIT SEVEN=01113D;MAHAJANI LETTER MA=01116C" \o
      ";SHARADA LETTER JHA=011199;NEWA SIGN AVAGRAHA=011447;SIDDHAM LETTER DHA=0115A0" \o
      ";CUNEIFORM SIGN AB TIMES DUN3 GUNU=01200C;CUNEIFORM SIGN GABA CROSSING GABA=0120EF" \o
      ";CUNEIFORM SIGN KA2=01218D;CUNEIFORM SIGN NE SHESHIG=01224B" \o
      ";CUNEIFORM SIGN NUNUZ AB2 TIMES U2=012277;EGYPTIAN HIEROGLYPH NU008=01323D" \o
      ";EGYPTIAN HIEROGLYPH NU017=013248;PAHAWH HMONG CLAN SIGN HAM=016B89;MIAO LETTER ZZSYA=016F41" \o
      ";MIAO VOWEL SIGN EN=016F5E;ZNAMENNY COMBINING MARK VYSOKO ON RIGHT=01CF14" \o
      ";MUSICAL SYMBOL TEMPUS PERFECTUM CUM PROLATIONE PERFECTA DIMINUTION-1=01D1C9" \o
      ";MUSICAL SYMBOL KIEVAN WHOLE NOTE=01D1E2;SIGNWRITING HAND-ANGLE LITTLE UP=01D896" \o
      ";CIRCLED C WITH OVERLAID BACKSLASH=01F16E;HOT PEPPER=01F336" \o
      ";DOWN-POINTING SMALL RED TRIANGLE=01F53D;RIGHT ANGER BUBBLE=01F5EF;MOTOR BOAT=01F6E5" \o
      ";DIESEL LOCOMOTIVE=01F6F2;BOLD FIVE SPOKED ASTERISK=01F7B1;BAT=01F987;ELF=01F9DD" \o
      ";CJK COMPATIBILITY IDEOGRAPH-2F80E=02F80E;CJK COMPATIBILITY IDEOGRAPH-2F81D=02F81D" \o
      ";CJK COMPATIBILITY IDEOGRAPH-2F82C=02F82C;CJK COMPATIBILITY IDEOGRAPH-2F83B=02F83B" \o
      ";CJK COMPATIBILITY IDEOGRAPH-2F84A=02F84A;CJK COMPATIBILITY IDEOGRAPH-2F8A4=02F8A4" \o
      ";CJK COMPATIBILITY IDEOGRAPH-2F8B3=02F8B3;CJK COMPATIBILITY IDEOGRAPH-2F8C2=02F8C2" \o
      ";CJK COMPATIBILITY IDEOGRAPH-2F8D1=02F8D1;CJK COMPATIBILITY IDEOGRAPH-2F8E0=02F8E0" \o
      ";CJK COMPATIBILITY IDEOGRAPH-2F90D=02F90D;CJK COMPATIBILITY IDEOGRAPH-2F91C=02F91C" \o
      ";CJK COMPATIBILITY IDEOGRAPH-2F92B=02F92B;CJK COMPATIBILITY IDEOGRAPH-2F93A=02F93A" \o
      ";CJK COMPATIBILITY IDEOGRAPH-2F9A3=02F9A3;CJK COMPATIBILITY IDEOGRAPH-2F9B2=02F9B2" \o
      ";CJK COMPATIBILITY IDEOGRAPH-2F9C1=02F9C1;CJK COMPATIBILITY IDEOGRAPH-2F9D0=02F9D0",
    ";NBH=000083;SS2=00008E;LATIN CAPITAL LETTER A WITH GRAVE=0000C0" \o
      ";LATIN CAPITAL LETTER C WITH CARON=00010C;CYRILLIC CAPITAL LETTER O=00041E" \o
      ";CYRILLIC SMALL LETTER GHE=000433;ARABIC LETTER NOON WITH INVERTED SMALL V=000889" \o
      ";BENGALI LETTER NGA=000999;TAGBANWA LETTER BA=00176A;LIMBU VOWEL SIGN A=001920" \o
      ";NEW TAI LUE LETTER HIGH YA=00198A;COMBINING PLUS SIGN ABOVE=001AC8;BALINESE LETTER DA=001B24" \o
      ";OL CHIKI LETTER OV=001C76;MODIFIER LETTER SMALL ESH=001DB4" \o
      ";GREEK CAPITAL LETTER EPSILON WITH DASIA AND OXIA=001F1D;LEFTWARDS SQUIGGLE ARROW=0021DC" \o
      ";LOWER THREE EIGHTHS BLOCK=002583;BLACK CHESS BISHOP=00265D;BLACK CHESS KNIGHT=00265E" \o
      ";WEST SYRIAC CROSS=002670;HEAVY OUTLINED BLACK STAR=00272E;GROUP MARK=002BD2" \o
      ";GEORGIAN SMALL LETTER TAN=002D07;GEORGIAN SMALL LETTER PAR=002D0E;HIRAGANA LETTER DI=003062" \o
      ";HIRAGANA LETTER HE=003078;KATAKANA LETTER KA=0030AB;KATAKANA LETTER GE=0030B2" \o
      ";IDEOGRAPHIC TELEGRAPH SYMBOL FOR DAY ONE=0033E0;YI SYLLABLE ZHUOX=00A34A" \o
      ";YI SYLLABLE SHYRX=00A3C4;VAI SYLLABLE MGBEE=00A50A;SYLOTI NAGRI VOWEL SIGN E=00A826" \o
      ";CHEROKEE SMALL LETTER TLI=00ABAF;MEETEI MAYEK LETTER ATIYA=00ABD1" \o
      ";ARABIC LIGATURE YEH WITH HAMZA ABOVE WITH REH FINAL FORM=00FC64" \o
      ";PHAISTOS DISC SIGN SHIELD=0101DB;LINEAR A SIGN A708 K=010747;HANIFI ROHINGYA LETTER WA=010D16" \o
      ";MAHAJANI LETTER NA=011167;SHARADA LETTER KHA=011192;CUNEIFORM NUMERIC SIGN NIGIDAESH=012457" \o
      ";EGYPTIAN HIEROGLYPH NU009=01323E;EGYPTIAN HIEROGLYPH NU018=013249" \o
      ";BYZANTINE MUSICAL SYMBOL DIGORGON PARESTIGMENON DEXIA=01D095" \o
      ";MATHEMATICAL SANS-SERIF BOLD DIGIT SEVEN=01D7F3;SQUARED MV=01F14B;CAT=01F408;EAR=01F442" \o
      ";LEG=01F9B5;CJK COMPATIBILITY IDEOGRAPH-2F80F=02F80F;CJK COMPATIBILITY IDEOGRAPH-2F81E=02F81E" \o
      ";CJK COMPATIBILITY IDEOGRAPH-2F82D=02F82D;CJK COMPATIBILITY IDEOGRAPH-2F83C=02F83C" \o
      ";CJK COMPATIBILITY IDEOGRAPH-2F84B=02F84B;CJK COMPATIBILITY IDEOGRAPH-2F85A=02F85A" \o
      ";CJK COMPATIBILITY IDEOGRAPH-2F8A5=02F8A5;CJK COMPATIBILITY IDEOGRAPH-2F8B4=02F8B4" \o
      ";CJK COMPATIBILITY IDEOGRAPH-2F8C3=02F8C3;CJK COMPATIBILITY IDEOGRAPH-2F8D2=02F8D2" \o
      ";CJK COMPATIBILITY IDEOGRAPH-2F8E1=02F8E1;CJK COMPATIBILITY IDEOGRAPH-2F8F0=02F8F0" \o
      ";CJK COMPATIBILITY IDEOGRAPH-2F90E=02F90E;CJK COMPATIBILITY IDEOGRAPH-2F91D=02F91D" \o
      ";CJK COMPATIBILITY IDEOGRAPH-2F92C=02F92C;CJK COMPATIBILITY IDEOGRAPH-2F93B=02F93B" \o
      ";CJK COMPATIBILITY IDEOGRAPH-2F94A=02F94A;CJK COMPATIBILITY IDEOGRAPH-2F9A4=02F9A4" \o
      ";CJK COMPATIBILITY IDEOGRAPH-2F9B3=02F9B3;CJK COMPATIBILITY IDEOGRAPH-2F9C2=02F9C2" \o
      ";CJK COMPATIBILITY IDEOGRAPH-2F9D1=02F9D1;CJK COMPATIBILITY IDEOGRAPH-2F9E0=02F9E0",
    ";ESA=000087;SS3=00008F;LATIN CAPITAL LETTER E WITH ACUTE=0000C9" \o
      ";LATIN CAPITAL LETTER D WITH CARON=00010E;LATIN SMALL LETTER N WITH CEDILLA=000146" \o
      ";LATIN LETTER REVERSED GLOTTAL STOP WITH STROKE=0002A2;CYRILLIC SMALL LETTER LHA=000515" \o
      ";ARMENIAN SMALL LETTER XEH=00056D;EXTENDED ARABIC-INDIC DIGIT SEVEN=0006F7" \o
      ";MANDAIC LETTER ASH=000854;BENGALI ABBREVIATION SIGN=0009FD;MALAYALAM LETTER CHILLU Y=000D55" \o
      ";LAO LETTER THO TAM=000E97;TIBETAN MARK RIN CHEN SPUNGS SHAD=000F11" \o
      ";HANGUL CHOSEONG PIEUP-SIOS-CIEUC=001126;KHMER SIGN YUUKALEAPINTU=0017C8" \o
      ";MONGOLIAN LETTER MANCHU I=001873;MODIFIER LETTER SMALL ETH=001D9E" \o
      ";MODIFIER LETTER SMALL PHI=001DB2;LATIN CAPITAL LETTER E WITH TILDE=001EBC" \o
      ";GREEK PERISPOMENI=001FC0;COMBINING FOUR DOTS ABOVE=0020DC;SQUARE CUP=002294" \o
      ";BOX DRAWINGS DOUBLE DOWN AND LEFT=002557;SIXTEEN POINTED ASTERISK=00273A" \o
      ";DOWNWARDS HARPOON WITH BARB RIGHT TO BAR=002955;RIGHTWARDS HARPOON WITH BARB DOWN TO BAR=002957" \o
      ";MINUS SIGN WITH DOT BELOW=002A2A;BLACK LARGE SQUARE=002B1B;WHITE HORIZONTAL ELLIPSE=002B2D" \o
      ";GLAGOLITIC CAPITAL LETTER POKOJI=002C12;GEORGIAN SMALL LETTER QAR=002D17;LOW KAVYKA=002E47" \o
      ";KANGXI RADICAL DOT=002F02;KANGXI RADICAL TEN=002F17;KANGXI RADICAL NET=002F79" \o
      ";KANGXI RADICAL RAT=002FCF;LEFT WHITE SQUARE BRACKET=00301A;HIRAGANA LETTER MA=00307E" \o
      ";KATAKANA LETTER DI=0030C2;KATAKANA LETTER HE=0030D8;SQUARE MOL=0033D6;YI SYLLABLE NRURX=00A3A3" \o
      ";PHAGS-PA LETTER WA=00A853;ARABIC LETTER HEH DOACHASHMEE MEDIAL FORM=00FBAD" \o
      ";ARABIC LIGATURE BEH WITH HAH INITIAL FORM=00FC9D" \o
      ";ARABIC LIGATURE THEH WITH HEH MEDIAL FORM=00FCE6" \o
      ";ARABIC LIGATURE LAM WITH MEEM MEDIAL FORM=00FCED;HALFWIDTH HANGUL LETTER O=00FFCC" \o
      ";CHORASMIAN NUMBER TWENTY=010FCA;MODI VOWEL SIGN II=011632;CUNEIFORM SIGN MA2=012223" \o
      ";CUNEIFORM SIGN MU OVER MU=01222D;EGYPTIAN HIEROGLYPH NU019=01324B" \o
      ";PAHAWH HMONG SIGN CIM CUAM TSHOOJ=016B73;MIAO VOWEL SIGN NG=016F7E" \o
      ";MATHEMATICAL BOLD ITALIC CAPITAL EPSILON=01D720;MATHEMATICAL BOLD CAPITAL DIGAMMA=01D7CA" \o
      ";SIGNWRITING LIMB LENGTH-1=01DA77;COMBINING GLAGOLITIC LETTER HERU=01E018" \o
      ";INDIC SIYAQ NUMBER FOUR THOUSAND=01EC8F;RAISED BACK OF HAND=01F91A" \o
      ";CJK COMPATIBILITY IDEOGRAPH-2F81F=02F81F;CJK COMPATIBILITY IDEOGRAPH-2F82E=02F82E" \o
      ";CJK COMPATIBILITY IDEOGRAPH-2F83D=02F83D;CJK COMPATIBILITY IDEOGRAPH-2F84C=02F84C" \o
      ";CJK COMPATIBILITY IDEOGRAPH-2F85B=02F85B;CJK COMPATIBILITY IDEOGRAPH-2F86A=02F86A" \o
      ";CJK COMPATIBILITY IDEOGRAPH-2F8A6=02F8A6;CJK COMPATIBILITY IDEOGRAPH-2F8B5=02F8B5" \o
      ";CJK COMPATIBILITY IDEOGRAPH-2F8C4=02F8C4;CJK COMPATIBILITY IDEOGRAPH-2F8D3=02F8D3" \o
      ";CJK COMPATIBILITY IDEOGRAPH-2F8E2=02F8E2;CJK COMPATIBILITY IDEOGRAPH-2F8F1=02F8F1" \o
      ";CJK COMPATIBILITY IDEOGRAPH-2F90F=02F90F;CJK COMPATIBILITY IDEOGRAPH-2F91E=02F91E" \o
      ";CJK COMPATIBILITY IDEOGRAPH-2F92D=02F92D;CJK COMPATIBILITY IDEOGRAPH-2F93C=02F93C" \o
      ";CJK COMPATIBILITY IDEOGRAPH-2F94B=02F94B;CJK COMPATIBILITY IDEOGRAPH-2F95A=02F95A" \o
      ";CJK COMPATIBILITY IDEOGRAPH-2F9A5=02F9A5;CJK COMPATIBILITY IDEOGRAPH-2F9B4=02F9B4" \o
      ";CJK COMPATIBILITY IDEOGRAPH-2F9C3=02F9C3;CJK COMPATIBILITY IDEOGRAPH-2F9D2=02F9D2" \o
      ";CJK COMPATIBILITY IDEOGRAPH-2F9E1=02F9E1;CJK COMPATIBILITY IDEOGRAPH-2F9F0=02F9F0",
    ";NAK=000015;BPH=000082;DCS=000090;LATIN CAPITAL LETTER E WITH CARON=00011A" \o
      ";LATIN LETTER INVERTED GLOTTAL STOP WITH STROKE=0001BE;MODIFIER LETTER DOWN TACK=0002D5" \o
      ";CYRILLIC SMALL LETTER GJE=000453;ALM=00061C;ARABIC LETTER HEH WITH INVERTED V=0006FF" \o
      ";GUJARATI LETTER VOCALIC R=000A8B;TAMIL VOWEL SIGN E=000BC6;KANNADA LETTER SHA=000CB6" \o
      ";ETHIOPIC TONAL MARK SHORT RIKRIK=001393;RUNIC LETTER LONG-BRANCH-HAGALL H=0016BC" \o
      ";TAGBANWA LETTER DA=001767;KHMER VOWEL SIGN E=0017C1;MONGOLIAN LETTER SIBE ZHA=001872" \o
      ";LATIN CAPITAL LETTER A WITH CIRCUMFLEX AND ACUTE=001EA4" \o
      ";LATIN CAPITAL LETTER A WITH CIRCUMFLEX AND TILDE=001EAA" \o
      ";LATIN SMALL LETTER A WITH BREVE AND GRAVE=001EB1;PDF=00202C;VULGAR FRACTION ONE FIFTH=002155" \o
      ";NEGATIVE CIRCLED NUMBER FOURTEEN=0024EE;TEARDROP-SPOKED ASTERISK=00273B" \o
      ";ERROR-BARRED WHITE CIRCLE=0029F2;HEAVY LARGE CIRCLE=002B55;COPTIC SMALL LETTER LAULA=002C97" \o
      ";COPTIC CAPITAL LETTER TAU=002CA6;EDITORIAL CORONIS=002E0E;RING POINT=002E30" \o
      ";KANGXI RADICAL BOW=002F38;HIRAGANA LETTER NA=00306A;KATAKANA LETTER MA=0030DE;SQUARE GHZ=003393" \o
      ";YI SYLLABLE RRUOX=00A37E;PHAGS-PA LETTER XA=00A863;HANGUL CHOSEONG SSANGCIEUC-HIEUH=00A978" \o
      ";CHEROKEE SMALL LETTER QUE=00AB97;VS1=00FE00;COPTIC EPACT NUMBER FIFTY=0102EE" \o
      ";ELBASAN LETTER GHE=010525;LINEAR A SIGN A709 L=010748;HANIFI ROHINGYA LETTER YA=010D18" \o
      ";RUMI NUMBER FORTY=010E6C;YEZIDI LETTER YOT=010EA8;MAHAJANI LETTER PA=011168" \o
      ";SHARADA LETTER NGA=011195;GRANTHA LETTER VOCALIC RR=011360;SIDDHAM LETTER GHA=011591" \o
      ";DOGRA VOWEL SIGN O=011835;MARCHEN LETTER CHA=011C77;CUNEIFORM SIGN NA2=01223F" \o
      ";MIAO LETTER REFORMED TSHA=016F32;MIAO VOWEL SIGN UA=016F6B;MIAO VOWEL SIGN AU=016F7B" \o
      ";MIAO VOWEL SIGN OG=016F81;BYZANTINE MUSICAL SYMBOL ETERON ARGOSYNTHETON=01D074" \o
      ";MATHEMATICAL MONOSPACE DIGIT TWO=01D7F8;SIGNWRITING TOUCH SINGLE=01D905" \o
      ";SIGNWRITING LIMB LENGTH-2=01DA78;CONVENIENCE STORE=01F3EA;DOG=01F415" \o
      ";PERSON IN LOTUS POSITION=01F9D8;BLACK CHESS QUEEN ROTATED NINETY DEGREES=01FA10" \o
      ";CJK COMPATIBILITY IDEOGRAPH-2F82F=02F82F;CJK COMPATIBILITY IDEOGRAPH-2F83E=02F83E" \o
      ";CJK COMPATIBILITY IDEOGRAPH-2F84D=02F84D;CJK COMPATIBILITY IDEOGRAPH-2F85C=02F85C" \o
      ";CJK COMPATIBILITY IDEOGRAPH-2F86B=02F86B;CJK COMPATIBILITY IDEOGRAPH-2F87A=02F87A" \o
      ";CJK COMPATIBILITY IDEOGRAPH-2F8A7=02F8A7;CJK COMPATIBILITY IDEOGRAPH-2F8B6=02F8B6" \o
      ";CJK COMPATIBILITY IDEOGRAPH-2F8C5=02F8C5;CJK COMPATIBILITY IDEOGRAPH-2F8D4=02F8D4" \o
      ";CJK COMPATIBILITY IDEOGRAPH-2F8E3=02F8E3;CJK COMPATIBILITY IDEOGRAPH-2F8F2=02F8F2" \o
      ";CJK COMPATIBILITY IDEOGRAPH-2F91F=02F91F;CJK COMPATIBILITY IDEOGRAPH-2F92E=02F92E" \o
      ";CJK COMPATIBILITY IDEOGRAPH-2F93D=02F93D;CJK COMPATIBILITY IDEOGRAPH-2F94C=02F94C" \o
      ";CJK COMPATIBILITY IDEOGRAPH-2F95B=02F95B;CJK COMPATIBILITY IDEOGRAPH-2F96A=02F96A" \o
      ";CJK COMPATIBILITY IDEOGRAPH-2F9A6=02F9A6;CJK COMPATIBILITY IDEOGRAPH-2F9B5=02F9B5" \o
      ";CJK COMPATIBILITY IDEOGRAPH-2F9C4=02F9C4;CJK COMPATIBILITY IDEOGRAPH-2F9D3=02F9D3" \o
      ";CJK COMPATIBILITY IDEOGRAPH-2F9E2=02F9E2;CJK COMPATIBILITY IDEOGRAPH-2F9F1=02F9F1",
    ";ETB=000017;ESC=00001B;IND=000084;LATIN CAPITAL LETTER E WITH BREVE=000114" \o
      ";LATIN CAPITAL LETTER G WITH ACUTE=0001F4;LATIN SMALL LETTER I WITH INVERTED BREVE=00020B" \o
      ";GREEK SMALL REVERSED DOTTED LUNATE SIGMA SYMBOL=00037D;ARMENIAN SMALL LETTER ZHE=00056A" \o
      ";ARABIC LETTER THEH=00062B;ARABIC LETTER THAL=000630;ARABIC LETTER GUEH=0006B3" \o
      ";THAANA LETTER THAA=00078C;BENGALI LETTER PHA=0009AB;KANNADA LETTER NNA=000CA3" \o
      ";KANNADA LETTER THA=000CA5;KANNADA DIGIT FOUR=000CEA" \o
      ";TIBETAN SUBJOINED SIGN INVERTED MCHU CAN=000F8F;CHEROKEE LETTER DA=0013D3" \o
      ";BALINESE LETTER GA=001B15;SMALL ROMAN NUMERAL EIGHT=002177;WHITE STAR=002606" \o
      ";BLACK DRAUGHTS MAN=0026C2;IDENTICAL TO AND SLANTED PARALLEL=0029E5" \o
      ";DOUBLE-LINE EQUAL TO OR LESS-THAN=002A99;SUPERSET OF ABOVE TILDE OPERATOR=002AC8" \o
      ";KANGXI RADICAL COW=002F5C;HIRAGANA LETTER GI=00304E;HIRAGANA LETTER KE=003051" \o
      ";KATAKANA LETTER NA=0030CA;CIRCLED IDEOGRAPH CORRECT=0032A3;YI SYLLABLE ZHURX=00A359" \o
      ";LATIN CAPITAL LETTER O WITH LONG STROKE OVERLAY=00A74A;PHAGS-PA LETTER YA=00A857" \o
      ";CHEROKEE SMALL LETTER TSE=00ABB4;ARABIC LIGATURE SEEN WITH HEH MEDIAL FORM=00FCE8;VS2=00FE01" \o
      ";ARABIC LETTER YEH WITH HAMZA ABOVE ISOLATED FORM=00FE89;DESERET SMALL LETTER THEE=010444" \o
      ";HANIFI ROHINGYA LETTER ZA=010D0E;HANIFI ROHINGYA DIGIT TWO=010D32;KAITHI LETTER DDHA=01109B" \o
      ";SHARADA ABBREVIATION SIGN=0111C7;NEWA VOWEL SIGN II=011437;TIRHUTA LETTER UU=011486" \o
      ";AHOM VOWEL SIGN AW=011727;CUNEIFORM SIGN NUNUZ AB2 TIMES BI=01226F" \o
      ";CUNEIFORM SIGN ZI OVER ZI=012364;CUNEIFORM SIGN ZU5 TIMES THREE DISH TENU=012543" \o
      ";BAMUM LETTER PHASE-A MON NGGEUAET=01681E;PAHAWH HMONG CONSONANT AU=016B2D" \o
      ";MIAO VOWEL SIGN ER=016F77;ZNAMENNY NEUME STRELA KLYUCHEPOVODNAYA=01CF98" \o
      ";MATHEMATICAL BOLD EPSILON SYMBOL=01D6DC;MATHEMATICAL BOLD ITALIC SMALL XI=01D743" \o
      ";SIGNWRITING HAND-FIST INDEX MIDDLE THUMB CUPPED=01D828" \o
      ";SIGNWRITING HAND-ANGLE INDEX MIDDLE RING=01D889;SIGNWRITING HAND-FIST RING INDEX=01D8B7" \o
      ";SIGNWRITING BRUSH SINGLE=01D90E;SIGNWRITING LIMB LENGTH-3=01DA79" \o
      ";ARABIC MATHEMATICAL STRETCHED DAD=01EE79" \o
      ";ARABIC MATHEMATICAL OPERATOR MEEM WITH HAH WITH TATWEEL=01EEF0;SQUARED SS=01F14D" \o
      ";UPPER THREE EIGHTHS BLOCK=01FB83;CJK COMPATIBILITY IDEOGRAPH-2F83F=02F83F" \o
      ";CJK COMPATIBILITY IDEOGRAPH-2F84E=02F84E;CJK COMPATIBILITY IDEOGRAPH-2F85D=02F85D" \o
      ";CJK COMPATIBILITY IDEOGRAPH-2F86C=02F86C;CJK COMPATIBILITY IDEOGRAPH-2F87B=02F87B" \o
      ";CJK COMPATIBILITY IDEOGRAPH-2F88A=02F88A;CJK COMPATIBILITY IDEOGRAPH-2F8A8=02F8A8" \o
      ";CJK COMPATIBILITY IDEOGRAPH-2F8B7=02F8B7;CJK COMPATIBILITY IDEOGRAPH-2F8C6=02F8C6" \o
      ";CJK COMPATIBILITY IDEOGRAPH-2F8D5=02F8D5;CJK COMPATIBILITY IDEOGRAPH-2F8E4=02F8E4" \o
      ";CJK COMPATIBILITY IDEOGRAPH-2F8F3=02F8F3;CJK COMPATIBILITY IDEOGRAPH-2F92F=02F92F" \o
      ";CJK COMPATIBILITY IDEOGRAPH-2F93E=02F93E;CJK COMPATIBILITY IDEOGRAPH-2F94D=02F94D" \o
      ";CJK COMPATIBILITY IDEOGRAPH-2F95C=02F95C;CJK COMPATIBILITY IDEOGRAPH-2F96B=02F96B" \o
      ";CJK COMPATIBILITY IDEOGRAPH-2F97A=02F97A;CJK COMPATIBILITY IDEOGRAPH-2F9A7=02F9A7" \o
      ";CJK COMPATIBILITY IDEOGRAPH-2F9B6=02F9B6;CJK COMPATIBILITY IDEOGRAPH-2F9C5=02F9C5" \o
      ";CJK COMPATIBILITY IDEOGRAPH-2F9D4=02F9D4;CJK COMPATIBILITY IDEOGRAPH-2F9E3=02F9E3" \o
      ";CJK COMPATIBILITY IDEOGRAPH-2F9F2=02F9F2",
    ";LATIN CAPITAL LETTER E WITH GRAVE=0000C8;LATIN CAPITAL LETTER G WITH CARON=0001E6" \o
      ";GREEK SMALL LETTER STIGMA=0003DB;CYRILLIC SMALL LETTER BYELORUSSIAN-UKRAINIAN I=000456" \o
      ";ARABIC NUMBER SIGN=000600;ARABIC LETTER DYEH=000684;SINHALA LETTER MUURDHAJA SAYANNA=000DC2" \o
      ";LIMBU VOWEL SIGN E=001927;BALINESE LETTER HA=001B33" \o
      ";LATIN SMALL CAPITAL LETTER I WITH STROKE=001D7B;Z NOTATION BAG MEMBERSHIP=0022FF" \o
      ";BLACK-FEATHERED RIGHTWARDS ARROW=0027B5;LEFT TRIANGLE BESIDE VERTICAL BAR=0029CF" \o
      ";COPTIC CAPITAL LETTER PSI=002CAE;GEORGIAN SMALL LETTER TAR=002D12" \o
      ";GEORGIAN SMALL LETTER XAN=002D1E;IDEOGRAPHIC DESCRIPTION CHARACTER LEFT TO RIGHT=002FF0" \o
      ";HIRAGANA LETTER PA=003071;HIRAGANA LETTER HI=003072;HIRAGANA LETTER BO=00307C" \o
      ";KATAKANA LETTER GI=0030AE;KATAKANA LETTER KE=0030B1;LATIN EPIGRAPHIC LETTER ARCHAIC M=00A7FF" \o
      ";SYLOTI NAGRI VOWEL SIGN I=00A824;PHAGS-PA LETTER ZA=00A855;MYANMAR LETTER KHAMTI LLA=00AA6E" \o
      ";ARABIC LIGATURE KAF WITH HAH INITIAL FORM=00FCC5" \o
      ";ARABIC LIGATURE TAH WITH MEEM MEDIAL FORM=00FD3A;VS3=00FE02" \o
      ";COMBINING DOUBLE TILDE RIGHT HALF=00FE23;OLD PERMIC LETTER SHCHOOI=010366" \o
      ";ELBASAN LETTER GJE=01050B;BRAHMI DIGIT THREE=011069;MAHAJANI LETTER RA=01116D" \o
      ";WARANG CITI NUMBER EIGHTY=0118F1;ZANABAZAR SQUARE LETTER A=011A00" \o
      ";SOYOMBO SIGN JIHVAMULIYA=011A84;TAMIL FRACTION ONE THIRTY-SECOND=011FC5" \o
      ";CUNEIFORM SIGN NA4=01238E;CUNEIFORM NUMERIC SIGN NIGIDAMIN=012456" \o
      ";PAHAWH HMONG SIGN THIRD-STAGE HLI=016B66;MIAO VOWEL SIGN IO=016F65" \o
      ";BYZANTINE MUSICAL SYMBOL AGOGI ARGOTERI=01D09B;MATHEMATICAL BOLD ITALIC SMALL MU=01D741" \o
      ";SIGNWRITING HAND-FIST THUMB BETWEEN MIDDLE RING=01D8FC;SIGNWRITING NOSE WIGGLES=01DA34" \o
      ";SIGNWRITING MOUTH KISS WRINKLED=01DA4F;SIGNWRITING LIMB LENGTH-4=01DA7A" \o
      ";COMBINING GLAGOLITIC LETTER YATI=01E021;SQUARED CJK UNIFIED IDEOGRAPH-7121=01F21A;FOG=01F32B" \o
      ";MAN=01F468;UPWARDS ARROW WITH SMALL EQUILATERAL ARROWHEAD=01F811;PERSON WITH CROWN=01FAC5" \o
      ";CJK COMPATIBILITY IDEOGRAPH-2F84F=02F84F;CJK COMPATIBILITY IDEOGRAPH-2F85E=02F85E" \o
      ";CJK COMPATIBILITY IDEOGRAPH-2F86D=02F86D;CJK COMPATIBILITY IDEOGRAPH-2F87C=02F87C" \o
      ";CJK COMPATIBILITY IDEOGRAPH-2F88B=02F88B;CJK COMPATIBILITY IDEOGRAPH-2F89A=02F89A" \o
      ";CJK COMPATIBILITY IDEOGRAPH-2F8A9=02F8A9;CJK COMPATIBILITY IDEOGRAPH-2F8B8=02F8B8" \o
      ";CJK COMPATIBILITY IDEOGRAPH-2F8C7=02F8C7;CJK COMPATIBILITY IDEOGRAPH-2F8D6=02F8D6" \o
      ";CJK COMPATIBILITY IDEOGRAPH-2F8E5=02F8E5;CJK COMPATIBILITY IDEOGRAPH-2F8F4=02F8F4" \o
      ";CJK COMPATIBILITY IDEOGRAPH-2F93F=02F93F;CJK COMPATIBILITY IDEOGRAPH-2F94E=02F94E" \o
      ";CJK COMPATIBILITY IDEOGRAPH-2F95D=02F95D;CJK COMPATIBILITY IDEOGRAPH-2F96C=02F96C" \o
      ";CJK COMPATIBILITY IDEOGRAPH-2F97B=02F97B;CJK COMPATIBILITY IDEOGRAPH-2F98A=02F98A" \o
      ";CJK COMPATIBILITY IDEOGRAPH-2F9A8=02F9A8;CJK COMPATIBILITY IDEOGRAPH-2F9B7=02F9B7" \o
      ";CJK COMPATIBILITY IDEOGRAPH-2F9C6=02F9C6;CJK COMPATIBILITY IDEOGRAPH-2F9D5=02F9D5" \o
      ";CJK COMPATIBILITY IDEOGRAPH-2F9E4=02F9E4;CJK COMPATIBILITY IDEOGRAPH-2F9F3=02F9F3" \o
      ";CJK COMPATIBILITY IDEOGRAPH-2FA0A=02FA0A;TAG LESS-THAN SIGN=0E003C",
    ";SGC=000099;LATIN CAPITAL LETTER I WITH ACUTE=0000CD;LATIN CAPITAL LETTER G WITH BREVE=00011E" \o
      ";LATIN CAPITAL LETTER I WITH TILDE=000128;LATIN SMALL LETTER R WITH CEDILLA=000157" \o
      ";LATIN CAPITAL LETTER YOGH=00021C;LATIN CAPITAL LETTER H WITH CARON=00021E" \o
      ";LATIN CAPITAL LETTER O WITH DIAERESIS AND MACRON=00022A;COPTIC SMALL LETTER SHIMA=0003ED" \o
      ";CYRILLIC SMALL LETTER CHE WITH DESCENDER=0004B7;ARABIC LETTER MARK=00061C" \o
      ";ARABIC LETTER SEEN=000633;SYRIAC OBLIQUE LINE BELOW=000748;ARABIC LETTER LAM WITH BAR=00076A" \o
      ";BENGALI LETTER RHA=0009DD;RUNIC SINGLE PUNCTUATION=0016EB;TAGBANWA LETTER GA=001764" \o
      ";KHMER SYMBOL DAP-MUOY ROC=0019FB;LATIN CAPITAL LETTER A WITH CIRCUMFLEX AND GRAVE=001EA6" \o
      ";PDI=002069;ROMAN NUMERAL ONE HUNDRED=00216D;MINUS SIGN=002212" \o
      ";HEAVY EIGHT TEARDROP-SPOKED PROPELLER ASTERISK=00274B" \o
      ";REVERSE SOLIDUS WITH HORIZONTAL STROKE=0029F7" \o
      ";ANTICLOCKWISE TRIANGLE-HEADED OPEN CIRCLE ARROW=002B6F;CJK RADICAL MORTAR=002EBD" \o
      ";KANGXI RADICAL FLY=002FB6;HIRAGANA LETTER ME=003081;KATAKANA LETTER PA=0030D1" \o
      ";KATAKANA LETTER HI=0030D2;KATAKANA LETTER BO=0030DC;CIRCLED NUMBER FORTY FIVE=0032BA" \o
      ";CIRCLED NUMBER FORTY NINE=0032BE;IDEOGRAPHIC TELEGRAPH SYMBOL FOR DAY TEN=0033E9" \o
      ";YI SYLLABLE RRURX=00A38C;YI SYLLABLE NRYRX=00A3A9;YI SYLLABLE NYUOX=00A452" \o
      ";ARABIC LIGATURE BEH WITH HEH INITIAL FORM=00FCA0" \o
      ";ARABIC LIGATURE FEH WITH HAH INITIAL FORM=00FCBF" \o
      ";ARABIC LIGATURE SHEEN WITH HAH FINAL FORM=00FD26;VS4=00FE03" \o
      ";GREEK ACROPHONIC TROEZENIAN FIVE=01015F;ELBASAN LETTER NDE=010505;LINEAR A SIGN A710 W=01074D" \o
      ";PSALTER PAHLAVI LETTER HE=010B84;MAHAJANI LETTER SA=011170;SHARADA LETTER PHA=0111A6" \o
      ";SHARADA LETTER LLA=0111AD;KHOJKI LETTER DDDA=01121C;TIRHUTA OM=0114C7;SIDDHAM LETTER JHA=011596" \o
      ";MODI VOWEL SIGN AU=01163C;CUNEIFORM SIGN DU SHESHIG=01207D;CUNEIFORM SIGN GI4=012104" \o
      ";CUNEIFORM SIGN NUNUZ AB2 TIMES LA=012274;CUNEIFORM SIGN UD SHESHIG=01231A" \o
      ";BAMUM LETTER PHASE-C NGGUAEN NYAM=0168B0;MATHEMATICAL ITALIC CAPITAL LAMDA=01D6EC" \o
      ";MATHEMATICAL BOLD ITALIC SMALL NU=01D742;SIGNWRITING HAND-CUP INDEX THUMB=01D8EC" \o
      ";SIGNWRITING TRAVEL-WALLPLANE ARM SPIRAL SINGLE=01D952;SIGNWRITING EYELASHES UP=01DA1E" \o
      ";SIGNWRITING LIMB LENGTH-5=01DA7B;ARABIC MATHEMATICAL INITIAL GHAIN=01EE3B" \o
      ";BANKNOTE WITH DOLLAR SIGN=01F4B5;SMALL BLUE DIAMOND=01F539;BLACK TINY DIAMOND=01F797" \o
      ";RIGHTWARDS TRIANGLE-HEADED ARROW WITH VERY HEAVY SHAFT=01F832;WATER POLO=01F93D" \o
      ";BAR OF SOAP=01F9FC;JAR=01FAD9;CJK COMPATIBILITY IDEOGRAPH-2F85F=02F85F" \o
      ";CJK COMPATIBILITY IDEOGRAPH-2F86E=02F86E;CJK COMPATIBILITY IDEOGRAPH-2F87D=02F87D" \o
      ";CJK COMPATIBILITY IDEOGRAPH-2F88C=02F88C;CJK COMPATIBILITY IDEOGRAPH-2F89B=02F89B" \o
      ";CJK COMPATIBILITY IDEOGRAPH-2F8B9=02F8B9;CJK COMPATIBILITY IDEOGRAPH-2F8C8=02F8C8" \o
      ";CJK COMPATIBILITY IDEOGRAPH-2F8D7=02F8D7;CJK COMPATIBILITY IDEOGRAPH-2F8E6=02F8E6" \o
      ";CJK COMPATIBILITY IDEOGRAPH-2F8F5=02F8F5;CJK COMPATIBILITY IDEOGRAPH-2F94F=02F94F" \o
      ";CJK COMPATIBILITY IDEOGRAPH-2F95E=02F95E;CJK COMPATIBILITY IDEOGRAPH-2F96D=02F96D" \o
      ";CJK COMPATIBILITY IDEOGRAPH-2F97C=02F97C;CJK COMPATIBILITY IDEOGRAPH-2F98B=02F98B" \o
      ";CJK COMPATIBILITY IDEOGRAPH-2F99A=02F99A;CJK COMPATIBILITY IDEOGRAPH-2F9A9=02F9A9" \o
      ";CJK COMPATIBILITY IDEOGRAPH-2F9B8=02F9B8;CJK COMPATIBILITY IDEOGRAPH-2F9C7=02F9C7" \o
      ";CJK COMPATIBILITY IDEOGRAPH-2F9D6=02F9D6;CJK COMPATIBILITY IDEOGRAPH-2F9E5=02F9E5" \o
      ";CJK COMPATIBILITY IDEOGRAPH-2F9F4=02F9F4;CJK COMPATIBILITY IDEOGRAPH-2FA0B=02FA0B" \o
      ";CJK COMPATIBILITY IDEOGRAPH-2FA1A=02FA1A",
    ";LATIN SMALL LETTER S WITH CEDILLA=00015F;LATIN CAPITAL LETTER I WITH CARON=0001CF" \o
      ";GREEK LUNATE SIGMA SYMBOL=0003F2;CYRILLIC CAPITAL LETTER U=000423" \o
      ";CYRILLIC SMALL LETTER KJE=00045C;ARABIC SIGN SALLALLAHOU ALAYHE WASSALLAM=000610" \o
      ";ARABIC LETTER NOON WITH SMALL TAH=000768;BENGALI LETTER SHA=0009B6;BENGALI RUPEE MARK=0009F2" \o
      ";TAMIL VOWEL SIGN I=000BBF;LAO LETTER FO SUNG=000E9F;TIBETAN SYMBOL NOR BU BZHI -KHYIL=000FCC" \o
      ";MYANMAR LETTER VOCALIC LL=001055;CHEROKEE LETTER GA=0013A6;KHMER VOWEL SIGN I=0017B7" \o
      ";MONGOLIAN LETTER TODO JIA=00185A;NEW TAI LUE LETTER FINAL V=0019C1;BALINESE LETTER JA=001B1A" \o
      ";LEPCHA PUNCTUATION TSHOOK CER-WA=001C3E;LATIN CAPITAL LETTER E WITH CIRCUMFLEX AND ACUTE=001EBE" \o
      ";LATIN CAPITAL LETTER E WITH CIRCUMFLEX AND TILDE=001EC4" \o
      ";GREEK SMALL LETTER RHO WITH DASIA=001FE5;BLACK DIAMOND SUIT=002666" \o
      ";LOGICAL AND WITH DOT ABOVE=002A51;SUPERSET WITH DOT=002ABE;HIRAGANA LETTER DO=003069" \o
      ";HIRAGANA LETTER NE=00306D;HIRAGANA LETTER RA=003089;KATAKANA LETTER ME=0030E1;SQUARE KHZ=003391" \o
      ";SQUARE PPM=0033D9;YI SYLLABLE NZUOX=00A2F8;VAI SYLLABLE NGGEE=00A51F" \o
      ";JAVANESE LETTER NYA MURDA=00A998;TAI VIET VOWEL UEA=00AAB9;TAI VIET VOWEL AUE=00AABB" \o
      ";CHEROKEE SMALL LETTER QUI=00AB98;CHEROKEE SMALL LETTER TLO=00ABB0" \o
      ";ARABIC LIGATURE YEH WITH HAMZA ABOVE WITH E INITIAL FORM=00FBF8;VS5=00FE04;BOM=00FEFF" \o
      ";PHAISTOS DISC SIGN HELMET=0101D6;ELBASAN LETTER KHE=010527;CHAKMA LETTER NYAA=011110" \o
      ";MAHAJANI LETTER TA=011163;GRANTHA LETTER DDA=011321;SIDDHAM LETTER KHA=01158F" \o
      ";TAKRI VOWEL SIGN E=0116B2;BAMUM LETTER PHASE-B NGGUOQ LARGE=01687B" \o
      ";DUPLOYAN AFFIX LOW CIRCLE=01BC95;ZNAMENNY NEUME ZAPYATAYA=01CF5D" \o
      ";MUSICAL SYMBOL END PHRASE=01D17A;MUSICAL SYMBOL ORNAMENT STROKE-1=01D19B" \o
      ";SIGNWRITING HAND-HOOK RING THUMB=01D8B9;SIGNWRITING LIMB LENGTH-6=01DA7C" \o
      ";COMBINING GLAGOLITIC LETTER YERI=01E020;OTTOMAN SIYAQ NUMBER ONE HUNDRED=01ED13" \o
      ";SQUARED VS=01F19A;ADMISSION TICKETS=01F39F;BUG=01F41B;DVD=01F4C0" \o
      ";PERSON RAISING BOTH HANDS IN CELEBRATION=01F64C;PIE=01F967" \o
      ";NEUTRAL CHESS KING ROTATED TWO HUNDRED SEVENTY DEGREES=01FA3F;AXE=01FA93" \o
      ";BLOCK SEXTANT-12345=01FB1D;CJK COMPATIBILITY IDEOGRAPH-2F86F=02F86F" \o
      ";CJK COMPATIBILITY IDEOGRAPH-2F87E=02F87E;CJK COMPATIBILITY IDEOGRAPH-2F88D=02F88D" \o
      ";CJK COMPATIBILITY IDEOGRAPH-2F89C=02F89C;CJK COMPATIBILITY IDEOGRAPH-2F8C9=02F8C9" \o
      ";CJK COMPATIBILITY IDEOGRAPH-2F8D8=02F8D8;CJK COMPATIBILITY IDEOGRAPH-2F8E7=02F8E7" \o
      ";CJK COMPATIBILITY IDEOGRAPH-2F8F6=02F8F6;CJK COMPATIBILITY IDEOGRAPH-2F95F=02F95F" \o
      ";CJK COMPATIBILITY IDEOGRAPH-2F96E=02F96E;CJK COMPATIBILITY IDEOGRAPH-2F97D=02F97D" \o
      ";CJK COMPATIBILITY IDEOGRAPH-2F98C=02F98C;CJK COMPATIBILITY IDEOGRAPH-2F99B=02F99B" \o
      ";CJK COMPATIBILITY IDEOGRAPH-2F9B9=02F9B9;CJK COMPATIBILITY IDEOGRAPH-2F9C8=02F9C8" \o
      ";CJK COMPATIBILITY IDEOGRAPH-2F9D7=02F9D7;CJK COMPATIBILITY IDEOGRAPH-2F9E6=02F9E6" \o
      ";CJK COMPATIBILITY IDEOGRAPH-2F9F5=02F9F5;CJK COMPATIBILITY IDEOGRAPH-2FA0C=02FA0C" \o
      ";CJK COMPATIBILITY IDEOGRAPH-2FA1B=02FA1B",
    ";NEL=000085;SCI=00009A;CSI=00009B;LATIN CAPITAL LETTER I WITH BREVE=00012C" \o
      ";LATIN SMALL LETTER T WITH CEDILLA=000163;CYRILLIC SMALL LETTER LJE=000459" \o
      ";CYRILLIC SMALL LETTER STRAIGHT U=0004AF;CYRILLIC CAPITAL LETTER A WITH DIAERESIS=0004D2" \o
      ";CYRILLIC SMALL LETTER RHA=000517;ARABIC SIGN SAMVAT=000604;DEVANAGARI VOWEL SIGN UUE=000957" \o
      ";BENGALI LETTER NNA=0009A3;BENGALI LETTER THA=0009A5;BENGALI DIGIT FOUR=0009EA" \o
      ";KANNADA DIGIT ZERO=000CE6;MALAYALAM FRACTION ONE ONE-HUNDRED-AND-SIXTIETH=000D58" \o
      ";CHEROKEE LETTER HA=0013AD;CHEROKEE LETTER DE=0013D5;BUHID VOWEL SIGN U=001753" \o
      ";MONGOLIAN LETTER SIBE TSA=00186E;LIMBU SUBJOINED LETTER RA=00192A;BALINESE LETTER KA=001B13" \o
      ";BALINESE VOWEL SIGN PEPET=001B42;LEPCHA DIGIT SEVEN=001C47" \o
      ";VEDIC SIGN ANUSVARA ANTARGOMUKHA=001CE9;LATIN LETTER SMALL CAPITAL L WITH STROKE=001D0C" \o
      ";GREEK SUBSCRIPT SMALL LETTER RHO=001D68;MODIFIER LETTER SMALL EZH=001DBE" \o
      ";LATIN CAPITAL LETTER K WITH ACUTE=001E30;VERTICAL ELLIPSIS=0022EE" \o
      ";APL FUNCTIONAL SYMBOL QUOTE QUAD=00235E;UPPER LEFT OR LOWER RIGHT CURLY BRACKET SECTION=0023B0" \o
      ";UPPER RIGHT OR LOWER LEFT CURLY BRACKET SECTION=0023B1;SOUTH WEST TRIANGLE-HEADED ARROW=002B69" \o
      ";RIGHT SQUARE BRACKET WITH STROKE=002E56;TOP HALF LEFT PARENTHESIS=002E59" \o
      ";CJK RADICAL PERSON=002E85;KANGXI RADICAL SAY=002F48;KANGXI RADICAL FUR=002F51" \o
      ";KANGXI RADICAL USE=002F64;HIRAGANA LETTER KI=00304D;HIRAGANA LETTER SA=003055" \o
      ";KATAKANA LETTER DO=0030C9;KATAKANA LETTER NE=0030CD;KATAKANA LETTER RA=0030E9" \o
      ";YI SYLLABLE ZHYRX=00A35F;CHEROKEE SMALL LETTER TSI=00ABB5" \o
      ";ARABIC LIGATURE YEH WITH HAMZA ABOVE WITH YEH FINAL FORM=00FC69;VS6=00FE05" \o
      ";PRESENTATION FORM FOR VERTICAL RIGHT WHITE LENTICULAR BRACKET=00FE18" \o
      ";PRESENTATION FORM FOR VERTICAL RIGHT WHITE LENTICULAR BRAKCET=00FE18" \o
      ";HALFWIDTH HANGUL LETTER U=00FFD3;LINEAR B IDEOGRAM B108F SOW=01008A;LINEAR A SIGN A711 X=01074E" \o
      ";HATRAN LETTER DALETH-RESH=0108E3;CHAKMA LETTER TTAA=011111;NEWA VOWEL SIGN AU=011441" \o
      ";CUNEIFORM SIGN GESHTIN TIMES KUR=0120FF;CUNEIFORM SIGN LAGAR GUNU=0121EF" \o
      ";BAMUM LETTER PHASE-A GHEUAEGHEUAE=016821;MUSICAL SYMBOL ORNAMENT STROKE-2=01D19C" \o
      ";SIGNWRITING HAND-FIST MIDDLE THUMB CIRCLED INDEX HINGED=01D839" \o
      ";SIGNWRITING HAND-HINGE INDEX MIDDLE RING=01D888;SIGNWRITING ROTATION-FLOORPLANE DOUBLE=01D9E0" \o
      ";SIGNWRITING DYNAMIC SLOW=01D9F8;SIGNWRITING LIMB LENGTH-7=01DA7D" \o
      ";SQUARED CJK UNIFIED IDEOGRAPH-6620=01F219;ALCHEMICAL SYMBOL FOR AQUAFORTIS=01F705" \o
      ";NEGATIVE CIRCLED TRIANGLE=01F7D6;RIGHTWARDS SQUARED ARROW=01F83A;BLOCK SEXTANT-12346=01FB2C" \o
      ";CJK COMPATIBILITY IDEOGRAPH-2F87F=02F87F;CJK COMPATIBILITY IDEOGRAPH-2F88E=02F88E" \o
      ";CJK COMPATIBILITY IDEOGRAPH-2F89D=02F89D;CJK COMPATIBILITY IDEOGRAPH-2F8D9=02F8D9" \o
      ";CJK COMPATIBILITY IDEOGRAPH-2F8E8=02F8E8;CJK COMPATIBILITY IDEOGRAPH-2F8F7=02F8F7" \o
      ";CJK COMPATIBILITY IDEOGRAPH-2F96F=02F96F;CJK COMPATIBILITY IDEOGRAPH-2F97E=02F97E" \o
      ";CJK COMPATIBILITY IDEOGRAPH-2F98D=02F98D;CJK COMPATIBILITY IDEOGRAPH-2F99C=02F99C" \o
      ";CJK COMPATIBILITY IDEOGRAPH-2F9C9=02F9C9;CJK COMPATIBILITY IDEOGRAPH-2F9D8=02F9D8" \o
      ";CJK COMPATIBILITY IDEOGRAPH-2F9E7=02F9E7;CJK COMPATIBILITY IDEOGRAPH-2F9F6=02F9F6" \o
      ";CJK COMPATIBILITY IDEOGRAPH-2FA0D=02FA0D;CJK COMPATIBILITY IDEOGRAPH-2FA1C=02FA1C",
    ";EOL=00000A;PLD=00008B;LATIN CAPITAL LETTER I WITH GRAVE=0000CC" \o
      ";LATIN CAPITAL LETTER L WITH ACUTE=000139;LATIN CAPITAL LETTER K WITH CARON=0001E8" \o
      ";GREEK UPSILON WITH ACUTE AND HOOK SYMBOL=0003D3;GREEK CAPITAL DOTTED LUNATE SIGMA SYMBOL=0003FE" \o
      ";CYRILLIC SMALL LETTER SHA=000448;ARMENIAN DRAM SIGN=00058F;MALAYALAM LETTER A=000D05" \o
      ";LAO LETTER HO SUNG=000EAB;TIBETAN LETTER DDA=000F4C;CANADIAN SYLLABICS WEST-CREE CWAA=00149F" \o
      ";MONGOLIAN LETTER TODO ANG=00184A;LIMBU VOWEL SIGN I=001921;BALINESE LETTER LA=001B2E" \o
      ";LATIN LETTER SMALL CAPITAL OPEN O=001D10;GREEK SMALL LETTER ETA WITH VARIA=001F74" \o
      ";DOUBLE-STRUCK SMALL GAMMA=00213D;LEO=00264C;OR WITH DOT INSIDE=0027C7;HIRAGANA LETTER TA=00305F" \o
      ";HIRAGANA LETTER PE=00307A;KATAKANA LETTER KI=0030AD;KATAKANA LETTER SA=0030B5;SQUARE MHZ=003392" \o
      ";JAVANESE LETTER BA=00A9A7;JAVANESE DIGIT ONE=00A9D1;ARABIC LETTER KEHEH ISOLATED FORM=00FB8E" \o
      ";ARABIC LIGATURE TEH WITH MEEM MEDIAL FORM=00FCE3;VS7=00FE06;DESERET CAPITAL LETTER OW=01040D" \o
      ";MAHAJANI LETTER VA=01116F;SHARADA LETTER SHA=0111AF;GRANTHA LETTER BHA=01132D" \o
      ";SIDDHAM LETTER NGA=011592;DOGRA VOWEL SIGN U=01182F;CUNEIFORM SIGN BAD=012041" \o
      ";CUNEIFORM SIGN IL2=01214D;ANATOLIAN HIEROGLYPH A383 RA OR RI=0145B1;TANGSA DIGIT EIGHT=016AC8" \o
      ";PAHAWH HMONG MARK CIM KHAV=016B33;MEDEFAIDRIN NUMBER ELEVEN=016E8B;MIAO LETTER YI TSA=016F39" \o
      ";ZNAMENNY NEUME STATYA ZAKRYTAYA=01CF8B;MUSICAL SYMBOL ORNAMENT STROKE-3=01D19D" \o
      ";COMBINING GLAGOLITIC LETTER BUKY=01E001;RAM=01F40F;PIG=01F416;INBOX TRAY=01F4E5" \o
      ";SKATEBOARD=01F6F9;VERY HEAVY EIGHT SPOKED ASTERISK=01F7BF" \o
      ";HEAVY UPWARDS ARROW WITH EQUILATERAL ARROWHEAD=01F819" \o
      ";WHITE CHESS BISHOP ROTATED TWO HUNDRED SEVENTY DEGREES=01FA36" \o
      ";WHITE CHESS KNIGHT ROTATED TWO HUNDRED SEVENTY DEGREES=01FA37;MOUSE TRAP=01FAA4" \o
      ";BLOCK SEXTANT-12356=01FB34;CJK COMPATIBILITY IDEOGRAPH-2F88F=02F88F" \o
      ";CJK COMPATIBILITY IDEOGRAPH-2F89E=02F89E;CJK COMPATIBILITY IDEOGRAPH-2F8E9=02F8E9" \o
      ";CJK COMPATIBILITY IDEOGRAPH-2F8F8=02F8F8;CJK COMPATIBILITY IDEOGRAPH-2F97F=02F97F" \o
      ";CJK COMPATIBILITY IDEOGRAPH-2F98E=02F98E;CJK COMPATIBILITY IDEOGRAPH-2F99D=02F99D" \o
      ";CJK COMPATIBILITY IDEOGRAPH-2F9D9=02F9D9;CJK COMPATIBILITY IDEOGRAPH-2F9E8=02F9E8" \o
      ";CJK COMPATIBILITY IDEOGRAPH-2F9F7=02F9F7;CJK COMPATIBILITY IDEOGRAPH-2FA0E=02FA0E" \o
      ";CJK COMPATIBILITY IDEOGRAPH-2FA1D=02FA1D",
    ";END OF TRANSMISSION BLOCK=000017;EOM=000019;END OF GUARDED AREA=000097" \o
      ";LATIN CAPITAL LETTER L WITH CARON=00013D;LATIN SMALL LETTER O WITH INVERTED BREVE=00020F" \o
      ";LATIN LETTER BILABIAL PERCUSSIVE=0002AC;GREEK CAPITAL LETTER IOTA WITH DIALYTIKA=0003AA" \o
      ";CYRILLIC SMALL LETTER NJE=00045A;CYRILLIC SMALL LETTER GHE WITH DESCENDER=0004F7" \o
      ";SYRIAC RBASA ABOVE=000736;DEVANAGARI LETTER SHORT O=000912;CANADIAN SYLLABICS HYPHEN=001400" \o
      ";TAGBANWA LETTER KA=001763;BALINESE LETTER MA=001B2B;OL CHIKI LETTER UY=001C6D" \o
      ";LATIN CAPITAL LETTER M WITH ACUTE=001E3E" \o
      ";LATIN CAPITAL LETTER E WITH CIRCUMFLEX AND GRAVE=001EC0;TRIANGULAR BULLET=002023" \o
      ";INVERTED UNDERTIE=002054;LOWER SEVEN EIGHTHS BLOCK=002587;TWELVE POINTED BLACK STAR=002739" \o
      ";TIMES WITH LEFT HALF BLACK=0029D4;MULTIPLICATION SIGN IN RIGHT HALF CIRCLE=002A35" \o
      ";KANGXI RADICAL DRY=002F32;HIRAGANA LETTER GO=003054;HIRAGANA LETTER MI=00307F" \o
      ";KATAKANA LETTER TA=0030BF;KATAKANA LETTER PE=0030DA;IDEOGRAPHIC ANNOTATION FOUR MARK=003195" \o
      ";YI SYLLABLE NZURX=00A301;YI SYLLABLE RRYRX=00A392;MODIFIER LETTER DOT SLASH=00A718" \o
      ";SAURASHTRA VOWEL SIGN VOCALIC RR=00A8BB;JAVANESE LETTER CA=00A995" \o
      ";LATIN SMALL LETTER ENG WITH CROSSED-TAIL=00AB3C" \o
      ";ARABIC LIGATURE MEEM WITH MEEM FINAL FORM=00FC89;VS8=00FE07" \o
      ";HALFWIDTH KATAKANA LETTER SMALL A=00FF67;GOTHIC LETTER GIBA=010332" \o
      ";DESERET SMALL LETTER ZHEE=010448;LINEAR A SIGN A712 Y=01074F;RUMI NUMBER EIGHT HUNDRED=010E79" \o
      ";SHARADA LETTER NNA=01119F;SHARADA LETTER THA=0111A1;SHARADA DIGIT FOUR=0111D4" \o
      ";KHOJKI LETTER DDHA=011217;GRANTHA LETTER CHA=01131B;CUNEIFORM SIGN EN SQUARED=01209D" \o
      ";CUNEIFORM SIGN GU2 TIMES IGI GUNU=0124CC;MIAO LETTER YI TTA=016F0C" \o
      ";ZNAMENNY COMBINING MARK NIZKO S KRYZHEM ON LEFT=01CF01;MUSICAL SYMBOL COMBINING MARCATO=01D17F" \o
      ";MUSICAL SYMBOL ORNAMENT STROKE-4=01D19E;MATHEMATICAL ITALIC CAPITAL GAMMA=01D6E4" \o
      ";INDIC SIYAQ NUMBER EIGHTY=01EC81;ARABIC MATHEMATICAL STRETCHED BEH=01EE61" \o
      ";SQUARED CJK UNIFIED IDEOGRAPH-6307=01F22F;SQUARED CJK UNIFIED IDEOGRAPH-6253=01F231" \o
      ";SQUARED CJK UNIFIED IDEOGRAPH-5272=01F239;TWO HEARTS=01F495;MOUNT FUJI=01F5FB" \o
      ";WIDE-HEADED NORTH WEST BARB ARROW=01F86C;BLOCK SEXTANT-12456=01FB38" \o
      ";CJK COMPATIBILITY IDEOGRAPH-2F89F=02F89F;CJK COMPATIBILITY IDEOGRAPH-2F8F9=02F8F9" \o
      ";CJK COMPATIBILITY IDEOGRAPH-2F98F=02F98F;CJK COMPATIBILITY IDEOGRAPH-2F99E=02F99E" \o
      ";CJK COMPATIBILITY IDEOGRAPH-2F9E9=02F9E9;CJK COMPATIBILITY IDEOGRAPH-2F9F8=02F9F8" \o
      ";CJK COMPATIBILITY IDEOGRAPH-2FA0F=02FA0F",
    ";LATIN CAPITAL LETTER N WITH TILDE=0000D1;LATIN CAPITAL LETTER N WITH ACUTE=000143" \o
      ";KANNADA SIGN NUKTA=000CBC;TIBETAN MARK INTERSYLLABIC TSHEG=000F0B;TIBETAN DIGIT FIVE=000F25" \o
      ";TIBETAN DIGIT NINE=000F29;TIBETAN LETTER BHA=000F57;CHEROKEE LETTER KA=0013A7" \o
      ";CHEROKEE LETTER GE=0013A8;TAGBANWA LETTER LA=00176E;MONGOLIAN LETTER TODO NIA=00185B" \o
      ";TAI THAM LETTER UU=001A50;BALINESE LETTER NA=001B26" \o
      ";GREEK SMALL LETTER IOTA WITH DIALYTIKA AND VARIA=001FD2;FSI=002068" \o
      ";SMALL ROMAN NUMERAL THREE=002172;OPTION KEY=002325" \o
      ";DOWNWARDS ARROW WITH HORIZONTAL STROKE=002908" \o
      ";LEFTWARDS TWO-HEADED ARROW WITH DOUBLE VERTICAL STROKE=002B35;GEORGIAN SMALL LETTER VIN=002D05" \o
      ";GEORGIAN SMALL LETTER ZEN=002D06;HIRAGANA LETTER NI=00306B;HIRAGANA LETTER BU=003076" \o
      ";HIRAGANA LETTER HO=00307B;HIRAGANA LETTER RE=00308C;KATAKANA LETTER GO=0030B4" \o
      ";KATAKANA LETTER MI=0030DF;PARENTHESIZED IDEOGRAPH ALLIANCE=00323F;SQUARE TON=003327" \o
      ";BAMUM LETTER LEEEE=00A6AE;JAVANESE LETTER DA=00A9A2" \o
      ";HANGUL JONGSEONG PANSIOS-KAPYEOUNPIEUP=00D7F4;ARABIC LIGATURE SAD WITH HAH INITIAL FORM=00FCB1" \o
      ";ARABIC LIGATURE QAF WITH HAH INITIAL FORM=00FCC2" \o
      ";ARABIC LIGATURE ZAH WITH MEEM MEDIAL FORM=00FD3B" \o
      ";ARABIC LIGATURE QAF WITH MEEM WITH HAH FINAL FORM=00FD7E;VS9=00FE08" \o
      ";SMALL RIGHT CURLY BRACKET=00FE5C;ARABIC LETTER GHAIN ISOLATED FORM=00FECD" \o
      ";FULLWIDTH QUOTATION MARK=00FF02;LINEAR B IDEOGRAM B145 WOOL=01009D" \o
      ";MODIFIER LETTER SMALL D WITH TAIL=01078B;GRANTHA LETTER DHA=011327;TAKRI VOWEL SIGN I=0116AE" \o
      ";MARCHEN LETTER KHA=011C73;CUNEIFORM SIGN A TIMES LAGAR GUNU=012006;CUNEIFORM SIGN NI2=01224E" \o
      ";CUNEIFORM NUMERIC SIGN TWO GESHU=01241F;PAHAWH HMONG CLAN SIGN VAJ=016B8A" \o
      ";MIAO VOWEL SIGN OO=016F5A;MIAO VOWEL SIGN IU=016F68;MIAO VOWEL SIGN UI=016F87" \o
      ";MUSICAL SYMBOL QUINDICESIMA ALTA=01D138;MUSICAL SYMBOL ORNAMENT STROKE-5=01D19F" \o
      ";MUSICAL SYMBOL PORRECTUS FLEXUS=01D1DA;TETRAGRAM FOR OPPOSITION=01D30D;SIGNWRITING COMMA=01DA87" \o
      ";SIGNWRITING ROTATION MODIFIER-10=01DAA9;WANCHO DIGIT EIGHT=01E2F8" \o
      ";SQUARED CJK UNIFIED IDEOGRAPH-5408=01F234;BALLOT BOX WITH BOLD CHECK=01F5F9" \o
      ";UPWARDS TRIANGLE-HEADED ARROW WITH MEDIUM SHAFT=01F825;MODERN PENTATHLON=01F93B" \o
      ";BLOCK SEXTANT-13456=01FB3A;CJK COMPATIBILITY IDEOGRAPH-2F99F=02F99F" \o
      ";CJK COMPATIBILITY IDEOGRAPH-2F9F9=02F9F9",
    ";LATIN CAPITAL LETTER O WITH ACUTE=0000D3;LATIN CAPITAL LETTER O WITH TILDE=0000D5" \o
      ";LATIN CAPITAL LETTER N WITH CARON=000147" \o
      ";LATIN CAPITAL LETTER U WITH DIAERESIS AND MACRON=0001D5" \o
      ";LATIN SMALL LETTER AE WITH MACRON=0001E3;MODIFIER LETTER LOW TILDE=0002F7" \o
      ";CYRILLIC CAPITAL LETTER KA WITH VERTICAL STROKE=00049C" \o
      ";CYRILLIC CAPITAL LETTER E WITH DIAERESIS=0004EC;CYRILLIC SMALL LETTER YAE=000519" \o
      ";HEBREW POINT QAMATS QATAN=0005C7;ARABIC LETTER RREH=000691" \o
      ";ARABIC LETTER YEH BARREE WITH HAMZA ABOVE=0006D3;SYRIAC HBASA BELOW=00073B" \o
      ";ARABIC CURLY KASRA=0008E6;BENGALI DIGIT ZERO=0009E6;GUJARATI SIGN CANDRABINDU=000A81" \o
      ";KANNADA LETTER RRA=000CB1;MALAYALAM FRACTION ONE TWENTIETH=000D5B" \o
      ";MALAYALAM FRACTION ONE SIXTEENTH=000D76;TIBETAN LETTER CHA=000F46;CHEROKEE LETTER HE=0013AE" \o
      ";CHEROKEE LETTER LA=0013B3;CHEROKEE LETTER DI=0013D7;CANADIAN SYLLABICS WEST-CREE FWAA=00155C" \o
      ";TAGBANWA LETTER MA=00176B;LATIN SMALL LETTER O WITH TILDE AND ACUTE=001E4D" \o
      ";LATIN CAPITAL LETTER U WITH MACRON AND DIAERESIS=001E7A;LRE=00202A;RLE=00202B" \o
      ";CIRCLED DIGIT FOUR=002463;WHITE SMILING FACE=00263A;COPTIC CAPITAL LETTER OOU=002CB0" \o
      ";WORD SEPARATOR MIDDLE DOT=002E31;KANGXI RADICAL NOT=002F46;HIRAGANA LETTER SE=00305B" \o
      ";HIRAGANA LETTER WA=00308F;KATAKANA LETTER NI=0030CB;KATAKANA LETTER BU=0030D6" \o
      ";KATAKANA LETTER HO=0030DB;KATAKANA LETTER RE=0030EC;KATAKANA LETTER VA=0030F7;SQUARE UON=003306" \o
      ";YI SYLLABLE SSYRX=00A344;BAMUM LETTER MEEEE=00A6AF;LATIN CAPITAL LETTER OLD POLISH O=00A7C0" \o
      ";ARABIC LIGATURE ALEF WITH FATHATAN ISOLATED FORM=00FD3D;ELBASAN LETTER LLE=010511" \o
      ";ELBASAN LETTER NJE=010515;KHUDAWADI LETTER A=0112B0;SIDDHAM LETTER PHA=0115A3" \o
      ";CUNEIFORM SIGN A TIMES BAD=012002;CUNEIFORM SIGN GA2 TIMES A PLUS HA=0120B9" \o
      ";CUNEIFORM SIGN NUNUZ AB2 TIMES NE=012275;CUNEIFORM SIGN U U=012399" \o
      ";CUNEIFORM SIGN GA2 TIMES HA PLUS A=0124BE;BAMUM LETTER PHASE-C NDIDA=0168AB" \o
      ";ZNAMENNY COMBINING MARK OTSECHKA=01CF35;BYZANTINE MUSICAL SYMBOL DIASTOLI DIPLI=01D0DC" \o
      ";MUSICAL SYMBOL ORNAMENT STROKE-6=01D1A0;SIGNWRITING HAND-FIST RING THUMB=01D8B8" \o
      ";SIGNWRITING HAND-CURLICUE MIDDLE RING LITTLE ON=01D8CF;SIGNWRITING ROTATION MODIFIER-11=01DAAA" \o
      ";ARABIC MATHEMATICAL STRETCHED HAH=01EE67;SQUARED CJK UNIFIED IDEOGRAPH-7533=01F238;ANT=01F41C" \o
      ";RABBIT FACE=01F430;EYE=01F441;BLOCK SEXTANT-23456=01FB3B;TAG LATIN CAPITAL LETTER A=0E0041",
    ";ENQ=000005;RIGHT PARENTHESIS=000029;SPA=000096;LATIN CAPITAL LETTER O WITH CARON=0001D1" \o
      ";LATIN SMALL LETTER R WITH INVERTED BREVE=000213;COMBINING PLUS SIGN BELOW=00031F" \o
      ";ARABIC LETTER ZAIN=000632;ARABIC LETTER REH WITH INVERTED V=0006EF;BENGALI RUPEE SIGN=0009F3" \o
      ";TAMIL VOWEL SIGN O=000BCA;MALAYALAM LETTER E=000D0E;TIBETAN LETTER DHA=000F52" \o
      ";MYANMAR SIGN RUMAI PALAUNG TONE-5=00108F;CHEROKEE LETTER MA=0013B9;TAGBANWA LETTER NA=001768" \o
      ";LIMBU SUBJOINED LETTER WA=00192B;BALINESE LETTER PA=001B27" \o
      ";LATIN CAPITAL LETTER P WITH ACUTE=001E54;VULGAR FRACTION ONE THIRD=002153" \o
      ";CJK RADICAL EAT ONE=002EDD;KANGXI RADICAL EMBROIDERY=002FCB;HIRAGANA LETTER DU=003065" \o
      ";HIRAGANA LETTER TE=003066;HIRAGANA LETTER PI=003074;KATAKANA LETTER SE=0030BB" \o
      ";KATAKANA LETTER WA=0030EF;HANGUL LETTER NIEUN-CIEUC=003135;CYRILLIC SMALL LETTER DWE=00A681" \o
      ";REJANG LETTER NGGA=00A943;CHEROKEE SMALL LETTER QUO=00AB99;CHEROKEE SMALL LETTER TLU=00ABB1" \o
      ";ARABIC LIGATURE LAM WITH HAH INITIAL FORM=00FCCA" \o
      ";ARABIC LIGATURE LAM WITH HAH WITH MEEM FINAL FORM=00FD80" \o
      ";ARABIC LIGATURE LAM WITH MEEM WITH HAH FINAL FORM=00FD87" \o
      ";ARABIC LETTER WAW WITH HAMZA ABOVE ISOLATED FORM=00FE85;LINEAR B MONOGRAM B127 KAPO=010093" \o
      ";PHAISTOS DISC SIGN GRATER=0101F9;VITHKUQI CAPITAL LETTER A=010570" \o
      ";MEROITIC HIEROGLYPHIC LETTER HHA=010992;BRAHMI PUNCTUATION LOTUS=01104D" \o
      ";NANDINAGARI VOWEL SIGN UU=0119D5;MARCHEN LETTER NGA=011C75" \o
      ";CUNEIFORM SIGN IDIM OVER IDIM BUR=012143;CUNEIFORM SIGN IM SQUARED=012152" \o
      ";BAMUM LETTER PHASE-D LEEEE=01694F;ZNAMENNY COMBINING MARK SOROCHYA NOZHKA=01CF3B" \o
      ";MUSICAL SYMBOL X NOTEHEAD=01D143;MUSICAL SYMBOL ORNAMENT STROKE-7=01D1A1" \o
      ";MATHEMATICAL BOLD FRAKTUR SMALL A=01D586;MATHEMATICAL SANS-SERIF CAPITAL A=01D5A0" \o
      ";MATHEMATICAL ITALIC CAPITAL ALPHA=01D6E2;SIGNWRITING HEAD MOVEMENT CIRCLE=01DA06" \o
      ";SIGNWRITING ROTATION MODIFIER-12=01DAAB;ARABIC MATHEMATICAL STRETCHED KAF=01EE6A" \o
      ";SQUARED CJK UNIFIED IDEOGRAPH-6355=01F228;DECREASE FONT SIZE SYMBOL=01F5DB" \o
      ";UPPER SEVEN EIGHTHS BLOCK=01FB86;CJK COMPATIBILITY IDEOGRAPH-2F8AA=02F8AA" \o
      ";TAG LATIN CAPITAL LETTER B=0E0042",
    ";OSC=00009D;LATIN CAPITAL LETTER O WITH BREVE=00014E;LATIN CAPITAL LETTER N WITH GRAVE=0001F8" \o
      ";HEBREW LETTER ALEF=0005D0;SYRIAC ESASA ABOVE=00073D;KANNADA LETTER SSA=000CB7" \o
      ";LAO LETTER LO LOOT=000EA5;HANGUL CHOSEONG CEONGCHIEUMCIEUC=001150;CHEROKEE LETTER NA=0013BE" \o
      ";RUNIC LETTER ICELANDIC-YR=0016E8;TAGALOG LETTER NGA=001705;BUGINESE LETTER BA=001A05" \o
      ";GREEK CAPITAL LETTER ETA WITH DASIA AND PERISPOMENI AND PROSGEGRAMMENI=001F9F" \o
      ";APPROXIMATELY BUT NOT ACTUALLY EQUAL TO=002246;LEFT THREE QUARTERS BLOCK=00258A" \o
      ";WHITE SQUARE WITH LEFTWARDS TICK=0027E4;GLAGOLITIC CAPITAL LETTER TVRIDO=002C15" \o
      ";COPTIC SMALL LETTER SAMPI=002CC1;HIRAGANA LETTER KO=003053;HIRAGANA LETTER YA=003084" \o
      ";KATAKANA LETTER DU=0030C5;KATAKANA LETTER TE=0030C6;KATAKANA LETTER PI=0030D4" \o
      ";CIRCLED NUMBER THIRTY ONE=00325B;YI SYLLABLE NZYRX=00A307;SLAVONIC ASTERISK=00A673" \o
      ";JAVANESE LETTER GA=00A992;CHEROKEE SMALL LETTER TLV=00ABB2;CHEROKEE SMALL LETTER TSO=00ABB6" \o
      ";ARABIC LETTER PEHEH ISOLATED FORM=00FB6E;ARABIC LETTER U FINAL FORM=00FBD8" \o
      ";ARABIC LIGATURE KAF WITH LAM INITIAL FORM=00FCC7" \o
      ";ARABIC LIGATURE YEH WITH MEEM MEDIAL FORM=00FCF0;HALFWIDTH KATAKANA LETTER SMALL E=00FF6A" \o
      ";LINEAR B MONOGRAM B135 MERI=010099;PSALTER PAHLAVI LETTER PE=010B8E;BRAHMI DIGIT SEVEN=01106D" \o
      ";SHARADA DIGIT ZERO=0111D0;GRANTHA LETTER GHA=011318;PAU CIN HAU SANDHI TONE LONG FINAL=011AED" \o
      ";CUNEIFORM SIGN DAG=012056;CUNEIFORM SIGN EZEN TIMES DUN3 GUNU GUNU=0120A8" \o
      ";CUNEIFORM SIGN GAD=0120F0;CUNEIFORM SIGN SU OVER SU=0122E3" \o
      ";CUNEIFORM SIGN ESH2 CROSSING ESH2=0124AC;ANATOLIAN HIEROGLYPH A010A=01440A" \o
      ";ANATOLIAN HIEROGLYPH A100A=014470;BAMUM LETTER PHASE-A NDAANGGEUAET=016834" \o
      ";BAMUM LETTER PHASE-D MEEEE=016950;PAHAWH HMONG CLAN SIGN YAJ=016B8C" \o
      ";ZNAMENNY NEUME SLOZHITIE=01CF7D;MUSICAL SYMBOL QUARTER TONE FLAT=01D133" \o
      ";MUSICAL SYMBOL ORNAMENT STROKE-8=01D1A2;MATHEMATICAL BOLD FRAKTUR SMALL B=01D587" \o
      ";MATHEMATICAL SANS-SERIF CAPITAL B=01D5A1;SIGNWRITING NOSE NEUTRAL=01DA31" \o
      ";SIGNWRITING ROTATION MODIFIER-13=01DAAC;ARABIC MATHEMATICAL STRETCHED FEH=01EE70" \o
      ";PLAYING CARD KING OF CLUBS=01F0DE;EMPTY NOTE=01F5C5;LARGE BROWN CIRCLE=01F7E4" \o
      ";FIRE EXTINGUISHER=01F9EF;INVERSE CHECK MARK=01FBB1;CJK COMPATIBILITY IDEOGRAPH-2F8AB=02F8AB" \o
      ";CJK COMPATIBILITY IDEOGRAPH-2F8BA=02F8BA;CJK COMPATIBILITY IDEOGRAPH-2F9AA=02F9AA" \o
      ";TAG LATIN CAPITAL LETTER C=0E0043",
    ";HTJ=000089;LATIN CAPITAL LETTER O WITH GRAVE=0000D2;LATIN CAPITAL LETTER R WITH ACUTE=000154" \o
      ";COMBINING GRAPHEME JOINER=00034F;ARMENIAN SMALL LETTER VEW=00057E;ARABIC LETTER NYEH=000683" \o
      ";MANDAIC LETTER ATT=000848;BENGALI SIGN NUKTA=0009BC;KANNADA LETTER NYA=000C9E" \o
      ";THAI CURRENCY SYMBOL BAHT=000E3F;CHEROKEE LETTER GI=0013A9;TAGBANWA LETTER PA=001769" \o
      ";LIMBU VOWEL SIGN O=001928;LIMBU SUBJOINED LETTER YA=001929;NEW TAI LUE LETTER LOW NGA=001987" \o
      ";BUGINESE LETTER CA=001A0C;BALINESE LETTER RA=001B2D;LEPCHA PUNCTUATION CER-WA=001C3D" \o
      ";PUNCTUATION SPACE=002008;CIRCLED NUMBER TEN=002469" \o
      ";HEAVY BLACK CURVED UPWARDS AND RIGHTWARDS ARROW=0027A6;HIRAGANA LETTER ZA=003056" \o
      ";HIRAGANA LETTER RI=00308A;KATAKANA LETTER KO=0030B3;KATAKANA LETTER YA=0030E4" \o
      ";CYRILLIC SMALL LETTER YERU WITH BACK YER=00A651;BAMUM LETTER SAMBA=00A6EC" \o
      ";SYLOTI NAGRI SIGN HASANTA=00A806;JAVANESE LETTER HA=00A9B2" \o
      ";ARABIC LIGATURE THEH WITH MEEM FINAL FORM=00FC78" \o
      ";ARABIC LIGATURE GHAIN WITH YEH FINAL FORM=00FD16" \o
      ";ARABIC LIGATURE BEH WITH KHAH WITH YEH FINAL FORM=00FD9E;AEGEAN NUMBER FOUR=01010A" \o
      ";GREEK ACROPHONIC EPIDAUREAN FIVE HUNDRED=01016C;DESERET CAPITAL LETTER WU=01040E" \o
      ";ELBASAN LETTER SHE=01051C;LINEAR A SIGN AB131A=01064D" \o
      ";MODIFIER LETTER SMALL TURNED Y WITH BELT=0107A1;KHAROSHTHI SIGN DOT BELOW=010A3A" \o
      ";BRAHMI NUMBER FIVE=011056;BRAHMI NUMBER NINE=01105A;SINHALA ARCHAIC DIGIT FIVE=0111E5" \o
      ";SINHALA ARCHAIC DIGIT NINE=0111E9;SIDDHAM LETTER SHA=0115AB;MAKASAR LETTER NGA=011EE2" \o
      ";CUNEIFORM NUMERIC SIGN FOUR BURU=012438;ANATOLIAN HIEROGLYPH A101A=014472" \o
      ";ANATOLIAN HIEROGLYPH A110A=014485;MIAO VOWEL SIGN YI=016F72" \o
      ";MUSICAL SYMBOL TRIANGLE NOTEHEAD UP RIGHT WHITE=01D150;MUSICAL SYMBOL ORNAMENT STROKE-9=01D1A3" \o
      ";MATHEMATICAL BOLD FRAKTUR SMALL C=01D588;MATHEMATICAL SANS-SERIF CAPITAL C=01D5A2" \o
      ";SIGNWRITING ROTATION-FLOORPLANE SINGLE=01D9DF;SIGNWRITING ROTATION MODIFIER-14=01DAAD" \o
      ";PLAYING CARD FIVE OF CLUBS=01F0D5;PLAYING CARD NINE OF CLUBS=01F0D9" \o
      ";SQUARED CJK UNIFIED IDEOGRAPH-5439=01F225;SQUARED CJK UNIFIED IDEOGRAPH-6708=01F237" \o
      ";HEART WITH TIP ON THE LEFT=01F394;IMP=01F47F;UPWARDS COMPRESSED ARROW=01F83D" \o
      ";CJK COMPATIBILITY IDEOGRAPH-2F8AC=02F8AC;CJK COMPATIBILITY IDEOGRAPH-2F8BB=02F8BB" \o
      ";CJK COMPATIBILITY IDEOGRAPH-2F8CA=02F8CA;CJK COMPATIBILITY IDEOGRAPH-2F9AB=02F9AB" \o
      ";CJK COMPATIBILITY IDEOGRAPH-2F9BA=02F9BA;TAG LATIN CAPITAL LETTER D=0E0044",
    ";HOP=000081;SSA=000086;LATIN CAPITAL LETTER R WITH CARON=000158" \o
      ";LATIN CAPITAL LETTER S WITH ACUTE=00015A;LATIN SMALL LETTER U WITH INVERTED BREVE=000217" \o
      ";CYRILLIC SMALL LETTER DZE=000455;CYRILLIC CAPITAL LETTER I WITH DIAERESIS=0004E4" \o
      ";ARABIC LETTER TTEH=000679;SYRIAC COLON SKEWED RIGHT=000707;THAANA LETTER TTAA=000798" \o
      ";ARABIC MADDA WAAJIB=00089C;BENGALI LETTER RRA=0009DC;ORIYA VOWEL SIGN E=000B47" \o
      ";TELUGU SIGN TUUMU=000C7F;KANNADA LETTER TTA=000C9F;TIBETAN MARK YIG MGO TSHEG SHAD MA=000F07" \o
      ";TIBETAN LETTER GHA=000F43;CHEROKEE LETTER HI=0013AF;CHEROKEE LETTER LE=0013B4" \o
      ";NEW TAI LUE VOWEL SIGN AAY=0019BB;BUGINESE LETTER DA=001A09;BALINESE LETTER SA=001B32" \o
      ";LATIN SMALL LETTER A WITH RIGHT HALF RING=001E9A" \o
      ";GREEK SMALL LETTER ALPHA WITH PSILI AND VARIA AND YPOGEGRAMMENI=001F82;LRI=002066;RLI=002067" \o
      ";PRESCRIPTION TAKE=00211E;CIRCLED DIGIT ZERO=0024EA;BLACK SMALL SQUARE=0025AA" \o
      ";LIGHT VERTICAL BAR=002758;UPWARDS TRIANGLE-HEADED ARROW WITH LONG TIP RIGHTWARDS=002BA3" \o
      ";RIGHTWARDS TRIANGLE-HEADED ARROW WITH LONG TIP UPWARDS=002BA5;COPTIC CAPITAL LETTER SOU=002C8A" \o
      ";MEDIEVAL EXCLAMATION MARK=002E53;KANGXI RADICAL DIVINATION=002F18;KANGXI RADICAL RUN=002F9B" \o
      ";HIRAGANA LETTER GU=003050;HIRAGANA LETTER SI=003057;HIRAGANA LETTER MO=003082" \o
      ";HIRAGANA LETTER WE=003091;KATAKANA LETTER ZA=0030B6;KATAKANA LETTER RI=0030EA" \o
      ";KATAKANA LETTER VE=0030F9;SQUARE THZ=003394;VAI SYLLABLE NGGEN=00A605;JAVANESE LETTER AI=00A98D" \o
      ";ARABIC LETTER TCHEH ISOLATED FORM=00FB7A;ARABIC LIGATURE TAH WITH HAH INITIAL FORM=00FCB8" \o
      ";ARABIC LIGATURE TAH WITH MEEM WITH HAH FINAL FORM=00FD71;SHAVIAN LETTER BIB=01045A" \o
      ";SHAVIAN LETTER AGE=010471;ELBASAN LETTER THE=01051E;VITHKUQI SMALL LETTER BBE=010598" \o
      ";LINEAR A SIGN AB131B=01064E;MODIFIER LETTER SMALL B WITH HOOK=010785" \o
      ";MODIFIER LETTER SMALL L WITH BELT=01079B;MEROITIC HIEROGLYPHIC LETTER KHA=010991" \o
      ";RUMI NUMBER SIXTY=010E6E;KHUDAWADI LETTER E=0112B6;SIDDHAM LETTER NNA=01159C" \o
      ";SIDDHAM LETTER THA=01159E;MARCHEN LETTER PHA=011C7F;CUNEIFORM SIGN AB TIMES HA=01200F" \o
      ";CUNEIFORM SIGN GU2=012118;CUNEIFORM SIGN KAB=01218F;CUNEIFORM NUMERIC SIGN THREE BAN2=012451" \o
      ";EGYPTIAN HIEROGLYPH INSERT AT TOP START=013432;ANATOLIAN HIEROGLYPH A102A=014474" \o
      ";ANATOLIAN HIEROGLYPH A110B=014486;BAMUM LETTER PHASE-F MEEEE=016A0D;TANGSA DIGIT THREE=016AC3" \o
      ";MATHEMATICAL BOLD FRAKTUR SMALL D=01D589;MATHEMATICAL SANS-SERIF CAPITAL D=01D5A3" \o
      ";MATHEMATICAL ITALIC CAPITAL OMEGA=01D6FA" \o
      ";MATHEMATICAL SANS-SERIF BOLD ITALIC CAPITAL IOTA=01D798;SIGNWRITING ROTATION MODIFIER-15=01DAAE" \o
      ";WANCHO LETTER AANG=01E2E3;ARABIC MATHEMATICAL STRETCHED HEH=01EE64" \o
      ";SQUARED CJK UNIFIED IDEOGRAPH-6295=01F227;SQUARED CJK UNIFIED IDEOGRAPH-6709=01F236;RAT=01F400" \o
      ";RIGHTWARDS ROCKET=01F66E;CJK COMPATIBILITY IDEOGRAPH-2F8AD=02F8AD" \o
      ";CJK COMPATIBILITY IDEOGRAPH-2F8BC=02F8BC;CJK COMPATIBILITY IDEOGRAPH-2F8CB=02F8CB" \o
      ";CJK COMPATIBILITY IDEOGRAPH-2F8DA=02F8DA;CJK COMPATIBILITY IDEOGRAPH-2F9AC=02F9AC" \o
      ";CJK COMPATIBILITY IDEOGRAPH-2F9BB=02F9BB;CJK COMPATIBILITY IDEOGRAPH-2F9CA=02F9CA" \o
      ";TAG LATIN CAPITAL LETTER E=0E0045",
    ";EOT=000004;LATIN CAPITAL LETTER S WITH CARON=000160;COMBINING DIAERESIS BELOW=000324" \o
      ";ARMENIAN SMALL LETTER NOW=000576;ARABIC SMALL HIGH LIGATURE ALEF WITH LAM WITH YEH=000616" \o
      ";ARABIC LETTER NOON WITH DOT BELOW=0006B9;TAMIL NUMBER ONE THOUSAND=000BF2" \o
      ";MALAYALAM LETTER I=000D07;ETHIOPIC DIGIT ONE=001369;CHEROKEE LETTER ME=0013BA" \o
      ";CANADIAN SYLLABICS WEST-CREE KWAA=001481;OGHAM LETTER BEITH=001681;OGHAM LETTER FEARN=001683" \o
      ";TAI THAM LETTER HIGH RATHA=001A2E;BALINESE LETTER TA=001B22;BALINESE DIGIT SIX=001B56" \o
      ";LATIN SMALL CAPITAL LETTER U WITH STROKE=001D7E" \o
      ";LATIN CAPITAL LETTER O WITH CIRCUMFLEX AND ACUTE=001ED0" \o
      ";LATIN CAPITAL LETTER O WITH CIRCUMFLEX AND TILDE=001ED6" \o
      ";GREEK CAPITAL LETTER UPSILON WITH DASIA AND OXIA=001F5D;TRIANGLE-HEADED RIGHTWARDS ARROW=00279D" \o
      ";GREATER-THAN OR SLANTED EQUAL TO WITH DOT INSIDE=002A80" \o
      ";SLANTED EQUAL TO OR GREATER-THAN WITH DOT INSIDE=002A98;RIGHTWARDS TRIANGLE-HEADED ARROW=002B62" \o
      ";CJK RADICAL TURTLE=002EF1;KANGXI RADICAL SUN=002F47;HIRAGANA LETTER TI=003061" \o
      ";HIRAGANA LETTER NO=00306E;HIRAGANA LETTER HU=003075;KATAKANA LETTER GU=0030B0" \o
      ";KATAKANA LETTER SI=0030B7;KATAKANA LETTER MO=0030E2;KATAKANA LETTER WE=0030F1" \o
      ";HANGUL LETTER PIEUP-CIEUC=003176;CYRILLIC SMALL LETTER HWE=00A695" \o
      ";SYLOTI NAGRI VOWEL SIGN U=00A825;JAVANESE LETTER JA=00A997;ARABIC SYMBOL RING=00FBBF" \o
      ";ARABIC LIGATURE YEH WITH HAMZA ABOVE WITH WAW FINAL FORM=00FBEF" \o
      ";ARABIC LIGATURE LAM WITH HEH INITIAL FORM=00FCCD" \o
      ";ARABIC LIGATURE TEH WITH HAH WITH JEEM FINAL FORM=00FD51" \o
      ";COMBINING MACRON RIGHT HALF BELOW=00FE2C;VITHKUQI CAPITAL LETTER E=010578" \o
      ";RUMI NUMBER THREE HUNDRED=010E74;SHARADA SIGN NUKTA=0111CA;GRANTHA LETTER JHA=01131D" \o
      ";TAKRI VOWEL SIGN O=0116B4;CUNEIFORM SIGN BAL=012044;CUNEIFORM SIGN DIB=012073" \o
      ";CUNEIFORM SIGN E2 TIMES MI=012090;CUNEIFORM SIGN MUSH3 GUNU=01223D;CUNEIFORM SIGN TI2=012397" \o
      ";ANATOLIAN HIEROGLYPH A202A=0144E6;BAMUM LETTER PHASE-B NGKINDI MVOP=016874" \o
      ";MIAO VOWEL SIGN OU=016F7C;BYZANTINE MUSICAL SYMBOL ICHADIN=01D03F" \o
      ";MATHEMATICAL BOLD FRAKTUR SMALL E=01D58A;MATHEMATICAL SANS-SERIF CAPITAL E=01D5A4" \o
      ";MATHEMATICAL ITALIC CAPITAL DELTA=01D6E5;SIGNWRITING ROTATION MODIFIER-16=01DAAF" \o
      ";ADLAM CAPITAL LETTER DAALI=01E901;PAW PRINTS=01F43E;CUT OF MEAT=01F969" \o
      ";CJK COMPATIBILITY IDEOGRAPH-2F8AE=02F8AE;CJK COMPATIBILITY IDEOGRAPH-2F8BD=02F8BD" \o
      ";CJK COMPATIBILITY IDEOGRAPH-2F8CC=02F8CC;CJK COMPATIBILITY IDEOGRAPH-2F8DB=02F8DB" \o
      ";CJK COMPATIBILITY IDEOGRAPH-2F8EA=02F8EA;CJK COMPATIBILITY IDEOGRAPH-2F9AD=02F9AD" \o
      ";CJK COMPATIBILITY IDEOGRAPH-2F9BC=02F9BC;CJK COMPATIBILITY IDEOGRAPH-2F9CB=02F9CB" \o
      ";CJK COMPATIBILITY IDEOGRAPH-2F9DA=02F9DA;TAG LATIN CAPITAL LETTER F=0E0046",
    ";LATIN CAPITAL LETTER U WITH ACUTE=0000DA;LATIN CAPITAL LETTER T WITH CARON=000164" \o
      ";LATIN CAPITAL LETTER U WITH TILDE=000168;MODIFIER LETTER SMALL TURNED R WITH HOOK=0002B5" \o
      ";MODIFIER LETTER SMALL CAPITAL INVERTED R=0002B6;CYRILLIC CAPITAL LETTER IOTIFIED BIG YUS=00046C" \o
      ";COMBINING CYRILLIC MILLIONS SIGN=000489;CYRILLIC SMALL LETTER CHE WITH DIAERESIS=0004F5" \o
      ";BENGALI LETTER SSA=0009B7;GUJARATI LETTER AA=000A86;GEORGIAN LETTER HE=0010F1" \o
      ";CHEROKEE LETTER NE=0013C1;CHEROKEE LETTER DO=0013D9;CANADIAN SYLLABICS WEST-CREE LWAA=0014E9" \o
      ";RUNIC LETTER CEALC=0016E4;TAGBANWA LETTER SA=001770;MONGOLIAN LETTER TODO DZA=00185C" \o
      ";NEW TAI LUE LETTER LOW PHA=001998;MODIFIER LETTER SMALL GREEK GAMMA=001D5E" \o
      ";LATIN SMALL LETTER U WITH TILDE AND ACUTE=001E79;BOX DRAWINGS LIGHT DOWN AND RIGHT=00250C" \o
      ";CURLY LOOP=0027B0;PLUS SIGN WITH SMALL CIRCLE ABOVE=002A22" \o
      ";GLAGOLITIC CAPITAL LETTER CAUDATE CHRIVI=002C2F;KATAKANA LETTER TI=0030C1" \o
      ";KATAKANA LETTER NO=0030CE;KATAKANA LETTER HU=0030D5;CIRCLED IDEOGRAPH SOCIETY=003293" \o
      ";IDEOGRAPHIC TELEGRAPH SYMBOL FOR DAY THIRTY-ONE=0033FE;JAVANESE LETTER KA=00A98F" \o
      ";JAVANESE VOWEL SIGN PEPET=00A9BC;ARABIC LETTER TEHEH ISOLATED FORM=00FB62" \o
      ";HALFWIDTH KATAKANA LETTER SMALL I=00FF68;PHAISTOS DISC SIGN DOLIUM=0101E3" \o
      ";SHAVIAN LETTER GAG=01045C;LINEAR A SIGN AB021F=010610;MODIFIER LETTER SMALL D WITH HOOK=01078C" \o
      ";KHAROSHTHI NUMBER TWENTY=010A45;CHAKMA LETTER YYAA=011120;GRANTHA LETTER KHA=011316" \o
      ";WARANG CITI NUMBER NINETY=0118F2;CUNEIFORM NUMERIC SIGN TWO SHARU=01242D" \o
      ";CUNEIFORM NUMERIC SIGN FOUR VARIANT FORM LIMMU4=01243D" \o
      ";CUNEIFORM NUMERIC SIGN EIGHT VARIANT FORM USSU3=012445;CUNEIFORM SIGN LU2 GUNU TIMES ASH=012519" \o
      ";ANATOLIAN HIEROGLYPH A041A=01442C;ANATOLIAN HIEROGLYPH A104A=014477" \o
      ";ANATOLIAN HIEROGLYPH A202B=0144E7;PAHAWH HMONG CLAN SIGN LIS=016B7F" \o
      ";MUSICAL SYMBOL COMBINING SNAP PIZZICATO=01D1AD;MATHEMATICAL BOLD FRAKTUR SMALL F=01D58B" \o
      ";MATHEMATICAL SANS-SERIF CAPITAL F=01D5A5;MATHEMATICAL BOLD ITALIC CAPITAL UPSILON=01D730" \o
      ";SIGNWRITING MOVEMENT-WALLPLANE DOUBLE ALTERNATING WRIST FLEX=01D932;WANCHO DIGIT THREE=01E2F3" \o
      ";ARABIC MATHEMATICAL INITIAL SHEEN=01EE34;CLINKING BEER MUGS=01F37B;COW=01F404;KEY=01F511" \o
      ";WHITE SQUARE CONTAINING BLACK VERY SMALL SQUARE=01F794;WIDE-HEADED SOUTH WEST BARB ARROW=01F86F" \o
      ";XIANGQI RED CANNON=01FA65;EMPTY NEST=01FAB9;CJK COMPATIBILITY IDEOGRAPH-2F8AF=02F8AF" \o
      ";CJK COMPATIBILITY IDEOGRAPH-2F8BE=02F8BE;CJK COMPATIBILITY IDEOGRAPH-2F8CD=02F8CD" \o
      ";CJK COMPATIBILITY IDEOGRAPH-2F8DC=02F8DC;CJK COMPATIBILITY IDEOGRAPH-2F8EB=02F8EB" \o
      ";CJK COMPATIBILITY IDEOGRAPH-2F8FA=02F8FA;CJK COMPATIBILITY IDEOGRAPH-2F9AE=02F9AE" \o
      ";CJK COMPATIBILITY IDEOGRAPH-2F9BD=02F9BD;CJK COMPATIBILITY IDEOGRAPH-2F9CC=02F9CC" \o
      ";CJK COMPATIBILITY IDEOGRAPH-2F9DB=02F9DB;CJK COMPATIBILITY IDEOGRAPH-2F9EA=02F9EA" \o
      ";TAG LATIN CAPITAL LETTER G=0E0047",
    ";SOH=000001;SUB=00001A;LATIN CAPITAL LETTER U WITH CARON=0001D3;THAANA LETTER AINU=0007A2" \o
      ";BENGALI LETTER NYA=00099E;GUJARATI LETTER BA=000AAC;GUJARATI DIGIT ONE=000AE7" \o
      ";TAMIL VOWEL SIGN U=000BC1;MYANMAR LETTER VOCALIC RR=001053;CHEROKEE LETTER SA=0013CC" \o
      ";CANADIAN SYLLABICS WEST-CREE MWAA=0014B9;CANADIAN SYLLABICS WOODS-CREE THA=00159E" \o
      ";TAGBANWA LETTER TA=001766;KHMER VOWEL SIGN U=0017BB;BUGINESE LETTER GA=001A01" \o
      ";VEDIC TONE PRENKHA=001CD2;LATIN SMALL LETTER A WITH RETROFLEX HOOK=001D8F" \o
      ";COMBINING UR ABOVE=001DD1;LATIN CAPITAL LETTER V WITH TILDE=001E7C" \o
      ";GREEK CAPITAL LETTER ETA WITH PSILI AND OXIA AND PROSGEGRAMMENI=001F9C" \o
      ";GREEK SMALL LETTER OMEGA WITH PSILI AND VARIA AND YPOGEGRAMMENI=001FA2" \o
      ";VULGAR FRACTION ONE NINTH=002151;MONOSTABLE SYMBOL=00238D" \o
      ";WHITE UP-POINTING SMALL TRIANGLE=0025B5;RIGHT WHITE CURLY BRACKET=002984" \o
      ";HIRAGANA LETTER ZE=00305C;HIRAGANA LETTER PO=00307D" \o
      ";IDEOGRAPHIC TELEGRAPH SYMBOL FOR DAY SIX=0033E5;VAI SYLLABLE DHHOO=00A582" \o
      ";JAVANESE LETTER LA=00A9AD;CHEROKEE SMALL LETTER QUU=00AB9A" \o
      ";ARABIC LETTER HEH GOAL MEDIAL FORM=00FBA9;ARABIC LIGATURE NOON WITH HEH MEDIAL FORM=00FCEF" \o
      ";GOTHIC LETTER HAGL=010337;SHAVIAN LETTER FEE=010453;LINEAR A SIGN AB022F=010613" \o
      ";TIRHUTA LETTER VOCALIC LL=01148A;MARCHEN LETTER SHA=011C8C;CUNEIFORM SIGN GA2 TIMES U=0120EA" \o
      ";CUNEIFORM SIGN GUD OVER GUD LUGAL=012121;CUNEIFORM SIGN KAK TIMES IGI GUNU=012196" \o
      ";CUNEIFORM SIGN ZE2=012362;CUNEIFORM NUMERIC SIGN ELAMITE ONE THIRD=012465" \o
      ";ANATOLIAN HIEROGLYPH A104B=014478;ANATOLIAN HIEROGLYPH A105A=01447B" \o
      ";BAMUM LETTER PHASE-A SHINDA PA NJI=016808;BAMUM LETTER PHASE-D MFIEE=016932" \o
      ";BAMUM LETTER PHASE-F SAMBA=016A37;PAHAWH HMONG CLAN SIGN KOO=016B82;MIAO VOWEL SIGN WO=016F5B" \o
      ";DUPLOYAN LETTER VOCALIC M=01BC6A;MATHEMATICAL BOLD FRAKTUR SMALL G=01D58C" \o
      ";MATHEMATICAL SANS-SERIF CAPITAL G=01D5A6;MATHEMATICAL ITALIC CAPITAL THETA SYMBOL=01D6F3" \o
      ";SIGNWRITING RUB MULTIPLE=01D912;COMBINING GLAGOLITIC LETTER YERU=01E01F" \o
      ";ARABIC MATHEMATICAL STRETCHED AIN=01EE6F;ARABIC MATHEMATICAL STRETCHED SAD=01EE71" \o
      ";ARABIC MATHEMATICAL STRETCHED QAF=01EE72;PLAYING CARD TEN OF SPADES=01F0AA" \o
      ";SQUARED CJK UNIFIED IDEOGRAPH-5929=01F217;SQUARED CJK UNIFIED IDEOGRAPH-4E00=01F229" \o
      ";SQUARED CJK UNIFIED IDEOGRAPH-7981=01F232;FALLEN LEAF=01F342;DRAGON FACE=01F432;BOY=01F466" \o
      ";BUS=01F68C;ARTICULATED LORRY=01F69B;CJK COMPATIBILITY IDEOGRAPH-2F8BF=02F8BF" \o
      ";CJK COMPATIBILITY IDEOGRAPH-2F8CE=02F8CE;CJK COMPATIBILITY IDEOGRAPH-2F8DD=02F8DD" \o
      ";CJK COMPATIBILITY IDEOGRAPH-2F8EC=02F8EC;CJK COMPATIBILITY IDEOGRAPH-2F8FB=02F8FB" \o
      ";CJK COMPATIBILITY IDEOGRAPH-2F9AF=02F9AF;CJK COMPATIBILITY IDEOGRAPH-2F9BE=02F9BE" \o
      ";CJK COMPATIBILITY IDEOGRAPH-2F9CD=02F9CD;CJK COMPATIBILITY IDEOGRAPH-2F9DC=02F9DC" \o
      ";CJK COMPATIBILITY IDEOGRAPH-2F9EB=02F9EB;CJK COMPATIBILITY IDEOGRAPH-2F9FA=02F9FA" \o
      ";TAG LATIN CAPITAL LETTER H=0E0048",
    ";LATIN CAPITAL LETTER U WITH BREVE=00016C;CYRILLIC SMALL LETTER ZHE=000436" \o
      ";CYRILLIC SMALL LETTER KSI=00046F;ARMENIAN EXCLAMATION MARK=00055C;MANDAIC LETTER ASZ=000851" \o
      ";MANDAIC VOCALIZATION MARK=00085A;ARABIC SMALL HIGH FOOTNOTE MARKER=0008E0" \o
      ";BENGALI LETTER TTA=00099F;GUJARATI LETTER CA=000A9A;ORIYA VOWEL SIGN I=000B3F" \o
      ";LAO LETTER SO SUNG=000EAA;TIBETAN LETTER KHA=000F41;GEORGIAN LETTER AN=0010D0" \o
      ";GEORGIAN LETTER FI=0010F6;CHEROKEE LETTER LI=0013B5;CHEROKEE LETTER TA=0013D4" \o
      ";CANADIAN SYLLABICS WEST-CREE NWAA=0014CE;BUGINESE LETTER HA=001A16" \o
      ";BALINESE LETTER BA KEMBANG=001B2A;BALINESE LETTER WA=001B2F;VEDIC TONE TRIPLE SVARITA=001CDB" \o
      ";COMBINING IS BELOW=001DD0;COMBINING US ABOVE=001DD2;LATIN CAPITAL LETTER W WITH ACUTE=001E82" \o
      ";LATIN CAPITAL LETTER O WITH CIRCUMFLEX AND GRAVE=001ED2;LRM=00200E;RLM=00200F" \o
      ";SMALL ROMAN NUMERAL SEVEN=002176;CONTAINS AS MEMBER=00220B;NUMBER EIGHTEEN FULL STOP=002499" \o
      ";REVERSE SOLIDUS OPERATOR=0029F5;HIRAGANA LETTER KU=00304F;HIRAGANA LETTER WI=003090" \o
      ";KATAKANA LETTER ZE=0030BC;KATAKANA LETTER PO=0030DD;KATAKANA LETTER VI=0030F8" \o
      ";JAVANESE LETTER MA=00A9A9;MYANMAR LETTER KHAMTI NYA=00AA65;CHEROKEE SMALL LETTER QUV=00AB9B" \o
      ";CHEROKEE SMALL LETTER TSU=00ABB7;ARABIC LIGATURE TEH WITH HAH INITIAL FORM=00FCA2" \o
      ";ARABIC LIGATURE SHEEN WITH REH FINAL FORM=00FD29;ARABIC DAMMA ISOLATED FORM=00FE78" \o
      ";ARABIC LIGATURE LAM WITH ALEF WITH MADDA ABOVE FINAL FORM=00FEF6;GOTHIC LETTER AHSA=010330" \o
      ";SHAVIAN LETTER ICE=010472;KAITHI SIGN VIRAMA=0110B9;SHARADA LETTER SSA=0111B0" \o
      ";KHUDAWADI LETTER I=0112B2;GRANTHA LETTER NGA=011319;DOGRA SIGN VISARGA=011838" \o
      ";DIVES AKURU VOWEL SIGN UU=011934;MARCHEN LETTER THA=011C7B;CUNEIFORM SIGN DAM=01206E" \o
      ";CUNEIFORM SIGN UR SHESHIG=01232A;CUNEIFORM SIGN ZA7=012541;ANATOLIAN HIEROGLYPH A104C=014479" \o
      ";ANATOLIAN HIEROGLYPH A105B=01447C;ANATOLIAN HIEROGLYPH A115A=01448C" \o
      ";MUSICAL SYMBOL PORRECTUS=01D1D9;MATHEMATICAL BOLD FRAKTUR SMALL H=01D58D" \o
      ";MATHEMATICAL SANS-SERIF CAPITAL H=01D5A7;MATHEMATICAL ITALIC CAPITAL KAPPA=01D6EB" \o
      ";SIGNWRITING HAND-HINGE INDEX THUMB LARGE=01D8EF" \o
      ";SIGNWRITING TRAVEL-WALLPLANE ARM SPIRAL TRIPLE=01D954" \o
      ";NYIAKENG PUACHUE HMONG SIGN FOR LOCATION=01E139;MAN WITH GUA PI MAO=01F472" \o
      ";PEN OVER STAMPED ENVELOPE=01F586;NEUTRAL CHESS PAWN ROTATED TWO HUNDRED SEVENTY DEGREES=01FA44" \o
      ";FLY=01FAB0;CJK COMPATIBILITY IDEOGRAPH-2F8CF=02F8CF;CJK COMPATIBILITY IDEOGRAPH-2F8DE=02F8DE" \o
      ";CJK COMPATIBILITY IDEOGRAPH-2F8ED=02F8ED;CJK COMPATIBILITY IDEOGRAPH-2F8FC=02F8FC" \o
      ";CJK COMPATIBILITY IDEOGRAPH-2F9BF=02F9BF;CJK COMPATIBILITY IDEOGRAPH-2F9CE=02F9CE" \o
      ";CJK COMPATIBILITY IDEOGRAPH-2F9DD=02F9DD;CJK COMPATIBILITY IDEOGRAPH-2F9EC=02F9EC" \o
      ";CJK COMPATIBILITY IDEOGRAPH-2F9FB=02F9FB;TAG LATIN CAPITAL LETTER I=0E0049",
    ";LATIN CAPITAL LETTER U WITH GRAVE=0000D9;ARABIC LETTER NOON=000646" \o
      ";DEVANAGARI LETTER CANDRA A=000972;GUJARATI LETTER DA=000AA6;CHEROKEE LETTER GO=0013AA" \o
      ";CHEROKEE LETTER MI=0013BB;LIMBU VOWEL SIGN U=001922;COMBINING CLOCKWISE RING OVERLAY=0020D9" \o
      ";VULGAR FRACTION ONE TENTH=002152;SMALL ROMAN NUMERAL FIFTY=00217C" \o
      ";WHITE MEDIUM SMALL SQUARE=0025FD;WHITE LEFT POINTING INDEX=00261C" \o
      ";BLACK UNIVERSAL RECYCLING SYMBOL=00267B;HEAVY VERTICAL BAR=00275A" \o
      ";LEFT ARC LESS-THAN BRACKET=002993;GREATER-THAN CLOSED BY CURVE ABOVE SLANTED EQUAL=002AA9" \o
      ";STAR WITH RIGHT HALF BLACK=002BEB;KANGXI RADICAL TWO=002F06;HIRAGANA LETTER RO=00308D" \o
      ";KATAKANA LETTER KU=0030AF;KATAKANA LETTER WI=0030F0;CIRCLED NUMBER TWENTY ONE=003251" \o
      ";VAI SYLLABLE MGBOO=00A57B;JAVANESE LETTER NA=00A9A4;MYANMAR LETTER KHAMTI TTA=00AA66" \o
      ";CHEROKEE SMALL LETTER TSV=00ABB8;ARABIC LETTER NGOEH ISOLATED FORM=00FB9A" \o
      ";ARABIC LETTER HAMZA ISOLATED FORM=00FE80;COPTIC EPACT NUMBER FORTY=0102ED" \o
      ";VITHKUQI CAPITAL LETTER I=01057E;MODIFIER LETTER SMALL G WITH HOOK=010793" \o
      ";SHARADA LETTER NYA=01119A;BHAIKSUKI LETTER A=011C00" \o
      ";CUNEIFORM SIGN GA2 TIMES A PLUS DA PLUS HA=0120B8;CUNEIFORM SIGN KA TIMES AD=012159" \o
      ";CUNEIFORM SIGN KU3=0121AC;CUNEIFORM SIGN LU2=0121FD" \o
      ";CUNEIFORM NUMERIC SIGN NINE VARIANT FORM ILIMMU=012446;ANATOLIAN HIEROGLYPH A026A=01441B" \o
      ";ANATOLIAN HIEROGLYPH A107A=01447F;ANATOLIAN HIEROGLYPH A125A=014497" \o
      ";ANATOLIAN HIEROGLYPH A215A=0144F7;ANATOLIAN HIEROGLYPH A332A=014574" \o
      ";BAMUM LETTER PHASE-B NTIEE SHEUOQ=016864;BAMUM LETTER PHASE-D TEEEE=016928" \o
      ";PAHAWH HMONG MARK CIM SUAM=016B34;TETRAGRAM FOR EASE=01D31C" \o
      ";MATHEMATICAL BOLD FRAKTUR SMALL I=01D58E;MATHEMATICAL SANS-SERIF CAPITAL I=01D5A8" \o
      ";SIGNWRITING MOVEMENT-DIAGONAL BETWEEN TOWARDS LARGEST=01D964" \o
      ";LATIN SMALL LETTER C WITH RETROFLEX HOOK=01DF1D;STUDIO MICROPHONE=01F399" \o
      ";SPEAKER WITH CANCELLATION STROKE=01F507;LIGATURE OPEN ET ORNAMENT=01F672" \o
      ";NEUTRAL CHESS TURNED KING=01FA2A;CJK COMPATIBILITY IDEOGRAPH-2F8DF=02F8DF" \o
      ";CJK COMPATIBILITY IDEOGRAPH-2F8EE=02F8EE;CJK COMPATIBILITY IDEOGRAPH-2F8FD=02F8FD" \o
      ";CJK COMPATIBILITY IDEOGRAPH-2F9CF=02F9CF;CJK COMPATIBILITY IDEOGRAPH-2F9DE=02F9DE" \o
      ";CJK COMPATIBILITY IDEOGRAPH-2F9ED=02F9ED;CJK COMPATIBILITY IDEOGRAPH-2F9FC=02F9FC" \o
      ";TAG LATIN CAPITAL LETTER J=0E004A",
    ";LATIN CAPITAL LETTER Y WITH ACUTE=0000DD;MODIFIER LETTER SMALL H WITH HOOK=0002B1" \o
      ";MODIFIER LETTER YANG DEPARTING TONE MARK=0002EB;CYRILLIC CAPITAL LETTER O WITH DIAERESIS=0004E6" \o
      ";SYRIAC RBASA BELOW=000737;TIBETAN LETTER NGA=000F44;TIBETAN SYMBOL NOR BU GSUM -KHYIL=000FCB" \o
      ";CHEROKEE LETTER HO=0013B0;CHEROKEE LETTER NI=0013C2;CANADIAN SYLLABICS WEST-CREE PWAA=001447" \o
      ";TAGBANWA LETTER WA=00176F;NEW TAI LUE LETTER LOW THA=001992;BUGINESE LETTER JA=001A0D" \o
      ";BALINESE LETTER YA=001B2C;LEPCHA LETTER TSHA=001C18;MODIFIER LETTER SMALL C WITH CURL=001D9D" \o
      ";LATIN CAPITAL LETTER Y WITH TILDE=001EF8;LRO=00202D;RLO=00202E;PRECEDES OR EQUIVALENT TO=00227E" \o
      ";COPTIC SMALL LETTER BOHAIRIC KHEI=002CF3;HIRAGANA LETTER SO=00305D;HIRAGANA LETTER MU=003080" \o
      ";KATAKANA LETTER RO=0030ED;HANGUL LETTER YO-I=003189;YI SYLLABLE ZZURX=00A2E5" \o
      ";BAMUM LETTER NJAEM=00A6B2;LATIN SMALL LETTER G WITH OBLIQUE STROKE=00A7A1" \o
      ";ARABIC LIGATURE JEEM WITH HAH WITH YEH FINAL FORM=00FDBE" \o
      ";ARABIC LIGATURE HAH WITH JEEM WITH YEH FINAL FORM=00FDBF;PHAISTOS DISC SIGN COLUMN=0101E6" \o
      ";GOTHIC LETTER DAGS=010333;SHAVIAN LETTER EGG=010467;ELBASAN LETTER ZHE=010524" \o
      ";AVESTAN LETTER AEE=010B07;SHARADA LETTER TTA=01119B;AHOM VOWEL SIGN UU=011725" \o
      ";MARCHEN LETTER DZA=011C84;CUNEIFORM SIGN GAL=0120F2;CUNEIFORM SIGN KU4=0121AD" \o
      ";CUNEIFORM SIGN LU3=012216;ANATOLIAN HIEROGLYPH A045A=014431;ANATOLIAN HIEROGLYPH A107B=014480" \o
      ";ANATOLIAN HIEROGLYPH A135A=0144A2;ANATOLIAN HIEROGLYPH A207A=0144ED" \o
      ";ANATOLIAN HIEROGLYPH A216A=0144F9;ANATOLIAN HIEROGLYPH A332B=014575" \o
      ";ANATOLIAN HIEROGLYPH A450A=0145F8;BAMUM LETTER PHASE-B KIEEM=01685D" \o
      ";PAHAWH HMONG MARK CIM TAUM=016B36;BYZANTINE MUSICAL SYMBOL ARGOSYNTHETON=01D073" \o
      ";MATHEMATICAL BOLD FRAKTUR SMALL J=01D58F;MATHEMATICAL SANS-SERIF CAPITAL J=01D5A9" \o
      ";MAHJONG TILE JOKER=01F02A;SQUARED CJK UNIFIED IDEOGRAPH-521D=01F220;FIREWORK SPARKLER=01F387" \o
      ";PILE OF POO=01F4A9;KEYBOARD AND MOUSE=01F5A6;LARGE GREEN SQUARE=01F7E9" \o
      ";CJK COMPATIBILITY IDEOGRAPH-2F8EF=02F8EF;CJK COMPATIBILITY IDEOGRAPH-2F8FE=02F8FE" \o
      ";CJK COMPATIBILITY IDEOGRAPH-2F9DF=02F9DF;CJK COMPATIBILITY IDEOGRAPH-2F9EE=02F9EE" \o
      ";CJK COMPATIBILITY IDEOGRAPH-2F9FD=02F9FD;TAG LATIN CAPITAL LETTER K=0E004B",
    ";LATIN CAPITAL LETTER Z WITH ACUTE=000179;HEBREW ACCENT ATNAH HAFUKH=0005A2" \o
      ";HEBREW ACCENT ILUY=0005AC;ARABIC MADDAH ABOVE=000653" \o
      ";TELUGU FRACTION DIGIT ONE FOR ODD POWERS OF FOUR=000C79;MALAYALAM LETTER O=000D12" \o
      ";TIBETAN LETTER KKA=000F6B;MYANMAR LETTER DDA=00100D;CHEROKEE LETTER SE=0013CE" \o
      ";CHEROKEE LETTER WA=0013E9;CANADIAN SYLLABICS WOODS-CREE THE=00159B;KHMER VOWEL SIGN Y=0017B9" \o
      ";KHMER SYMBOL LEK ATTAK BEI=0017F3;BUGINESE LETTER KA=001A00;BALINESE DIGIT TWO=001B52" \o
      ";LEPCHA LETTER TTHA=001C4E;LATIN SMALL LETTER E WITH RETROFLEX HOOK=001D92" \o
      ";LATIN CAPITAL LETTER W WITH GRAVE=001E80;GREEK SMALL LETTER ETA WITH PSILI=001F20" \o
      ";SUPERSCRIPT LATIN SMALL LETTER I=002071;LOGICAL AND=002227;SYMBOL FOR FILE SEPARATOR=00241C" \o
      ";OCR BOW TIE=002445;BOX DRAWINGS HEAVY DOWN AND RIGHT=00250F;SQUARE WITH VERTICAL FILL=0025A5" \o
      ";HORIZONTAL MALE WITH STROKE SIGN=0026A9;DOUBLE COLON EQUAL=002A74" \o
      ";LEFTWARDS TRIANGLE-HEADED ARROW WITH DOUBLE HORIZONTAL STROKE=002B7A;HIRAGANA LETTER ZI=003058" \o
      ";HIRAGANA LETTER TO=003068;HIRAGANA LETTER NU=00306C;KATAKANA LETTER SO=0030BD" \o
      ";KATAKANA LETTER MU=0030E0;HANGUL LETTER NIEUN-HIEUH=003136" \o
      ";LATIN SMALL LETTER THORN WITH STROKE THROUGH DESCENDER=00A767;JAVANESE LETTER PA=00A9A5" \o
      ";ARABIC LETTER SHEEN ISOLATED FORM=00FEB5;GREEK THREE QUARTERS SIGN=010178" \o
      ";SHAVIAN LETTER ADO=010469;VITHKUQI SMALL LETTER CHE=01059B;MEROITIC CURSIVE LETTER A=0109A0" \o
      ";MEROITIC CURSIVE FRACTION FIVE TWELFTHS=0109FA;MEROITIC CURSIVE FRACTION NINE TWELFTHS=0109FE" \o
      ";SHARADA SUTRA MARK=0111CD;GRANTHA LETTER PHA=01132B;GRANTHA LETTER LLA=011333" \o
      ";SIDDHAM SIGN NUKTA=0115C0;TAKRI VOWEL SIGN U=0116B0;NANDINAGARI SIGN ANUSVARA=0119DE" \o
      ";CUNEIFORM SIGN BAR=012047;CUNEIFORM SIGN GAM=0120F5;CUNEIFORM SIGN HAL=01212C" \o
      ";CUNEIFORM SIGN KA TIMES U2=012188;CUNEIFORM SIGN PAD=01227B;CUNEIFORM SIGN RAB=012290" \o
      ";CUNEIFORM SIGN SAG TIMES IGI GUNU=012396" \o
      ";CUNEIFORM NUMERIC SIGN SHAR2 TIMES GAL PLUS DISH=012432" \o
      ";CUNEIFORM SIGN GA2 TIMES DUG TIMES KASKAL=0124B9;ANATOLIAN HIEROGLYPH A046A=014433" \o
      ";ANATOLIAN HIEROGLYPH A107C=014481;ANATOLIAN HIEROGLYPH A332C=014576" \o
      ";BAMUM LETTER PHASE-C NJAEM=0168C4;BAMUM LETTER PHASE-E MGBEN=0169A5;MIAO VOWEL SIGN UU=016F6E" \o
      ";ZNAMENNY NEUME STRELA DVOECHELNAYA KLYUCHEVAYA=01CF9E;MATHEMATICAL BOLD FRAKTUR SMALL K=01D590" \o
      ";MATHEMATICAL SANS-SERIF CAPITAL K=01D5AA" \o
      ";MATHEMATICAL SANS-SERIF BOLD ITALIC CAPITAL ZETA=01D795;INDIC SIYAQ NUMBER NINETY=01EC82" \o
      ";SQUARED CJK UNIFIED IDEOGRAPH-6599=01F21B;SQUARED CJK UNIFIED IDEOGRAPH-65B0=01F21F" \o
      ";WHITE CHESS TURNED BISHOP=01FA21;WHITE CHESS TURNED KNIGHT=01FA22" \o
      ";WHITE CHESS KNIGHT-BISHOP=01FA50;CJK COMPATIBILITY IDEOGRAPH-2F8FF=02F8FF" \o
      ";CJK COMPATIBILITY IDEOGRAPH-2F9EF=02F9EF;CJK COMPATIBILITY IDEOGRAPH-2F9FE=02F9FE" \o
      ";TAG LATIN CAPITAL LETTER L=0E004C",
    ";NUL=000000;HTS=000088;LATIN CAPITAL LETTER Z WITH CARON=00017D;GUJARATI LETTER GA=000A97" \o
      ";SINHALA VOWEL SIGN KOMBUVA HAA AELA-PILLA=000DDC;GEORGIAN LETTER EN=0010D4" \o
      ";CHEROKEE LETTER TE=0013D6;CHEROKEE LETTER DU=0013DA;CANADIAN SYLLABICS WEST-CREE RWAA=00154F" \o
      ";TAGBANWA LETTER YA=00176C;BUGINESE LETTER LA=001A12;TAI THAM CONSONANT SIGN BA=001A5D" \o
      ";RIGHTWARDS WHITE ARROW FROM WALL=0021F0;NOR=0022BD;APL FUNCTIONAL SYMBOL RHO=002374" \o
      ";EMPTY SET WITH SMALL CIRCLE ABOVE=0029B2;COPTIC SMALL LETTER AKHMIMIC KHEI=002CC9" \o
      ";KATAKANA LETTER ZI=0030B8;KATAKANA LETTER TO=0030C8;KATAKANA LETTER NU=0030CC" \o
      ";CIRCLED NUMBER FORTY FOUR=0032B9;LATIN SMALL LETTER MIDDLE SCOTS S=00A7D7" \o
      ";JAVANESE LETTER II=00A987;ARABIC LIGATURE TEH WITH HEH INITIAL FORM=00FCA5" \o
      ";ARABIC FATHA ISOLATED FORM=00FE76;HALFWIDTH KATAKANA LETTER SMALL O=00FF6B" \o
      ";GREEK ACROPHONIC EPIDAUREAN TWO DRACHMAS=01015E;CARIAN LETTER UUU2=0102C8" \o
      ";ELBASAN LETTER RRE=01051A;VITHKUQI SMALL LETTER DHE=01059D;VITHKUQI SMALL LETTER HHA=0105A4" \o
      ";INSCRIPTIONAL PAHLAVI NUMBER ONE=010B78;SOGDIAN PUNCTUATION HALF CIRCLE WITH DOT=010F59" \o
      ";CUNEIFORM SIGN GAN=0120F6;CUNEIFORM SIGN KA TIMES GA=012162;CUNEIFORM SIGN MAH=012224" \o
      ";CUNEIFORM SIGN ZI3=012365;CUNEIFORM NUMERIC SIGN FIVE GESH2=012419" \o
      ";CUNEIFORM NUMERIC SIGN NINE GESH2=01241D;ANATOLIAN HIEROGLYPH A046B=014434" \o
      ";ANATOLIAN HIEROGLYPH A209A=0144F0;ANATOLIAN HIEROGLYPH A227A=014505" \o
      ";ANATOLIAN HIEROGLYPH A371A=0145A4;BAMUM LETTER PHASE-C GBAYI=016898" \o
      ";BAMUM LETTER PHASE-D NJIEE=0168F5;BYZANTINE MUSICAL SYMBOL CHAMILI=01D056" \o
      ";MUSICAL SYMBOL BEGIN SLUR=01D177;MATHEMATICAL BOLD FRAKTUR SMALL L=01D591" \o
      ";MATHEMATICAL SANS-SERIF CAPITAL L=01D5AB;MATHEMATICAL ITALIC CAPITAL SIGMA=01D6F4" \o
      ";SIGNWRITING HAND-CLAW MIDDLE RING LITTLE CONJOINED SIDE=01D8D7;SIGNWRITING TEETH=01DA61" \o
      ";ARABIC MATHEMATICAL STRETCHED TAH=01EE68;SQUARED CJK UNIFIED IDEOGRAPH-624B=01F210" \o
      ";SQUARED CJK UNIFIED IDEOGRAPH-904A=01F22B;SIDEWAYS WHITE UP POINTING INDEX=01F59E" \o
      ";HELICOPTER=01F681;PEDESTRIAN=01F6B6;ALCHEMICAL SYMBOL FOR AQUA REGIA-2=01F707" \o
      ";CJK COMPATIBILITY IDEOGRAPH-2F9FF=02F9FF;TAG LATIN CAPITAL LETTER M=0E004D",
    ";LATIN CAPITAL LETTER U BAR=000244;LATIN SMALL LETTER HENG WITH HOOK=000267" \o
      ";COMBINING LOW LINE=000332;CYRILLIC SMALL LETTER TSE=000446;CYRILLIC SMALL LETTER PSI=000471" \o
      ";SYRIAC LETTER REVERSED PE=000727;DEVANAGARI LETTER CANDRA E=00090D;GUJARATI LETTER HA=000AB9" \o
      ";TIBETAN LETTER PHA=000F55;MYANMAR LETTER BHA=001018;MYANMAR DIGIT FIVE=001045" \o
      ";MYANMAR DIGIT NINE=001049;HANGUL JUNGSEONG A=001161;CHEROKEE LETTER DV=0013DB" \o
      ";CHEROKEE LETTER YA=0013EF;CANADIAN SYLLABICS WEST-CREE CWII=001497" \o
      ";CANADIAN SYLLABICS WEST-CREE SWAA=001503;KHMER SIGN NIKAHIT=0017C6;BUGINESE LETTER MA=001A06" \o
      ";BATAK LETTER MANDAILING HA=001BC4;LATIN CAPITAL LETTER Y WITH GRAVE=001EF2;GREEK DASIA=001FFE" \o
      ";WHITE VERTICAL BAR=002AFE;LEFTWARDS ARROW WITH DOTTED STEM=002B38;HIRAGANA LETTER PU=003077" \o
      ";HANGUL LETTER RIEUL-HIEUH=003140;IDEOGRAPHIC TELEGRAPH SYMBOL FOR DAY TWO=0033E1" \o
      ";IDEOGRAPHIC TELEGRAPH SYMBOL FOR DAY TWENTY-ONE=0033F4;JAVANESE LETTER RA=00A9AB" \o
      ";ARABIC LIGATURE YEH WITH HAH INITIAL FORM=00FCDB;ARABIC LIGATURE RADI ALLAAHU ANHAA=00FD42" \o
      ";ARABIC LIGATURE HAH WITH MEEM WITH YEH FINAL FORM=00FD5A" \o
      ";ARABIC LIGATURE MEEM WITH HAH WITH YEH FINAL FORM=00FD8B;CARIAN LETTER UUU3=0102D0" \o
      ";LINEAR A SIGN AB021M=010611;MODIFIER LETTER SMALL R WITH TAIL=0107A8;SOGDIAN NUMBER ONE=010F51" \o
      ";BHAIKSUKI LETTER E=011C0A;CUNEIFORM SIGN DAR=01206F;CUNEIFORM SIGN KAK=012195" \o
      ";CUNEIFORM SIGN KU7=0121AF;CUNEIFORM SIGN TAB=0122F0;CUNEIFORM SIGN GIG=01237C" \o
      ";CUNEIFORM NUMERIC SIGN THREE SHARU VARIANT FORM=01242F;ANATOLIAN HIEROGLYPH A039A=014429" \o
      ";ANATOLIAN HIEROGLYPH A066A=014449;ANATOLIAN HIEROGLYPH A309A=01455C" \o
      ";ANATOLIAN HIEROGLYPH A336A=01457B;ANATOLIAN HIEROGLYPH A381A=0145AF" \o
      ";BAMUM LETTER PHASE-A LAPAQ=016817;BAMUM LETTER PHASE-A NGGEN=016845" \o
      ";BAMUM LETTER PHASE-A MAESI=016846;BAMUM LETTER PHASE-E KEUAE=01699A;TANGSA DIGIT SEVEN=016AC7" \o
      ";PAHAWH HMONG CLAN SIGN KWM=016B8E;MATHEMATICAL BOLD FRAKTUR SMALL M=01D592" \o
      ";MATHEMATICAL SANS-SERIF CAPITAL M=01D5AC;SIGNWRITING COLON=01DA8A;ADLAM HAMZA=01E947" \o
      ";OTTOMAN SIYAQ NUMBER SIX HUNDRED=01ED18;SQUARED CJK UNIFIED IDEOGRAPH-524D=01F21C" \o
      ";POT OF FOOD=01F372;MAN DANCING=01F57A;HUSHED FACE=01F62F;HEAVY WHITE CIRCLE=01F787" \o
      ";NEUTRAL CHESS ROOK ROTATED TWO HUNDRED SEVENTY DEGREES=01FA41;TAG LATIN CAPITAL LETTER N=0E004E",
    ";END OF TEXT=000003;ETX=000003;PLU=00008C;GREEK KAPPA SYMBOL=0003F0;SYRIAC ESASA BELOW=00073E" \o
      ";ARABIC SUKUN BELOW=0008D0;GUJARATI LETTER AI=000A90;ORIYA VOWEL SIGN O=000B4B" \o
      ";THAI CHARACTER KHO RAKHANG=000E06;TIBETAN SIGN RDEL NAG GSUM=000FCF;MYANMAR LETTER CHA=001006" \o
      ";CHEROKEE LETTER LO=0013B6;CANADIAN SYLLABICS WEST-CREE TWAA=001464;BUGINESE LETTER NA=001A0A" \o
      ";GREEK SMALL LETTER IOTA WITH OXIA=001F77;LEFT-TO-RIGHT MARK=00200E;RIGHT-TO-LEFT MARK=00200F" \o
      ";HYPHENATION POINT=002027;SUCCEEDS OR EQUIVALENT TO=00227F;CIRCLED WHITE STAR=00272A" \o
      ";SQUARED LOGICAL OR=0027CF;CJK RADICAL NET ONE=002EB1;HIRAGANA LETTER WO=003092" \o
      ";KATAKANA LETTER PU=0030D7;KATAKANA LETTER VO=0030FA;YI SYLLABLE ZZYRX=00A2EB" \o
      ";LATIN SMALL LETTER K WITH OBLIQUE STROKE=00A7A3;JAVANESE LETTER SA=00A9B1" \o
      ";ARABIC LIGATURE KAF WITH MEEM WITH YEH FINAL FORM=00FDB7;LINEAR A SIGN AB022M=010614" \o
      ";HATRAN LETTER BETH=0108E1;HATRAN NUMBER FIVE=0108FC;AVESTAN LETTER BHE=010B21" \o
      ";RUMI NUMBER SEVEN HUNDRED=010E78;OLD SOGDIAN NUMBER THIRTY=010F24;KHOJKI SIGN VIRAMA=011235" \o
      ";KHUDAWADI LETTER O=0112B8;GRANTHA LETTER SHA=011336;SIDDHAM LETTER SSA=0115AC" \o
      ";MODI VOWEL SIGN UU=011634;ZANABAZAR SQUARE MARK DOUBLE SHAD=011A43;MARCHEN LETTER ZHA=011C86" \o
      ";CUNEIFORM SIGN AL TIMES HA=012024;CUNEIFORM SIGN KAL=012197;CUNEIFORM SIGN KID=0121A4" \o
      ";ANATOLIAN HIEROGLYPH A066B=01444A;ANATOLIAN HIEROGLYPH A336B=01457C" \o
      ";ANATOLIAN HIEROGLYPH A364A=01459B;BAMUM LETTER PHASE-D NGGAP=016943" \o
      ";BAMUM LETTER PHASE-F NJAEM=016A10;MIAO VOWEL SIGN VW=016F83" \o
      ";MATHEMATICAL BOLD FRAKTUR SMALL N=01D593;MATHEMATICAL SANS-SERIF CAPITAL N=01D5AD" \o
      ";WANCHO LETTER LLHA=01E2DF;OTTOMAN SIYAQ FRACTION ONE SIXTH=01ED3D" \o
      ";PLAYING CARD TEN OF HEARTS=01F0BA;SQUARED CJK UNIFIED IDEOGRAPH-591A=01F215" \o
      ";NOTCHED RIGHT SEMICIRCLE WITH THREE DOTS=01F544;BLACK HEART=01F5A4;TWO SPEECH BUBBLES=01F5EA" \o
      ";AUTOMOBILE=01F697;HUT=01F6D6;HEAVY LEFTWARDS ARROW WITH LARGE EQUILATERAL ARROWHEAD=01F81C" \o
      ";CANNED FOOD=01F96B;TAG LATIN CAPITAL LETTER O=0E004F",
    ";LATIN CAPITAL LETTER WYNN=0001F7;CYRILLIC SMALL LETTER YAT=000463" \o
      ";ARABIC LETTER KEHEH WITH THREE DOTS ABOVE=000763;BENGALI CURRENCY NUMERATOR THREE=0009F6" \o
      ";GUJARATI LETTER JA=000A9C;MYANMAR LETTER DHA=001013;CHEROKEE LETTER GU=0013AB" \o
      ";CHEROKEE LETTER MO=0013BC;CHEROKEE LETTER SI=0013CF;CHEROKEE LETTER WE=0013EA" \o
      ";CANADIAN SYLLABICS WOODS-CREE THI=00159C;MONGOLIAN LETTER TODO TSA=001854" \o
      ";NEW TAI LUE LETTER LOW KVA=0019A8;LATIN SMALL LETTER I WITH RETROFLEX HOOK=001D96" \o
      ";MODIFIER LETTER SMALL M WITH HOOK=001DAC;ASTERISK OPERATOR=002217;LESS-THAN WITH DOT=0022D6" \o
      ";RIGHT WIGGLY FENCE=0029D9;CJK RADICAL PAW ONE=002EA4;HIRAGANA LETTER RU=00308B" \o
      ";KATAKANA LETTER WO=0030F2;VAI SYLLABLE NGGOO=00A590;JAVANESE LETTER TA=00A9A0" \o
      ";JAVANESE DIGIT SIX=00A9D6;ARABIC LETTER TTEHEH INITIAL FORM=00FB60" \o
      ";ARABIC LIGATURE SHEEN WITH YEH FINAL FORM=00FD1A" \o
      ";ARABIC LIGATURE FEH WITH MEEM WITH YEH FINAL FORM=00FDC1;SHAVIAN LETTER ARE=010478" \o
      ";SHAVIAN LETTER EAR=01047D;SHAVIAN LETTER IAN=01047E;VITHKUQI CAPITAL LETTER O=010587" \o
      ";LINEAR A SIGN AB023M=010616;HATRAN LETTER KAPH=0108EA;MEROITIC CURSIVE LETTER E=0109A1" \o
      ";AVESTAN LETTER AAN=010B05;GRANTHA LETTER NNA=011323;GRANTHA LETTER THA=011325" \o
      ";SIDDHAM LETTER NYA=011597;CUNEIFORM SIGN IGI=012146;CUNEIFORM SIGN KA TIMES BI=01215F" \o
      ";CUNEIFORM SIGN LAL=0121F2;CUNEIFORM SIGN UR2=01232B;ANATOLIAN HIEROGLYPH A066C=01444B" \o
      ";ANATOLIAN HIEROGLYPH A329A=014571;ANATOLIAN HIEROGLYPH A336C=01457D" \o
      ";ANATOLIAN HIEROGLYPH A383A=0145B2;BAMUM LETTER PHASE-C NGGEN=016893" \o
      ";BAMUM LETTER PHASE-C MAESI=0168CB;BAMUM LETTER PHASE-E NDIAQ=0169B0" \o
      ";MATHEMATICAL BOLD FRAKTUR SMALL O=01D594;MATHEMATICAL SANS-SERIF CAPITAL O=01D5AE" \o
      ";SIGNWRITING HAND-FIST INDEX MIDDLE CROSS LITTLE=01D8A9" \o
      ";SIGNWRITING MOVEMENT-FLOORPLANE SINGLE STRAIGHT LARGE=01D967;WANCHO DIGIT SEVEN=01E2F7" \o
      ";SQUARED CJK UNIFIED IDEOGRAPH-7D42=01F221;SQUARED CJK UNIFIED IDEOGRAPH-6F14=01F226" \o
      ";SQUARED CJK UNIFIED IDEOGRAPH-53F3=01F22E;SOON WITH RIGHTWARDS ARROW ABOVE=01F51C" \o
      ";INCREASE FONT SIZE SYMBOL=01F5DA;WIDE-HEADED RIGHTWARDS BARB ARROW=01F86A;OWL=01F989" \o
      ";TAG LATIN CAPITAL LETTER P=0E0050",
    ";DEVICE CONTROL ONE=000011;MODIFIER LETTER TRIANGULAR COLON=0002D0;GREEK NUMERAL SIGN=000374" \o
      ";CYRILLIC SMALL LETTER LITTLE YUS=000467;CYRILLIC CAPITAL LETTER U WITH DIAERESIS=0004F0" \o
      ";GUJARATI LETTER KA=000A95;TIBETAN LETTER SHA=000F64;GEORGIAN LETTER IN=0010D8" \o
      ";HANGUL CHOSEONG PIEUP-SIOS-PIEUP=001124;ETHIOPIC TONAL MARK YIZET=001390" \o
      ";CHEROKEE LETTER GV=0013AC;CHEROKEE LETTER HU=0013B1;CHEROKEE LETTER NO=0013C3" \o
      ";CHEROKEE LETTER TI=0013D8;OGHAM LETTER CEIRT=00168A;BUGINESE LETTER PA=001A04" \o
      ";TAI THAM SIGN CAANG=001AAD;COMBINING LATIN SMALL LETTER BETA=001DE9" \o
      ";SUPERSCRIPT LATIN SMALL LETTER N=00207F;RIGHTWARDS ARROW FROM BAR=0021A6" \o
      ";DOUBLE CIRCLED DIGIT EIGHT=0024FC;BOX DRAWINGS LEFT HEAVY AND RIGHT VERTICAL LIGHT=00253D" \o
      ";BOX DRAWINGS RIGHT HEAVY AND LEFT VERTICAL LIGHT=00253E" \o
      ";BOX DRAWINGS RIGHT LIGHT AND LEFT VERTICAL HEAVY=002549" \o
      ";BOX DRAWINGS LEFT LIGHT AND RIGHT VERTICAL HEAVY=00254A;RAISED HAND=00270B" \o
      ";HEAVY TEARDROP-SPOKED PINWHEEL ASTERISK=002743;HEAVY TEARDROP-SHANKED RIGHTWARDS ARROW=0027BB" \o
      ";COPTIC OLD NUBIAN INDIRECT QUESTION MARK=002CFB;HIRAGANA LETTER SU=003059" \o
      ";HIRAGANA LETTER YO=003088;KATAKANA LETTER RU=0030EB;HANGUL LETTER YU-I=00318C" \o
      ";CIRCLED IDEOGRAPH CONGRATULATION=003297" \o
      ";ARABIC LETTER ALEF WITH MADDA ABOVE ISOLATED FORM=00FE81" \o
      ";COPTIC EPACT NUMBER EIGHT HUNDRED=0102FA;OSMANYA DIGIT FIVE=0104A5;OSMANYA DIGIT NINE=0104A9" \o
      ";AVESTAN LETTER AAO=010B03;AVESTAN LETTER DHE=010B1C;AVESTAN ABBREVIATION MARK=010B39" \o
      ";INSCRIPTIONAL PARTHIAN LETTER HE=010B44;ELYMAIC LETTER MEM=010FEC;MULTANI LETTER DDA=011292" \o
      ";NEWA VOWEL SIGN UU=011439;SIDDHAM LETTER TTA=011598;WARANG CITI SMALL LETTER A=0118C1" \o
      ";CUNEIFORM SIGN DIM=012074;CUNEIFORM SIGN GAR=0120FB;CUNEIFORM SIGN LAM=0121F4" \o
      ";CUNEIFORM SIGN DUG TIMES IGI GUNU=012499;CUNEIFORM SIGN KA TIMES KA=0124D1" \o
      ";ANATOLIAN HIEROGLYPH A267A=01452E;ANATOLIAN HIEROGLYPH A294A=01454B" \o
      ";MATHEMATICAL BOLD FRAKTUR SMALL P=01D595;MATHEMATICAL SANS-SERIF CAPITAL P=01D5AF" \o
      ";SIGNWRITING MOVEMENT-WALLPLANE ARM CIRCLE SMALL DOUBLE=01D9E5" \o
      ";SIGNWRITING WALLPLANE SHOULDER HIP MOVE=01DA6F;ARABIC MATHEMATICAL STRETCHED TEH=01EE75" \o
      ";SQUARED CJK UNIFIED IDEOGRAPH-518D=01F21E;SQUARED CJK UNIFIED IDEOGRAPH-4E09=01F22A" \o
      ";SQUARED CJK UNIFIED IDEOGRAPH-55B6=01F23A;SQUARED CJK UNIFIED IDEOGRAPH-914D=01F23B" \o
      ";PERSONAL COMPUTER=01F4BB;BLACK MEDIUM SMALL DIAMOND=01F799" \o
      ";NEUTRAL CHESS KNIGHT ROTATED FORTY-FIVE DEGREES=01FA08;VOIDED GREEK CROSS=01FBBB" \o
      ";TAG LATIN CAPITAL LETTER Q=0E0051",
    ";SHY=0000AD;LATIN LETTER BIDENTAL PERCUSSIVE=0002AD;MODIFIER LETTER PLUS SIGN=0002D6" \o
      ";CYRILLIC SMALL LETTER ZHE WITH DESCENDER=000497" \o
      ";ARABIC LETTER GHAIN WITH THREE DOTS ABOVE=0008C3;GUJARATI LETTER LA=000AB2" \o
      ";MALAYALAM LETTER U=000D09;TIBETAN DIGIT FOUR=000F24;TIBETAN LETTER NNA=000F4E" \o
      ";TIBETAN LETTER THA=000F50;TIBETAN SYMBOL NOR BU NYIS -KHYIL=000FCA" \o
      ";TIBETAN MARK TRAILING MCHAN RTAGS=000FDA;HANGUL JUNGSEONG E=001166;CHEROKEE LETTER HV=0013B2" \o
      ";CHEROKEE LETTER YE=0013F0;GREEK CAPITAL LETTER OMICRON WITH PSILI AND OXIA=001F4C" \o
      ";COMPLEMENT=002201;DOES NOT CONTAIN AS MEMBER=00220C;HOMOTHETIC=00223B" \o
      ";APL FUNCTIONAL SYMBOL DOWN TACK UNDERBAR=00234A;SOFTWARE-FUNCTION SYMBOL=002394" \o
      ";TRIGRAM FOR HEAVEN=002630;TIFINAGH LETTER YA=002D30;HIRAGANA LETTER ZO=00305E" \o
      ";HIRAGANA LETTER TU=003064;KATAKANA LETTER SU=0030B9;KATAKANA LETTER YO=0030E8" \o
      ";SQUARE MU A=003382;CYRILLIC SMALL LETTER TWE=00A68D" \o
      ";LATIN SMALL LETTER N WITH OBLIQUE STROKE=00A7A5;JAVANESE LETTER NGA LELET RASWADI=00A98B" \o
      ";ARABIC LIGATURE THEH WITH ZAIN FINAL FORM=00FC77" \o
      ";ARABIC LIGATURE YEH WITH HEH INITIAL FORM=00FCDE;GREEK ACROPHONIC THESPIAN THIRTY=010165" \o
      ";SHAVIAN LETTER EAT=010470;NABATAEAN LETTER FINAL MEM=010892" \o
      ";INSCRIPTIONAL PAHLAVI NUMBER TEN=010B7C;SOGDIAN LETTER MEM=010F3A;BRAHMI LETTER TTHA=01101E" \o
      ";KAITHI NUMBER SIGN=0110BD;BHAIKSUKI LETTER I=011C02;CUNEIFORM SIGN AB2 TIMES GAN2 TENU=012018" \o
      ";CUNEIFORM SIGN DIN=012077;CUNEIFORM SIGN DUB=01207E;CUNEIFORM SIGN SAG=012295" \o
      ";CUNEIFORM SIGN UR4=012334;ANATOLIAN HIEROGLYPH A097A=01446B;ANATOLIAN HIEROGLYPH A457A=014600" \o
      ";HIRAGANA LETTER ARCHAIC YE=01B001;ZNAMENNY NEUME GOLUBCHIK MRACHNY=01CF60" \o
      ";MUSICAL SYMBOL DRUM CLEF-1=01D125;MUSICAL SYMBOL FUSA WHITE=01D1BF;MAYAN NUMERAL FIVE=01D2E5" \o
      ";MAYAN NUMERAL NINE=01D2E9;MATHEMATICAL BOLD FRAKTUR SMALL Q=01D596" \o
      ";MATHEMATICAL SANS-SERIF CAPITAL Q=01D5B0;MATHEMATICAL ITALIC CAPITAL THETA=01D6E9" \o
      ";SIGNWRITING HAND-FIST INDEX MIDDLE CONJOINED INDEX BENT=01D816" \o
      ";SQUARED CJK UNIFIED IDEOGRAPH-5B57=01F211;SQUARED CJK UNIFIED IDEOGRAPH-751F=01F222" \o
      ";SQUARED CJK UNIFIED IDEOGRAPH-58F0=01F224;SQUARED CJK UNIFIED IDEOGRAPH-8D70=01F230" \o
      ";SQUARED CJK UNIFIED IDEOGRAPH-6E80=01F235;MICROPHONE=01F3A4;FAX MACHINE=01F4E0" \o
      ";MICROSCOPE=01F52C;LOUDLY CRYING FACE=01F62D;TAG LATIN CAPITAL LETTER R=0E0052",
    ";SOS=000098;LATIN SMALL LETTER L WITH RETROFLEX HOOK=00026D;COMBINING LEFT ANGLE ABOVE=00031A" \o
      ";COMBINING DOUBLE OVERLINE=00033F;CYRILLIC CAPITAL LETTER GHE WITH STROKE AND HOOK=0004FA" \o
      ";HEBREW POINT PATAH=0005B7;BENGALI LETTER YYA=0009DF;GUJARATI LETTER MA=000AAE" \o
      ";TAMIL SIGN VISARGA=000B83;MYANMAR LETTER GHA=001003;KHMER SIGN REAHMUK=0017C7" \o
      ";MONGOLIAN LETTER A=001820;NEW TAI LUE VOWEL SIGN OAY=0019BE;BUGINESE LETTER RA=001A11" \o
      ";SUPERSCRIPT EIGHT=002078;DIFFERENCE BETWEEN=00224F;BRAILLE PATTERN DOTS-123456=00283F" \o
      ";LEFT BLACK TORTOISE SHELL BRACKET=002997;KATAKANA LETTER ZO=0030BE;KATAKANA LETTER TU=0030C4" \o
      ";CYRILLIC SMALL LETTER BROAD OMEGA=00A64D;BAMUM LETTER NJUAE=00A6BE;JAVANESE LETTER WA=00A9AE" \o
      ";HEBREW LIGATURE ALEF LAMED=00FB4F;HALFWIDTH KATAKANA LETTER SMALL U=00FF69" \o
      ";SHAVIAN LETTER OAK=010474;OSMANYA LETTER DHA=01048A;MEROITIC HIEROGLYPHIC LETTER BA-2=010987" \o
      ";AVESTAN LETTER GGE=010B15;SOGDIAN COMBINING LONG HOOK BELOW=010F4E;SOGDIAN NUMBER TEN=010F52" \o
      ";MULTANI LETTER BHA=01129F;DIVES AKURU SIGN ANUSVARA=01193B;CUNEIFORM SIGN A TIMES IGI=012005" \o
      ";CUNEIFORM SIGN AL TIMES AL=012021;CUNEIFORM SIGN ASH=012038" \o
      ";CUNEIFORM SIGN EZEN TIMES HA GUNU=0120AA;CUNEIFORM SIGN NAM=012246;CUNEIFORM SIGN SHA=0122AD" \o
      ";CUNEIFORM SIGN TAG=0122F3;ANATOLIAN HIEROGLYPH A098A=01446D;ANATOLIAN HIEROGLYPH A359A=014595" \o
      ";ANATOLIAN HIEROGLYPH A368A=0145A0;ANATOLIAN HIEROGLYPH A386A=0145B6" \o
      ";BAMUM LETTER PHASE-C NGKAQ=016895;BAMUM LETTER PHASE-D NGKAP=0168FE" \o
      ";BAMUM LETTER PHASE-E NGUAE=0169E0;KATAKANA LETTER ARCHAIC YE=01B121" \o
      ";ZNAMENNY NEUME STOPITSA S OCHKOM=01CF57;MUSICAL SYMBOL DRUM CLEF-2=01D126" \o
      ";MATHEMATICAL BOLD FRAKTUR SMALL R=01D597;MATHEMATICAL SANS-SERIF CAPITAL R=01D5B1" \o
      ";SIGNWRITING FLICK LARGE MULTIPLE=01D91D;SIGNWRITING TONGUE INSIDE MOUTH RELAXED=01DA5D" \o
      ";NYIAKENG PUACHUE HMONG DIGIT FIVE=01E145;NYIAKENG PUACHUE HMONG DIGIT NINE=01E149" \o
      ";ARABIC MATHEMATICAL STRETCHED ZAH=01EE7A;EYEGLASSES=01F453;CREDIT CARD=01F4B3" \o
      ";HIGH-SPEED TRAIN WITH BULLET NOSE=01F685;BLACK TINY LOZENGE=01F79D" \o
      ";TAG LATIN CAPITAL LETTER S=0E0053",
    ";LEFT CURLY BRACKET=00007B;ARABIC FATHA WITH TWO DOTS=00065E;GUJARATI LETTER NA=000AA8" \o
      ";TIBETAN LETTER DZA=000F5B;CHEROKEE LETTER WI=0013EB;CANADIAN SYLLABICS WEST-CREE YWAA=00153C" \o
      ";OGHAM LETTER PEITH=00169A;MVS=00180E;BUGINESE LETTER SA=001A14" \o
      ";BATAK LETTER MANDAILING NA=001BCA;LEPCHA PUNCTUATION TA-ROL=001C3B" \o
      ";LATIN SMALL LETTER MIDDLE-WELSH V=001EFD;SUN=002609;MEDIUM LEFT PARENTHESIS ORNAMENT=002768" \o
      ";MATHEMATICAL RIGHT WHITE TORTOISE SHELL BRACKET=0027ED;BRAILLE PATTERN DOTS-123457=00285F" \o
      ";BLACK CURVED UPWARDS AND LEFTWARDS ARROW=002BAA;BLACK CURVED LEFTWARDS AND UPWARDS ARROW=002BAC" \o
      ";HIRAGANA LETTER VU=003094;MODIFIER LETTER LOWER RIGHT CORNER ANGLE=00A71A" \o
      ";DEVANAGARI SIGN CANDRABINDU THREE=00A8F6" \o
      ";ARABIC LIGATURE LAM WITH JEEM WITH YEH FINAL FORM=00FDAC;FULLWIDTH SOLIDUS=00FF0F" \o
      ";SHAVIAN LETTER ASH=010468;SHAVIAN LETTER AIR=01047A;OSAGE CAPITAL LETTER EHCHA=0104B6" \o
      ";VITHKUQI SMALL LETTER IJE=0105A6;MEROITIC CURSIVE LETTER I=0109A2" \o
      ";MEROITIC CURSIVE NUMBER EIGHTY THOUSAND=0109EB;AVESTAN LETTER GHE=010B16" \o
      ";MULTANI LETTER CHA=01128B;TIRHUTA LETTER VOCALIC RR=011488;WARANG CITI NUMBER THIRTY=0118EC" \o
      ";MARCHEN LETTER NYA=011C79;MARCHEN LETTER TSA=011C82;MASARAM GONDI VOWEL SIGN E=011D3A" \o
      ";CUNEIFORM SIGN NAGA OPPOSING NAGA=012243;CUNEIFORM NUMERIC SIGN FIVE SHAR2=012427" \o
      ";CUNEIFORM NUMERIC SIGN NINE SHAR2=01242B;EGYPTIAN HIEROGLYPH AA007A=013414" \o
      ";BAMUM LETTER PHASE-A PON MFON PIPAEMGBIEE=016802;DUPLOYAN LETTER PERNIN AM=01BC66" \o
      ";BYZANTINE MUSICAL SYMBOL AGOGI POLI ARGI=01D09A;MATHEMATICAL BOLD FRAKTUR SMALL S=01D598" \o
      ";MATHEMATICAL SANS-SERIF CAPITAL S=01D5B2" \o
      ";SIGNWRITING MOVEMENT-WALLPLANE SINGLE STRAIGHT MEDIUM=01D92B" \o
      ";OTTOMAN SIYAQ NUMBER TWO HUNDRED=01ED14;ARABIC MATHEMATICAL OPERATOR HAH WITH DAL=01EEF1" \o
      ";VOLLEYBALL=01F3D0;GREEN SALAD=01F957" \o
      ";BOX DRAWINGS LIGHT DIAGONAL MIDDLE LEFT TO LOWER CENTRE TO MIDDLE RIGHT=01FBA6" \o
      ";TAG LATIN CAPITAL LETTER T=0E0054",
    ";LATIN SMALL LETTER EZH WITH CARON=0001EF;LATIN SMALL LETTER N WITH RETROFLEX HOOK=000273" \o
      ";GREEK SMALL REVERSED LUNATE SIGMA SYMBOL=00037B;ARABIC LETTER WAW WITH DOT WITHIN=0008AB" \o
      ";ORIYA VOWEL SIGN U=000B41;TELUGU LETTER DDHA=000C22;CHEROKEE LETTER LU=0013B7" \o
      ";CANADIAN SYLLABICS WEST-CREE SHWA=001522;BUGINESE LETTER TA=001A08;SUNDANESE LETTER A=001B83" \o
      ";LATIN SMALL LETTER S WITH DOT BELOW AND DOT ABOVE=001E69" \o
      ";GREEK CAPITAL LETTER EPSILON WITH PSILI AND OXIA=001F1C" \o
      ";DENTISTRY SYMBOL LIGHT DOWN AND HORIZONTAL WITH CIRCLE=0023C1;MAP SYMBOL FOR LIGHTHOUSE=0026EF" \o
      ";BRAILLE PATTERN DOTS-123467=00286F;BRAILLE PATTERN DOTS-123458=00289F" \o
      ";LEFTWARDS HARPOON WITH BARB DOWN BELOW LONG DASH=00296B;KATAKANA LETTER VU=0030F4" \o
      ";CIRCLED NUMBER THIRTY SIX=0032B1;SQUARE KIROGURAMU=003315;JAVANESE LETTER YA=00A9AA" \o
      ";ARABIC LIGATURE NOON WITH MEEM FINAL FORM=00FC8C" \o
      ";ARABIC LIGATURE QAF WITH MEEM WITH YEH FINAL FORM=00FDB2" \o
      ";ARABIC LIGATURE AIN WITH MEEM WITH YEH FINAL FORM=00FDB6" \o
      ";ARABIC LIGATURE SALAAMUHU ALAYNAA=00FDCF;PHAISTOS DISC SIGN OX BACK=0101F7" \o
      ";GOTHIC LETTER IUJA=010336;SHAVIAN LETTER AWE=010477;VITHKUQI SMALL LETTER LLA=0105AA" \o
      ";HATRAN LETTER HETH=0108E7;MULTANI LETTER DHA=011299;KHUDAWADI LETTER U=0112B4" \o
      ";WARANG CITI SMALL LETTER E=0118C8;ZANABAZAR SQUARE SIGN CANDRABINDU WITH ORNAMENT=011A36" \o
      ";CUNEIFORM SIGN A TIMES SAG=012008;CUNEIFORM SIGN KA TIMES GI=012167" \o
      ";CUNEIFORM SIGN PI TIMES AB=012281;CUNEIFORM SIGN SAG TIMES A=012296" \o
      ";EGYPTIAN HIEROGLYPH AA007B=013415;ANATOLIAN HIEROGLYPH A289A=014545" \o
      ";BAMUM LETTER PHASE-D NSHEE=0168F8;DUPLOYAN LETTER PERNIN AN=01BC65" \o
      ";MATHEMATICAL BOLD FRAKTUR SMALL T=01D599;MATHEMATICAL SANS-SERIF CAPITAL T=01D5B3" \o
      ";SIGNWRITING HAND-CUP OPEN=01D86C;SIGNWRITING HAND-FIST THUMB UNDER THREE FINGERS=01D900" \o
      ";SIGNWRITING MOVEMENT-WALLPLANE CURVE HALF-CIRCLE LARGE=01D98E;PLAYING CARD SIX OF SPADES=01F0A6" \o
      ";SEE-NO-EVIL MONKEY=01F648;TAG LATIN CAPITAL LETTER U=0E0055",
    ";CHARACTER TABULATION WITH JUSTIFICATION=000089;SINGLE SHIFT THREE=00008F" \o
      ";GREEK LETTER SAMPI=0003E0;HEBREW POINT HOLAM=0005B9;GUJARATI LETTER PA=000AAA" \o
      ";TELUGU DIGIT EIGHT=000C6E;TIBETAN DIGIT ZERO=000F20;MYANMAR LETTER JHA=001008" \o
      ";MYANMAR SIGN KHAMTI TONE-1=00109A;GEORGIAN LETTER WE=0010F3;HANGUL JUNGSEONG I=001175" \o
      ";CHEROKEE LETTER LV=0013B8;CHEROKEE LETTER MU=0013BD;CHEROKEE LETTER SO=0013D0" \o
      ";CHEROKEE LETTER YI=0013F1;CANADIAN SYLLABICS WEST-CREE KWII=001479" \o
      ";CANADIAN SYLLABICS WOODS-CREE THO=00159D;NEW TAI LUE LETTER LOW TSA=00198B" \o
      ";MODIFIER LETTER SMALL S WITH HOOK=001DB3;PARENTHESIZED DIGIT EIGHT=00247B" \o
      ";NUMBER NINETEEN FULL STOP=00249A;BOX DRAWINGS UP HEAVY AND LEFT DOWN LIGHT=002526" \o
      ";BOX DRAWINGS DOWN HEAVY AND LEFT UP LIGHT=002527" \o
      ";BOX DRAWINGS DOWN LIGHT AND LEFT UP HEAVY=002529" \o
      ";BOX DRAWINGS UP LIGHT AND LEFT DOWN HEAVY=00252A;TEARDROP-BARBED RIGHTWARDS ARROW=0027BA" \o
      ";BRAILLE PATTERN DOTS-123567=002877;BRAILLE PATTERN DOTS-123468=0028AF" \o
      ";LEFT BARB UP RIGHT BARB UP HARPOON=00294E;GREATER-THAN AND SINGLE-LINE NOT EQUAL TO=002A88" \o
      ";SQUARE WITH TOP HALF BLACK=002B12;TIFINAGH LETTER YE=002D66;PALM BRANCH=002E19" \o
      ";COMBINING CYRILLIC KAVYKA=00A67C;LATIN SMALL LETTER R WITH OBLIQUE STROKE=00A7A7" \o
      ";JAVANESE DIGIT TWO=00A9D2;ARABIC LIGATURE TEH WITH KHAH WITH YEH FINAL FORM=00FDA1" \o
      ";VITHKUQI CAPITAL LETTER U=010590;YEZIDI LETTER KHAF=010E9E;OLD SOGDIAN NUMBER TWENTY=010F23" \o
      ";BRAHMI NUMBER FOUR=011055;CHAKMA DOUBLE DANDA=011142;SINHALA ARCHAIC DIGIT FOUR=0111E4" \o
      ";MAKASAR LETTER NYA=011EEB;CUNEIFORM SIGN PAN=01227C;CUNEIFORM SIGN KA TIMES PA=012384" \o
      ";CUNEIFORM SIGN NINDA2 TIMES URUDA=01252C;ANATOLIAN HIEROGLYPH A299A=014551" \o
      ";BAMUM LETTER PHASE-A LUAEP=01682F;PAHAWH HMONG SIGN VOS FEEM=016B3B" \o
      ";PAHAWH HMONG CLAN SIGN VWJ=016B8F;MEDEFAIDRIN NUMBER TWELVE=016E8C" \o
      ";ZNAMENNY NEUME SKAMEYTSA DVOECHELNAYA SVETLAYA=01CF7A;MATHEMATICAL BOLD FRAKTUR SMALL U=01D59A" \o
      ";MATHEMATICAL SANS-SERIF CAPITAL U=01D5B4;MATHEMATICAL SANS-SERIF DIGIT ONE=01D7E3" \o
      ";SIGNWRITING HAND-FIST INDEX MIDDLE CONJOINED THUMB SIDE=01D82D" \o
      ";LATIN SMALL LETTER O WITH RETROFLEX HOOK=01DF1B;ARABIC MATHEMATICAL STRETCHED YEH=01EE69" \o
      ";PLAYING CARD FOUR OF CLUBS=01F0D4;COOKED RICE=01F35A;LIGHT SIX SPOKED ASTERISK=01F7B5" \o
      ";TAG LATIN CAPITAL LETTER V=0E0056",
    ";GREEK LETTER KOPPA=0003DE;CYRILLIC CAPITAL LETTER HARD SIGN=00042A;HEBREW POINT METEG=0005BD" \o
      ";ARABIC TONE TWO DOTS ABOVE=0008EB;GUJARATI LETTER II=000A88;MYANMAR LETTER KHA=001001" \o
      ";GEORGIAN LETTER ON=0010DD;CHEROKEE LETTER NU=0013C4;CHEROKEE LETTER MV=0013F5" \o
      ";CANADIAN SYLLABICS WEST-CREE LWII=0014E1;MONGOLIAN LETTER E=001821" \o
      ";NEW TAI LUE LETTER LOW SUA=0019AB;BUGINESE LETTER VA=001A13;VULGAR FRACTION ONE SIXTH=002159" \o
      ";XOR=0022BB;ALARM CLOCK=0023F0;BOX DRAWINGS LIGHT ARC UP AND LEFT=00256F" \o
      ";WHITE DOWN POINTING INDEX=00261F;BRAILLE PATTERN DOTS-124567=00287B" \o
      ";BRAILLE PATTERN DOTS-123568=0028B7;BRAILLE PATTERN DOTS-123478=0028CF" \o
      ";RIGHTWARDS ARROW WITH TAIL WITH DOUBLE VERTICAL STROKE=002915;ACUTE ANGLE=00299F" \o
      ";ERROR-BARRED WHITE SQUARE=0029EE" \o
      ";LEFTWARDS TRIANGLE-HEADED ARROW OVER RIGHTWARDS TRIANGLE-HEADED ARROW=002B80" \o
      ";RIGHTWARDS TRIANGLE-HEADED ARROW OVER LEFTWARDS TRIANGLE-HEADED ARROW=002B82;TWO-EM DASH=002E3A" \o
      ";HIRAGANA LETTER YU=003086;SQUARE MU F=00338C;LATIN SMALL LETTER S WITH OBLIQUE STROKE=00A7A9" \o
      ";REJANG LETTER NYJA=00A945;ARABIC LIGATURE LAM WITH MEEM WITH YEH FINAL FORM=00FDAD" \o
      ";COPTIC EPACT NUMBER SIXTY=0102EF;SHAVIAN LETTER YEA=010458" \o
      ";OLD HUNGARIAN SMALL LETTER NIKOLSBURG OE=010CDD;RUMI FRACTION ONE QUARTER=010E7C" \o
      ";GRANTHA SIGN NUKTA=01133C;TAKRI SIGN VISARGA=0116AC;SOYOMBO SUBJOINER=011A99" \o
      ";CUNEIFORM SIGN DUG=012081;CUNEIFORM SIGN EZEN TIMES KASKAL SQUARED=0120AD" \o
      ";CUNEIFORM SIGN GA2 TIMES GAN2 TENU=0120CB;CUNEIFORM SIGN GUD=01211E" \o
      ";CUNEIFORM SIGN KA TIMES ME=012174;CUNEIFORM SIGN KISIM5 OVER KISIM5=0121A9" \o
      ";CUNEIFORM SIGN MAR=012225;CUNEIFORM SIGN SAL=0122A9;CUNEIFORM SIGN SHE=0122BA" \o
      ";BAMUM LETTER PHASE-C MBEUM=01689B;BAMUM LETTER PHASE-E PIEEQ=0169B1" \o
      ";BAMUM LETTER PHASE-F NJUAE=016A1A;KATAKANA LETTER ARCHAIC YI=01B120" \o
      ";BYZANTINE MUSICAL SYMBOL TINAGMA=01D027;MUSICAL SYMBOL WHOLE NOTE=01D15D" \o
      ";MATHEMATICAL BOLD FRAKTUR SMALL V=01D59B;MATHEMATICAL SANS-SERIF CAPITAL V=01D5B5" \o
      ";SIGNWRITING HAND-HINGE INDEX THUMB SMALL=01D8F1;CHEERING MEGAPHONE=01F4E3" \o
      ";MEDIUM GREEK CROSS=01F7A3;NEUTRAL CHESS TURNED PAWN=01FA2F" \o
      ";BOX DRAWINGS LIGHT DIAGONAL MIDDLE LEFT TO UPPER CENTRE TO MIDDLE RIGHT=01FBA7" \o
      ";TAG LATIN CAPITAL LETTER W=0E0057",
    ";SYN=000016;STS=000093;GREEK THETA SYMBOL=0003D1;CYRILLIC CAPITAL LETTER OMEGA WITH TITLO=00047C" \o
      ";DEVANAGARI LETTER CANDRA O=000911;GUJARATI LETTER RA=000AB0" \o
      ";SINHALA VOWEL SIGN KETTI IS-PILLA=000DD2;LAO TONE MAI CATAWA=000ECB" \o
      ";TIBETAN MARK CARET -DZUD RTAGS ME LONG CAN=000F13;TIBETAN LETTER ZHA=000F5E" \o
      ";MYANMAR SIGN KHAMTI TONE-3=00109B;ETHIOPIC DIGIT SIX=00136E;CHEROKEE LETTER NV=0013C5" \o
      ";CANADIAN SYLLABICS WEST-CREE MWII=0014B1;OGHAM LETTER TINNE=001688" \o
      ";TAI THAM CONSONANT SIGN MA=001A5C;DOUBLE CIRCLED DIGIT THREE=0024F7;SOCCER BALL=0026BD" \o
      ";BRAILLE PATTERN DOTS-134567=00287D;BRAILLE PATTERN DOTS-124568=0028BB" \o
      ";BRAILLE PATTERN DOTS-123578=0028D7;BACKSLANTED SOUTH ARROW WITH HOOKED TAIL=002B5B" \o
      ";HIRAGANA LETTER ZU=00305A;KATAKANA LETTER YU=0030E6;HANGUL LETTER RIEUL-MIEUM=00313B" \o
      ";BOPOMOFO LETTER AH=0031BF;SQUARE MU G=00338D;HEXAGRAM FOR BREAKTHROUGH=004DEA" \o
      ";CHAM LETTER FINAL G=00AA41;COPTIC EPACT NUMBER THREE HUNDRED=0102F5" \o
      ";COMBINING OLD PERMIC LETTER NENOE=010379;MULTANI LETTER GHA=011288;TIRHUTA LETTER DDA=01149B" \o
      ";PAU CIN HAU RISING TONE LONG FINAL=011AE8;PAU CIN HAU LOW-FALLING TONE FINAL=011AF7" \o
      ";BHAIKSUKI LETTER O=011C0C;MASARAM GONDI VOWEL SIGN I=011D32;GUNJALA GONDI VOWEL SIGN I=011D8B" \o
      ";CUNEIFORM SIGN DUH=012083;CUNEIFORM SIGN KA TIMES NE=01217A" \o
      ";CUNEIFORM SIGN LAGAB TIMES SHU2 PLUS SHU2=0121E0;CUNEIFORM SIGN LIL=0121F8" \o
      ";CUNEIFORM SIGN PAP=01227D;MUSICAL SYMBOL SHARP DOWN=01D131" \o
      ";MATHEMATICAL BOLD FRAKTUR SMALL W=01D59C;MATHEMATICAL SANS-SERIF CAPITAL W=01D5B6" \o
      ";MATHEMATICAL ITALIC PARTIAL DIFFERENTIAL=01D715" \o
      ";MATHEMATICAL SANS-SERIF BOLD ITALIC NABLA=01D7A9" \o
      ";SIGNWRITING HAND-FIST INDEX MIDDLE THUMB=01D81E;SIGNWRITING HAND-ANGLE INDEX RING LITTLE=01D8C3" \o
      ";SIGNWRITING MOVEMENT-WALLPLANE ARM CIRCLE SMALL SINGLE=01D9E3" \o
      ";SQUARED CJK UNIFIED IDEOGRAPH-89E3=01F216;BLACK TOUCHTONE TELEPHONE=01F57F" \o
      ";UPWARDS TRIANGLE-HEADED ARROW WITH NARROW SHAFT=01F821;NEUTRAL CHESS KING=01FA00" \o
      ";TAG LATIN CAPITAL LETTER X=0E0058",
    ";GREEK CAPITAL LETTER LAMDA=00039B;ARABIC LETTER BEH WITH HAMZA ABOVE=0008A1" \o
      ";GUJARATI LETTER SA=000AB8;SINHALA LETTER ALPAPRAANA BAYANNA=000DB6;LAO LETTER PALI DDA=000E91" \o
      ";MYANMAR LETTER NGA=001004;CANADIAN SYLLABICS WEST-CREE SHWE=001518;SUNDANESE LETTER E=001B88" \o
      ";BATAK LETTER MANDAILING SA=001BDA;MODIFIER LETTER SMALL V WITH HOOK=001DB9;ZWJ=00200D" \o
      ";ROMAN NUMERAL FIVE=002164;ROMAN NUMERAL NINE=002168;TURNED DIGIT THREE=00218B" \o
      ";NEITHER GREATER-THAN NOR EQUAL TO=002271;SQUARE ORIGINAL OF=002290;PROJECTIVE=002305" \o
      ";APL FUNCTIONAL SYMBOL UP TACK JOT=002355;FEMALE SIGN=002640;FOUR CLUB-SPOKED ASTERISK=002725" \o
      ";BRAILLE PATTERN DOTS-234567=00287E;BRAILLE PATTERN DOTS-134568=0028BD" \o
      ";BRAILLE PATTERN DOTS-124578=0028DB;BRAILLE PATTERN DOTS-123678=0028E7;NONFORKING=002ADD" \o
      ";DOWNWARDS TRIANGLE-HEADED ARROW WITH DOUBLE HORIZONTAL STROKE=002B7D;KATAKANA LETTER ZU=0030BA" \o
      ";BOPOMOFO LETTER AI=00311E;BOPOMOFO LETTER EE=0031A4;CIRCLED KATAKANA HA=0032E9" \o
      ";KAYAH LI TONE CALYA PLOPHU=00A92D;MYANMAR SYMBOL AITON EXCLAMATION=00AA77" \o
      ";LATIN SMALL LETTER TURNED OE WITH STROKE=00AB41" \o
      ";ARABIC LIGATURE DAD WITH HAH WITH ALEF MAKSURA FINAL FORM=00FD6E;SMALL PERCENT SIGN=00FE6A" \o
      ";VITHKUQI SMALL LETTER NJE=0105AD;INSCRIPTIONAL PARTHIAN LETTER PE=010B50" \o
      ";KAITHI LETTER TTHA=011098;SINHALA ARCHAIC NUMBER TEN=0111EA;MODI SIGN ANUSVARA=01163D" \o
      ";CUNEIFORM SIGN KA TIMES KI=012170;CUNEIFORM SIGN KA TIMES SA=01217E;CUNEIFORM SIGN KIN=0121A5" \o
      ";CUNEIFORM SIGN PI TIMES U2=012288;CUNEIFORM SIGN UZ3=01235A;CUNEIFORM SIGN ZAG=012360" \o
      ";CUNEIFORM NUMERIC SIGN OLD ASSYRIAN ONE QUARTER=012462;BAMUM LETTER PHASE-E MBEUM=016968" \o
      ";BAMUM LETTER PHASE-E VEUAE=01699D;MONOGRAM FOR EARTH=01D300" \o
      ";MATHEMATICAL BOLD FRAKTUR SMALL X=01D59D;MATHEMATICAL SANS-SERIF CAPITAL X=01D5B7" \o
      ";SIGNWRITING HAND-FIST THUMB BETWEEN RING LITTLE=01D8FD" \o
      ";SIGNWRITING TORSO-WALLPLANE CURVED BEND=01DA73;NYIAKENG PUACHUE HMONG LETTER DLA=01E11D" \o
      ";NYIAKENG PUACHUE HMONG LETTER HAH=01E11F;INDIC SIYAQ NUMBER THIRTY=01EC7C;LADY BEETLE=01F41E" \o
      ";MOOD BUBBLE=01F5F0;CRYING FACE=01F622;HEAVY ARROW SHAFT WIDTH ONE THIRD=01F89F" \o
      ";CHOPSTICKS=01F962;TAG LATIN CAPITAL LETTER Y=0E0059",
    ";STRING TERMINATOR=00009C;SUPERSCRIPT THREE=0000B3;GREEK CAPITAL LUNATE SIGMA SYMBOL=0003F9" \o
      ";GUJARATI LETTER TA=000AA4;GUJARATI DIGIT SIX=000AEC;SINHALA LETTER ALPAPRAANA CAYANNA=000DA0" \o
      ";TIBETAN LETTER RRA=000F6C;CHEROKEE LETTER WO=0013EC;CANADIAN SYLLABICS WEST-CREE CWOO=00149B" \o
      ";RUNIC LETTER ISAZ IS ISS I=0016C1;BUGINESE LETTER YA=001A10;WHITE CHESS BISHOP=002657" \o
      ";WHITE CHESS KNIGHT=002658;BRAILLE PATTERN DOTS-234568=0028BE;BRAILLE PATTERN DOTS-134578=0028DD" \o
      ";BRAILLE PATTERN DOTS-124678=0028EB;LEFTWARDS ARROW FROM BAR TO BLACK DIAMOND=00291F" \o
      ";TIFINAGH LETTER YI=002D49;CJK RADICAL EAT TWO=002EDE;RIGHT DOUBLE ANGLE BRACKET=00300B" \o
      ";BOPOMOFO LETTER CH=003114;HANGUL LETTER MIEUM-PIEUP=00316E;NORTH INDIC QUANTITY MARK=00A839" \o
      ";HEBREW LETTER PE WITH RAFE=00FB4E;ARABIC LIGATURE THEH WITH NOON FINAL FORM=00FC79" \o
      ";ARABIC LIGATURE TAH WITH MEEM WITH YEH FINAL FORM=00FD74;COMBINING MACRON LEFT HALF=00FE24" \o
      ";GREEK ONE HALF SIGN=010175;OSMANYA LETTER KHA=010485;VITHKUQI CAPITAL LETTER Y=010594" \o
      ";MEROITIC CURSIVE LETTER O=0109A3;AVESTAN LETTER NGE=010B22;AVESTAN LETTER HME=010B29" \o
      ";GRANTHA LETTER SSA=011337;GRANTHA SIGN PLUTA=01135D;TIRHUTA LETTER BHA=0114A6" \o
      ";TIRHUTA DIGIT FIVE=0114D5;TIRHUTA DIGIT NINE=0114D9;CUNEIFORM SIGN AL TIMES KI=012026" \o
      ";CUNEIFORM SIGN KA TIMES LI=012172;CUNEIFORM SIGN SIG=0122DD;BAMUM LETTER PHASE-E GHEUN=016995" \o
      ";BASSA VAH LETTER BA=016AE2;BYZANTINE MUSICAL SYMBOL DIARGON=01D099" \o
      ";BYZANTINE MUSICAL SYMBOL MARTYRIA TRITOS ICHOS=01D0A6;MATHEMATICAL BOLD FRAKTUR SMALL Y=01D59E" \o
      ";MATHEMATICAL SANS-SERIF CAPITAL Y=01D5B8;SIGNWRITING HAND-CUP FIVE FINGERS SPREAD=01D853" \o
      ";SIGNWRITING BREATH INHALE=01DA39;NYIAKENG PUACHUE HMONG LETTER NCA=01E10C" \o
      ";OTTOMAN SIYAQ NUMBER FIVE=01ED05;OTTOMAN SIYAQ NUMBER NINE=01ED09;FILE FOLDER=01F4C1" \o
      ";REVERSED THUMBS DOWN SIGN=01F593;FIRE ENGINE=01F692;CONSTRUCTION SIGN=01F6A7;RHINOCEROS=01F98F" \o
      ";TAG LATIN CAPITAL LETTER Z=0E005A",
    ";VTS=00008A;DEGREE SIGN=0000B0;LATIN SMALL LETTER DOTLESS J WITH STROKE=00025F" \o
      ";LATIN SMALL LETTER T WITH RETROFLEX HOOK=000288;ARMENIAN CAPITAL LETTER CA=00053E" \o
      ";ARABIC LETTER HAH WITH HAMZA ABOVE=000681;GUJARATI LETTER AU=000A94" \o
      ";SINHALA LETTER ALPAPRAANA DAYANNA=000DAF;SINHALA VOWEL SIGN DIGA AEDA-PILLA=000DD1" \o
      ";LAO LETTER PALI BHA=000EA0;CANADIAN SYLLABICS WEST-CREE PWII=00143F;MONGOLIAN LETTER I=001822" \o
      ";GREEK SMALL LETTER RHO WITH PSILI=001FE4;LEFTWARDS ARROW WITH TAIL=0021A2;LIGHT SHADE=002591" \o
      ";BRAILLE PATTERN DOTS-234578=0028DE;BRAILLE PATTERN DOTS-134678=0028ED" \o
      ";BRAILLE PATTERN DOTS-125678=0028F3;WHITE LARGE SQUARE=002B1C;CIRCLED NUMBER THIRTY TWO=00325C" \o
      ";ARABIC LIGATURE TEH WITH JEEM WITH YEH FINAL FORM=00FD9F;ARABIC KASRA ISOLATED FORM=00FE7A" \o
      ";MODIFIER LETTER SMALL S WITH CURL=0107BA;GRANTHA LETTER NYA=01131E;NEWA SIGN ANUSVARA=011444" \o
      ";TIRHUTA LETTER CHA=011495;WARANG CITI NUMBER TWENTY=0118EB;MASARAM GONDI SIGN HALANTA=011D44" \o
      ";CUNEIFORM SIGN ISH=012156;CUNEIFORM SIGN KA TIMES IM=01216E;CUNEIFORM SIGN KA TIMES MI=012178" \o
      ";CUNEIFORM SIGN MIN=01222B;CUNEIFORM SIGN NIM=01224F;CUNEIFORM SIGN ZU5=01236B" \o
      ";MATHEMATICAL BOLD FRAKTUR SMALL Z=01D59F;MATHEMATICAL SANS-SERIF CAPITAL Z=01D5B9" \o
      ";MATHEMATICAL BOLD SMALL PI=01D6D1;SIGNWRITING HAND-FIST INDEX THUMB CIRCLE=01D8EB" \o
      ";PLAYING CARD TWO OF SPADES=01F0A2;CLASSICAL BUILDING=01F3DB;HEAVY SIX SPOKED ASTERISK=01F7B8" \o
      ";SIX POINTED PINWHEEL STAR=01F7CD",
    ";ARMENIAN CAPITAL LETTER DA=000534;HEBREW POINT SHEVA=0005B0;HEBREW LETTER AYIN=0005E2" \o
      ";ARABIC LETTER KEHEH WITH THREE DOTS BELOW=00063C;ARABIC LETTER ALEF MAKSURA=000649" \o
      ";SYRIAC LETTER BETH=000712;GURMUKHI LETTER AA=000A06;GUJARATI LETTER VA=000AB5" \o
      ";LAO LETTER PALI CHA=000E89;TIBETAN LETTER SSA=000F65;MYANMAR LETTER PHA=001016" \o
      ";MYANMAR LETTER LLA=001020;HANGUL JUNGSEONG O=001169;CHEROKEE LETTER SU=0013D1" \o
      ";CHEROKEE LETTER YO=0013F2;HANUNOO LETTER NGA=001725;KHMER SIGN CAMNUC PII KUUH=0017D6" \o
      ";OL CHIKI DIGIT FIVE=001C55;OL CHIKI DIGIT NINE=001C59" \o
      ";LATIN SMALL LETTER U WITH RETROFLEX HOOK=001D99;PASSIVE-PULL-DOWN-OUTPUT SYMBOL=002391" \o
      ";BRAILLE PATTERN DOTS-234678=0028EE;BRAILLE PATTERN DOTS-135678=0028F5" \o
      ";LATIN CAPITAL LETTER TURNED ALPHA=002C70;BOPOMOFO LETTER EH=00311D" \o
      ";CIRCLED NUMBER TWENTY SIX=003256;CIRCLED KATAKANA KA=0032D5" \o
      ";CYRILLIC SMALL LETTER DOUBLE MONOCULAR O=00A66D;KAYAH LI DIGIT FIVE=00A905" \o
      ";KAYAH LI DIGIT NINE=00A909;CHAM LETTER FINAL K=00AA40;AEGEAN NUMBER FIVE HUNDRED=01011D" \o
      ";AEGEAN NUMBER NINE HUNDRED=010121;SHAVIAN LETTER OIL=010476;VITHKUQI SMALL LETTER SHE=0105B4" \o
      ";IMPERIAL ARAMAIC LETTER HE=010844;YEZIDI LETTER ELIF=010E80;SHARADA HEADSTROKE=0111DC" \o
      ";MULTANI LETTER KHA=011285;GRANTHA LETTER TTA=01131F;TIRHUTA LETTER DHA=0114A1" \o
      ";DOGRA VOWEL SIGN VOCALIC R=011831;CUNEIFORM SIGN MES=012229;CUNEIFORM SIGN ZIB=012366" \o
      ";CUNEIFORM SIGN NIN=01238F;CUNEIFORM SIGN KA TIMES BU=0124D0;BAMUM LETTER PHASE-C NSHAQ=0168BF" \o
      ";BAMUM LETTER PHASE-E YEUAE=016997;BYZANTINE MUSICAL SYMBOL MARTYRIA PROTOS ICHOS=01D0A2" \o
      ";SIGNWRITING HAND-HINGE INDEX RING LITTLE=01D8C1" \o
      ";SIGNWRITING MOVEMENT-WALLPLANE TRIPLE ALTERNATING WRIST FLEX=01D937" \o
      ";PLAYING CARD SIX OF HEARTS=01F0B6;WATERMELON=01F349;BARBER POLE=01F488" \o
      ";HEAVY DOWNWARDS ARROW WITH LARGE EQUILATERAL ARROWHEAD=01F81F" \o
      ";WHITE CHESS QUEEN ROTATED NINETY DEGREES=01FA0A;NEUTRAL CHESS TURNED ROOK=01FA2C",
    ";STX=000002;COMBINING RIGHT ARROWHEAD AND UP ARROWHEAD BELOW=000356" \o
      ";GREEK CAPITAL LETTER GAMMA=000393;HEBREW LETTER RESH=0005E8;HEBREW LETTER SHIN=0005E9" \o
      ";SYRIAC LETTER KAPH=00071F;GURMUKHI LETTER BA=000A2C;GURMUKHI DIGIT ONE=000A67" \o
      ";TELUGU DIGIT THREE=000C69;LAO LETTER PALI DHA=000E98;TIBETAN LETTER NYA=000F49" \o
      ";TIBETAN LETTER TSA=000F59;MYANMAR VOWEL SIGN SHAN AA=001083;GEORGIAN LETTER UN=0010E3" \o
      ";CHEROKEE LETTER SV=0013D2;CANADIAN SYLLABICS FINAL BOTTOM HALF RING=001421" \o
      ";CANADIAN SYLLABICS WEST-CREE SHWI=00151A;NEW TAI LUE LETTER LOW XVA=0019A9" \o
      ";NEW TAI LUE VOWEL SIGN UEY=0019BF;BALINESE MUSICAL SYMBOL COMBINING KEMPLI=001B6E" \o
      ";SUNDANESE LETTER I=001B84;OL CHIKI LETTER AAJ=001C61;CENTRE LINE SYMBOL=002104" \o
      ";PARENTHESIZED DIGIT THREE=002476;WHITE DRAUGHTS MAN=0026C0;LEFT AND RIGHT TACK=0027DB" \o
      ";BRAILLE PATTERN DOTS-235678=0028F6;BRAILLE PATTERN DOTS-145678=0028F9" \o
      ";CIRCLE WITH TWO HORIZONTAL STROKES TO THE RIGHT=0029C3;AMALGAMATION OR COPRODUCT=002A3F" \o
      ";BOPOMOFO LETTER EI=00311F;BOPOMOFO LETTER AM=0031B0;CIRCLED KATAKANA HE=0032EC" \o
      ";SQUARE MU L=003395;BAMUM COMMA=00A6F5;CHAM LETTER FINAL L=00AA4A" \o
      ";ARABIC LIGATURE REH WITH SUPERSCRIPT ALEF ISOLATED FORM=00FC5C;UGARITIC LETTER HO=010385" \o
      ";VITHKUQI SMALL LETTER THE=0105B6" \o
      ";MODIFIER LETTER SMALL TURNED R WITH LONG LEG AND RETROFLEX HOOK=0107A7" \o
      ";OLD HUNGARIAN SMALL LETTER NIKOLSBURG UE=010CEC;YEZIDI LETTER CHIM=010E87" \o
      ";MULTANI LETTER JJA=01128D;NANDINAGARI VOWEL SIGN VOCALIC RR=0119D7" \o
      ";CUNEIFORM SIGN PI TIMES BI=012282;CUNEIFORM SIGN PI TIMES IB=012286;CUNEIFORM SIGN SAR=0122AC" \o
      ";CUNEIFORM SIGN LAK-617 TIMES URUDA=01250B;TANGSA LETTER HTTA=016AB8" \o
      ";BYZANTINE MUSICAL SYMBOL ELAFRON=01D055;MATHEMATICAL SANS-SERIF BOLD ITALIC KAPPA SYMBOL=01D7C6" \o
      ";SIGNWRITING EYEGAZE-FLOORPLANE STRAIGHT DOUBLE=01DA25" \o
      ";COMBINING GLAGOLITIC LETTER INITIAL IZHE=01E00A;INDIC SIYAQ NUMBER PREFIXED EIGHT=01ECAA" \o
      ";SQUARED CJK UNIFIED IDEOGRAPH-53CC=01F212;SQUARED CJK UNIFIED IDEOGRAPH-4EA4=01F218",
    ";GREEK SMALL LETTER ETA WITH TONOS=0003AE;CYRILLIC SMALL LETTER ZHE WITH DIAERESIS=0004DD" \o
      ";ARABIC LETTER AFRICAN NOON=0008BD;GURMUKHI LETTER CA=000A1A" \o
      ";SINHALA LETTER ALPAPRAANA GAYANNA=000D9C;TIBETAN LETTER TTA=000F4A;ETHIOPIC DIGIT TWO=00136A" \o
      ";CANADIAN SYLLABICS WEST-CREE SWII=0014FB;KHMER SYMBOL LEK ATTAK PII=0017F2" \o
      ";TAI THAM CONSONANT SIGN SA=001A5E;OL CHIKI LETTER AAK=001C60;OL CHIKI LETTER EDD=001C70" \o
      ";UPWARDS ARROW WITH DOUBLE STROKE=0021DE;ALL AROUND-PROFILE=00232E;TOP SQUARE BRACKET=0023B4" \o
      ";CAR SLIDING=0026D0;UMBRELLA ON GROUND=0026F1;WHITE-FEATHERED RIGHTWARDS ARROW=0027B3" \o
      ";BRAILLE PATTERN DOTS-245678=0028FA;ERROR-BARRED BLACK DIAMOND=0029F1" \o
      ";GLAGOLITIC CAPITAL LETTER BIG YUS=002C28;BOPOMOFO LETTER AN=003122" \o
      ";HANGUL LETTER RIEUL-PIEUP=00313C;BOPOMOFO LETTER GH=0031B8;CIRCLED KATAKANA MA=0032EE" \o
      ";SQUARE MU M=00339B;MEETEI MAYEK VOWEL SIGN II=00AAEB" \o
      ";ARABIC LIGATURE TEH WITH MEEM WITH YEH FINAL FORM=00FDA3;HATRAN LETTER SHIN=0108F4" \o
      ";MEROITIC CURSIVE FRACTION FOUR TWELFTHS=0109F9;INSCRIPTIONAL PAHLAVI LETTER TAW=010B72" \o
      ";ELYMAIC LETTER TAW=010FF5;SHARADA CONTINUATION SIGN=0111DD;NEWA SIDDHI=01144A" \o
      ";MODI VOWEL SIGN VOCALIC LL=011638;BHAIKSUKI LETTER U=011C04;MASARAM GONDI VOWEL SIGN O=011D3D" \o
      ";CUNEIFORM SIGN DUN=012084;CUNEIFORM SIGN EN TIMES ME=01209A;CUNEIFORM SIGN KA TIMES PI=01217C" \o
      ";CUNEIFORM SIGN KA TIMES UD=012189;CUNEIFORM SIGN TAR=0122FB;CUNEIFORM SIGN ZU5 TIMES A=01236C" \o
      ";BAMUM LETTER PHASE-A TUAEP=01682E;BAMUM LETTER PHASE-D KWAET=016921" \o
      ";BAMUM LETTER PHASE-E GBEUX=0169B5;BASSA VAH LETTER FA=016AD3" \o
      ";ZNAMENNY COMBINING MARK MALO POVYSHE S KHOKHLOM ON LEFT=01CF09;MUSICAL SYMBOL NATURAL UP=01D12E" \o
      ";TETRAGRAM FOR ENLARGEMENT=01D333;MATHEMATICAL BOLD ITALIC CAPITAL A=01D468" \o
      ";MATHEMATICAL BOLD CAPITAL OMICRON=01D6B6;MATHEMATICAL SANS-SERIF BOLD CAPITAL BETA=01D757" \o
      ";SIGNWRITING HAND-FIST MIDDLE RING LITTLE=01D8CD" \o
      ";SIGNWRITING MOVEMENT-FLOORPLANE SINGLE STRAIGHT SMALL=01D965" \o
      ";SQUARED CJK UNIFIED IDEOGRAPH-4E2D=01F22D;ALCHEMICAL SYMBOL FOR AQUA VITAE-2=01F709" \o
      ";INVERSE CHECKER BOARD FILL=01FB96",
    ";INVERTED EXCLAMATION MARK=0000A1;COMBINING LEFT ANGLE BELOW=000349;HEBREW POINT SEGOL=0005B6" \o
      ";SYRIAC HARKLEAN METOBELUS=00070C;GURMUKHI LETTER DA=000A26;GUJARATI LETTER YA=000AAF" \o
      ";LEFT-FACING SVASTI SIGN WITH DOTS=000FD8;MYANMAR LETTER SHA=001050" \o
      ";CANADIAN SYLLABICS WEST-CREE TWII=00145C;RUNIC LETTER KAUNA=0016B2;SUNDANESE AVAGRAHA=001BBA" \o
      ";OL CHIKI LETTER LAA=001C5F;GREEK VARIA=001FEF" \o
      ";DENTISTRY SYMBOL LIGHT VERTICAL AND BOTTOM LEFT=0023CC;BRAILLE PATTERN DOTS-345678=0028FC" \o
      ";KANGXI RADICAL FACE=002FAF;CIRCLED KATAKANA NA=0032E4;CHAM LETTER FINAL N=00AA46" \o
      ";MODIFIER LETTER SMALL L WITH MIDDLE TILDE=00AB5E" \o
      ";ARABIC LIGATURE KHAH WITH ALEF MAKSURA FINAL FORM=00FD1F" \o
      ";MEROITIC HIEROGLYPHIC LETTER NA-2=01098B;SOGDIAN LETTER TAW=010F42" \o
      ";SHARADA SIGN INVERTED CANDRABINDU=0111CF;KHOJKI LETTER TTHA=011215;TIRHUTA LETTER GHA=011492" \o
      ";WARANG CITI SMALL LETTER O=0118C9;ZANABAZAR SQUARE CLUSTER-FINAL LETTER LA=011A3D" \o
      ";SOYOMBO LETTER DDA=011A68;CUNEIFORM SIGN DAG KISIM5 TIMES GA=01205B" \o
      ";CUNEIFORM SIGN E TIMES PAP=01208B;CUNEIFORM SIGN GA2 TIMES AB2 TENU PLUS TAB=0120BB" \o
      ";CUNEIFORM SIGN GUL=012122;CUNEIFORM SIGN TA TIMES HI=0122ED" \o
      ";CUNEIFORM NUMERIC SIGN FOUR GESH2=012418;BAMUM LETTER PHASE-C NGGUM=0168BB" \o
      ";BAMUM LETTER PHASE-E TUMAE=016999;BAMUM LETTER PHASE-E SUAEN=01699B;BASSA VAH LETTER CE=016ADF" \o
      ";BYZANTINE MUSICAL SYMBOL KENTIMA NEO ANO=01D04F;MUSICAL SYMBOL WHOLE REST=01D13B" \o
      ";TETRAGRAM FOR AGGRAVATION=01D351;MATHEMATICAL BOLD ITALIC CAPITAL B=01D469" \o
      ";SQUARED CJK UNIFIED IDEOGRAPH-7A7A=01F233;SLEEPY FACE=01F62A",
    ";DIGIT EIGHT=000038;GREEK SMALL LETTER IOTA WITH DIALYTIKA AND TONOS=000390" \o
      ";GREEK CAPITAL LETTER ALPHA=000391;GUJARATI DIGIT TWO=000AE8;ORIYA SIGN VISARGA=000B03" \o
      ";LAO LETTER PALI GHA=000E86;MYANMAR LETTER NNA=00100F;MYANMAR LETTER THA=001011" \o
      ";MYANMAR VOWEL SIGN TALL AA=00102B;MYANMAR DIGIT FOUR=001044;CHEROKEE LETTER WU=0013ED" \o
      ";OL CHIKI LETTER AAM=001C62;GREEK CAPITAL LETTER UPSILON WITH DASIA AND PERISPOMENI=001F5F" \o
      ";GREEK CAPITAL LETTER UPSILON WITH MACRON=001FE9;FIGURE DASH=002012;WHITE DIAMOND SUIT=002662" \o
      ";LOWER RIGHT PENCIL=00270E;TIFINAGH LETTER YO=002D67;BOPOMOFO LETTER IH=00312D" \o
      ";CIRCLED IDEOGRAPH ALLIANCE=0032AF;CIRCLED KATAKANA KE=0032D8" \o
      ";IDEOGRAPHIC TELEGRAPH SYMBOL FOR DAY TWENTY-SIX=0033F9;HANGUL CHOSEONG RIEUL-SSANGPIEUP=00A96A" \o
      ";LATIN SMALL LETTER LENIS F=00AB35;ARABIC LIGATURE YEH WITH JEEM WITH YEH FINAL FORM=00FDAF" \o
      ";HATRAN LETTER YODH=0108E9;AVESTAN LETTER SHE=010B31;NEWA VOWEL SIGN VOCALIC LL=01143D" \o
      ";SOYOMBO VOWEL LENGTH MARK=011A5B;CUNEIFORM SIGN BUR=012053" \o
      ";CUNEIFORM SIGN DAG KISIM5 TIMES HA=012060;CUNEIFORM SIGN GUM=012123;CUNEIFORM SIGN LUH=01221B" \o
      ";CUNEIFORM SIGN MUG=01222E;CUNEIFORM SIGN TIL=012300;CUNEIFORM SIGN UR2 TIMES A PLUS HA=01232C" \o
      ";MEDEFAIDRIN SMALL LETTER A=016E6D;HIRAGANA LETTER ARCHAIC WU=01B11F" \o
      ";ZNAMENNY NEUME PODCHASHIE=01CF70;ZNAMENNY NEUME SKAMEYTSA DVOECHELNAYA PROSTAYA=01CF79" \o
      ";BYZANTINE MUSICAL SYMBOL FANEROSIS TETRAFONIAS=01D0AE;MATHEMATICAL BOLD ITALIC CAPITAL C=01D46A" \o
      ";SIGNWRITING CHEEKS PUFFED=01DA2A;SIGNWRITING BREATH EXHALE=01DA3A;ADLAM NUKTA=01E94A" \o
      ";INDIC SIYAQ NUMBER TWENTY=01EC7B;MONKEY FACE=01F435;TELEVISION=01F4FA" \o
      ";ALCHEMICAL SYMBOL FOR COPPER ANTIMONIATE=01F725;ALCHEMICAL SYMBOL FOR BISMUTH ORE=01F73E" \o
      ";LEAFY GREEN=01F96C;HEART HANDS=01FAF6",
    ";LATIN SMALL LETTER Z WITH RETROFLEX HOOK=000290;GURMUKHI LETTER FA=000A5E" \o
      ";TELUGU LENGTH MARK=000C55;SINHALA LETTER ALPAPRAANA JAYANNA=000DA2" \o
      ";THAI CHARACTER PHO SAMPHAO=000E20;GEORGIAN LETTER YN=0010F7;CHEROKEE LETTER WV=0013EE" \o
      ";MONGOLIAN LETTER O=001823;MODIFIER LETTER CAPITAL AE=001D2D" \o
      ";APL FUNCTIONAL SYMBOL QUAD CIRCLE=00233C;DOUBLE CIRCLED DIGIT SEVEN=0024FB" \o
      ";RIGHTWARDS ARROW WITH PLUS BELOW=002945;PROSERPINA=002BD8;CIRCLED KATAKANA HI=0032EA" \o
      ";IDEOGRAPHIC TELEGRAPH SYMBOL FOR HOUR SEVENTEEN=003369;KAYAH LI TONE CALYA=00A92C" \o
      ";CHAM LETTER FINAL P=00AA47;COPTIC EPACT NUMBER SEVEN HUNDRED=0102F9;SHAVIAN LETTER ERR=01047B" \o
      ";CYPRIOT SYLLABLE A=010800;HATRAN LETTER TETH=0108E8" \o
      ";MEROITIC CURSIVE NUMBER NINETY THOUSAND=0109EC;AVESTAN LETTER THE=010B1A" \o
      ";AVESTAN LETTER NNE=010B27;ELYMAIC LETTER WAW=010FE5;MULTANI LETTER PHA=01129C" \o
      ";DIVES AKURU VIRAMA=01193E;SOYOMBO LETTER BHA=011A73;CUNEIFORM SIGN KA TIMES GU=01216B" \o
      ";CUNEIFORM SIGN ZIG=012368;CUNEIFORM SIGN LAK-648 TIMES URUDA=012516" \o
      ";BAMUM LETTER PHASE-C NDEUT=0168BD;BAMUM LETTER PHASE-E MFEUQ=0169AF" \o
      ";BAMUM LETTER PHASE-E NDAA MY HOUSE=0169DD;BASSA VAH LETTER EE=016AEB" \o
      ";MEDEFAIDRIN SMALL LETTER B=016E70;KATAKANA LETTER ARCHAIC WU=01B122" \o
      ";BYZANTINE MUSICAL SYMBOL PETASMA=01D041;TETRAGRAM FOR GUARDEDNESS=01D33E" \o
      ";MATHEMATICAL BOLD ITALIC CAPITAL D=01D46B;MATHEMATICAL BOLD CAPITAL EPSILON=01D6AC" \o
      ";SIGNWRITING HAND-CIRCLE MIDDLE UP=01D8C7;SIGNWRITING FLICK SMALL MULTIPLE=01D91E" \o
      ";GREEN APPLE=01F34F;RIGHT SPEAKER WITH ONE SOUND WAVE=01F569;FRAME WITH PICTURE=01F5BC",
    ";LATIN SMALL LETTER TURNED M WITH LONG LEG=000270;GREEK LETTER ARCHAIC KOPPA=0003D8" \o
      ";ARMENIAN CAPITAL LETTER JA=000541;ARMENIAN FULL STOP=000589;HEBREW POINT HIRIQ=0005B4" \o
      ";SYRIAC LETTER HETH=00071A;GURMUKHI LETTER GA=000A17;SINHALA LETTER ALPAPRAANA KAYANNA=000D9A" \o
      ";TIBETAN SIGN NYI ZLA NAA DA=000F82;HANGUL JUNGSEONG U=00116E;CHEROKEE LETTER YU=0013F3" \o
      ";CANADIAN SYLLABICS WEST-CREE KWOO=00147D;KHMER SIGN TRIISAP=0017CA" \o
      ";MODIFIER LETTER SMALL Z WITH CURL=001DBD" \o
      ";GREEK CAPITAL LETTER ETA WITH PSILI AND PERISPOMENI AND PROSGEGRAMMENI=001F9E" \o
      ";LEFTWARDS ARROW WITH HOOK=0021A9;COPTIC CAPITAL LETTER ALFA=002C80" \o
      ";TIFINAGH CONSONANT JOINER=002D7F;KANGXI RADICAL HEAD=002FB8;BOPOMOFO LETTER EN=003123" \o
      ";BOPOMOFO LETTER JI=0031A2;CIRCLED NUMBER TWENTY TWO=003252;CIRCLED KATAKANA ME=0032F1" \o
      ";MEETEI MAYEK VOWEL SIGN AU=00AAEE;HANGUL JONGSEONG PHIEUPH-THIEUTH=00D7FB" \o
      ";SOGDIAN LETTER WAW=010F34;CHAKMA VOWEL SIGN A=011127;TIRHUTA LETTER JHA=011497" \o
      ";SOYOMBO LETTER CHA=011A62;CANADIAN SYLLABICS NATTILIK SHRAA=011ABB" \o
      ";CUNEIFORM SIGN DAG KISIM5 TIMES BI=01205A;CUNEIFORM SIGN SHA3 TIMES U PLUS A=0122B6" \o
      ";CUNEIFORM NUMERIC SIGN SEVEN VARIANT FORM IMIN A=012442;BAMUM LETTER PHASE-C MBEUX=0168E1" \o
      ";BAMUM LETTER PHASE-D WUAEN=0168FB;TANGSA LETTER UIUC=016A99;MEDEFAIDRIN SMALL LETTER C=016E71" \o
      ";ZNAMENNY COMBINING MARK POVYSHE STRANNO=01CF1C;TETRAGRAM FOR HOLDING BACK=01D316" \o
      ";TETRAGRAM FOR LAW OR MODEL=01D32D;MATHEMATICAL BOLD ITALIC CAPITAL E=01D46C" \o
      ";SIGNWRITING SQUEEZE LARGE SINGLE=01D916;SIGNWRITING TEETH ON LIPS=01DA65" \o
      ";NYIAKENG PUACHUE HMONG LETTER NKA=01E107;NYIAKENG PUACHUE HMONG LETTER MLA=01E120" \o
      ";PLAYING CARD TWO OF HEARTS=01F0B2;ANTICLOCKWISE DOWNWARDS AND UPWARDS OPEN CIRCLE ARROWS=01F504" \o
      ";LARGE BROWN SQUARE=01F7EB",
    ";APOSTROPHE=000027;LATIN LETTER GLOTTAL STOP=000294;GREEK CAPITAL LETTER OMEGA=0003A9" \o
      ";SYRIAC LETTER QAPH=000729;ARABIC TONE TWO DOTS BELOW=0008EE;GURMUKHI LETTER HA=000A39" \o
      ";LAO LETTER PALI JHA=000E8C;TIBETAN MARK BSKUR YIG MGO=000F09;MYANMAR VOWEL SIGN E ABOVE=001035" \o
      ";CHEROKEE LETTER YV=0013F4;CANADIAN SYLLABICS WEST-CREE LWOO=0014E5" \o
      ";CANADIAN SYLLABICS WEST-CREE SHWO=00151E;SUNDANESE LETTER O=001B87;SUPERSCRIPT SEVEN=002077" \o
      ";COMBINING LEFTWARDS HARPOON WITH BARB DOWNWARDS=0020ED;RIGHT ANGLE=00221F" \o
      ";NUMBER THIRTEEN FULL STOP=002494;UPPER RIGHT PENCIL=002710" \o
      ";ARROW POINTING RIGHTWARDS THEN CURVING UPWARDS=002934;UPWARDS BLACK CIRCLED WHITE ARROW=002B89" \o
      ";BOPOMOFO LETTER LH=0031B9;BOPOMOFO LETTER OE=0031BE;CIRCLED KATAKANA NE=0032E7" \o
      ";CIRCLED KATAKANA RA=0032F6;CHAM LETTER FINAL R=00AA49" \o
      ";ARABIC LIGATURE NOON WITH ZAIN FINAL FORM=00FC8B" \o
      ";ARABIC LIGATURE YEH WITH MEEM WITH YEH FINAL FORM=00FDB0" \o
      ";ARABIC LIGATURE LAM WITH ALEF WITH HAMZA ABOVE FINAL FORM=00FEF8" \o
      ";FULLWIDTH LEFT WHITE PARENTHESIS=00FF5F;OLD PERSIAN SIGN BA=0103B2" \o
      ";OLD PERSIAN NUMBER TWENTY=0103D4;SHAVIAN LETTER WOE=010462;OSMANYA DIGIT FOUR=0104A4" \o
      ";MODIFIER LETTER SMALL CAPITAL L WITH BELT=01079C;MEROITIC HIEROGLYPHIC LETTER NE-2=01098D" \o
      ";MEROITIC HIEROGLYPHIC LETTER RA-2=01098F;INSCRIPTIONAL PAHLAVI LETTER NUN=010B6D" \o
      ";OLD SOGDIAN LETTER ALTERNATE AYIN=010F13;ELYMAIC LETTER NUN=010FED;MULTANI LETTER RHA=0112A8" \o
      ";TIRHUTA LETTER KHA=011490;SOYOMBO LETTER DHA=011A6E;MAKASAR PASSIMBANG=011EF7" \o
      ";CUNEIFORM SIGN KUL=0121B0;CUNEIFORM SIGN SIG4 OVER SIG4 SHU2=0122DF;CUNEIFORM SIGN SUD=0122E4" \o
      ";CUNEIFORM NUMERIC SIGN EIGHT DISH=01240D" \o
      ";CUNEIFORM NUMERIC SIGN SEVEN VARIANT FORM IMIN B=012443;CUNEIFORM SIGN MI PLUS ZA7=01251F" \o
      ";BAMUM LETTER PHASE-C SUAET=0168AF;BAMUM LETTER PHASE-D MFEUT=016908;BASSA VAH LETTER KA=016AD1" \o
      ";PAHAWH HMONG SIGN ZWJ THAJ=016B67;MEDEFAIDRIN SMALL LETTER D=016E79" \o
      ";BYZANTINE MUSICAL SYMBOL RAPISMA=01D03C;BYZANTINE MUSICAL SYMBOL ENARXIS KAI FTHORA VOU=01D0B6" \o
      ";TETRAGRAM FOR ON THE VERGE=01D353;MATHEMATICAL BOLD ITALIC CAPITAL F=01D46D" \o
      ";MATHEMATICAL BOLD SMALL XI=01D6CF;SIGNWRITING MOVEMENT-WALLPLANE CURVE HALF-CIRCLE SMALL=01D98C" \o
      ";SIGNWRITING MOVEMENT-FLOORPLANE CURVE COMBINED=01D9D9;SIGNWRITING MOUTH OPEN OVAL YAWN=01DA49" \o
      ";SQUARED CJK UNIFIED IDEOGRAPH-4E8C=01F214;SQUARED CJK UNIFIED IDEOGRAPH-5DE6=01F22C" \o
      ";GREEN HEART=01F49A;CLOSED BOOK=01F4D5",
    ";GREEK CAPITAL LETTER DELTA=000394;CYRILLIC CAPITAL LETTER KOMI DZJE=000506" \o
      ";ARMENIAN CAPITAL LETTER EH=000537;ARABIC LETTER AIN WITH TWO DOTS VERTICALLY ABOVE=00075F" \o
      ";GURMUKHI LETTER EE=000A0F;GURMUKHI LETTER AI=000A10" \o
      ";TELUGU FRACTION DIGIT TWO FOR ODD POWERS OF FOUR=000C7A;MYANMAR DIGIT ZERO=001040" \o
      ";CANADIAN SYLLABICS WEST-CREE MWOO=0014B5;CANADIAN SYLLABICS WEST-CREE YWII=001534" \o
      ";TWO ASTERISKS ALIGNED VERTICALLY=002051;UPWARDS ARROW WITH TIP LEFTWARDS=0021B0" \o
      ";LESS-THAN BUT NOT EQUAL TO=002268;APL FUNCTIONAL SYMBOL QUAD DIVIDE=002339;BLACK TRUCK=0026DF" \o
      ";THREE-D TOP-LIGHTED RIGHTWARDS ARROWHEAD=0027A2;REVERSE SOLIDUS PRECEDING SUBSET=0027C8" \o
      ";RIGHTWARDS ARROW TO BLACK DIAMOND=00291E;DOUBLE-LINE SLANTED EQUAL TO OR LESS-THAN=002A9B" \o
      ";DOUBLE-LINE SLANTED LESS-THAN OR EQUAL TO=002AF9;LEFTWARDS ARROW WITH TIP UPWARDS=002B11" \o
      ";KANGXI RADICAL JADE=002F5F;BOPOMOFO LETTER NG=00312B;BOPOMOFO LETTER GN=00312C" \o
      ";HANGUL LETTER KIYEOK-SIOS=003133;HANGUL LETTER SIOS-KIYEOK=00317A" \o
      ";IDEOGRAPHIC TELEGRAPH SYMBOL FOR OCTOBER=0032C9;CIRCLED KATAKANA KI=0032D6" \o
      ";CIRCLED KATAKANA SA=0032DA;SQUARE MU S=0033B2" \o
      ";ARABIC LIGATURE JEEM WITH ALEF MAKSURA FINAL FORM=00FD1D" \o
      ";ARABIC LIGATURE NOON WITH HAH WITH YEH FINAL FORM=00FDB3;SMALL COMMA=00FE50" \o
      ";ROMAN SILIQUA SIGN=010195;OLD ITALIC LETTER A=010300;OLD PERSIAN SIGN CA=0103A8" \o
      ";DESERET CAPITAL LETTER BEE=010412;IMPERIAL ARAMAIC LETTER PE=010850" \o
      ";NABATAEAN LETTER FINAL NUN=010894;HATRAN LETTER QOPH=0108F2" \o
      ";MEROITIC HIEROGLYPHIC LETTER SA-2=010994;SOGDIAN LETTER NUN=010F3B;BRAHMI DOUBLE DANDA=011048" \o
      ";MASARAM GONDI VOWEL SIGN U=011D34;GUNJALA GONDI VOWEL SIGN U=011D8D" \o
      ";CUNEIFORM SIGN DAG KISIM5 TIMES LA=012064;CUNEIFORM SIGN LUL=01221C" \o
      ";CUNEIFORM SIGN TA TIMES MI=0122EE;BAMUM LETTER PHASE-B MBUOQ=016884" \o
      ";BAMUM LETTER PHASE-C NJUEQ=0168AD;BAMUM LETTER PHASE-E GHEUX=016988" \o
      ";BAMUM LETTER PHASE-E NGGUP=0169D0;MEDEFAIDRIN SMALL LETTER E=016E6F;DUPLOYAN LETTER EE=01BC4B" \o
      ";MAYAN NUMERAL FOUR=01D2E4;MATHEMATICAL BOLD ITALIC CAPITAL G=01D46E" \o
      ";MATHEMATICAL BOLD SMALL MU=01D6CD;SIGNWRITING HAND-FIST INDEX THUMB SIDE BOTH BENT=01D8E2" \o
      ";SIGNWRITING MOVEMENT-FLOORPLANE FINGER CONTACT=01D929;INDIC SIYAQ NUMBER PREFIXED THREE=01ECA5" \o
      ";SQUARED CJK UNIFIED IDEOGRAPH-8CA9=01F223;FILM FRAMES=01F39E;ALCHEMICAL SYMBOL FOR FIRE=01F702" \o
      ";ALCHEMICAL SYMBOL FOR GOLD=01F71A",
    ";GREEK SMALL LETTER DIGAMMA=0003DD;ARABIC LETTER KEHEH WITH DOT ABOVE=000762" \o
      ";GURMUKHI LETTER JA=000A1C;TELUGU SIGN VIRAMA=000C4D;GEORGIAN CAPITAL LETTER HE=0010C1" \o
      ";RUNIC LETTER WUNJO WYNN W=0016B9;BALINESE VOWEL SIGN TALING TEDUNG=001B40" \o
      ";APL FUNCTIONAL SYMBOL UP SHOE JOT=00235D;CROSS OF JERUSALEM=002629" \o
      ";LEFT SQUARE BRACKET WITH UNDERBAR=00298B;LEFTWARDS TWO-HEADED ARROW WITH VERTICAL STROKE=002B34" \o
      ";BOPOMOFO LETTER AU=003120;BOPOMOFO LETTER IM=0031AC;PARENTHESIZED IDEOGRAPH FESTIVAL=003240" \o
      ";CIRCLED IDEOGRAPH MEDICINE=0032A9;CIRCLED KATAKANA TA=0032DF;MODIFIER LETTER US=00A770" \o
      ";KAYAH LI LETTER KHA=00A90B;JAVANESE PADA ANDAP=00A9C3;CHAM LETTER FINAL T=00AA45" \o
      ";LATIN SMALL LETTER OPEN OE=00AB62;ARABIC LETTER RNOON ISOLATED FORM=00FBA0" \o
      ";GREEK ACROPHONIC TROEZENIAN FIVE HUNDRED=01016D;OLD PERSIAN SIGN DA=0103AD" \o
      ";CYPRIOT SYLLABLE E=010801;MEROITIC HIEROGLYPHIC LETTER TA-2=010999" \o
      ";INSCRIPTIONAL PAHLAVI NUMBER TWO=010B79;CHAKMA LETTER DDHAA=011114;MULTANI LETTER NNA=011295" \o
      ";MULTANI LETTER THA=011297;TIRHUTA LETTER NGA=011493" \o
      ";ZANABAZAR SQUARE CLUSTER-FINAL LETTER RA=011A3C;CUNEIFORM SIGN GUR=012125" \o
      ";CUNEIFORM SIGN KUN=0121B2;CUNEIFORM SIGN LUM=01221D;CUNEIFORM SIGN NE TIMES UD=01224A" \o
      ";BAMUM LETTER PHASE-B PARUM=016872;BAMUM LETTER PHASE-D NGKUN=0168FC" \o
      ";BAMUM LETTER PHASE-D NJUEQ=016947;BAMUM LETTER PHASE-E NGKUM=0169CB" \o
      ";BAMUM LETTER PHASE-E YUAEN=0169E1;MEDEFAIDRIN SMALL LETTER F=016E6A" \o
      ";ZNAMENNY NEUME SKAMEYTSA TIKHAYA=01CF74;MUSICAL SYMBOL COMBINING ACCENT-STACCATO=01D181" \o
      ";MATHEMATICAL BOLD ITALIC CAPITAL H=01D46F;MATHEMATICAL BOLD SMALL NU=01D6CE" \o
      ";SIGNWRITING CHEEKS SUCKED=01DA2C;NYIAKENG PUACHUE HMONG LETTER PLA=01E121" \o
      ";NYIAKENG PUACHUE HMONG DIGIT FOUR=01E144;SQUARED CJK UNIFIED IDEOGRAPH-5F8C=01F21D" \o
      ";ORANGE BOOK=01F4D9;DEAF PERSON=01F9CF;NEUTRAL CHESS PAWN=01FA05",
    ";ARMENIAN SMALL LETTER GHAD=000572;GURMUKHI LETTER KA=000A15;TELUGU DIGIT SEVEN=000C6D" \o
      ";CIRCLED ASTERISK OPERATOR=00229B;DENTISTRY SYMBOL LIGHT UP AND HORIZONTAL WITH TRIANGLE=0023C5" \o
      ";BLACK UP-POINTING DOUBLE TRIANGLE=0023EB;PARENTHESIZED DIGIT SEVEN=00247A;LARGER THAN=002AAB" \o
      ";SUPERSET OF ABOVE ALMOST EQUAL TO=002ACA;OVERLAPPING BLACK SQUARES=002BBC" \o
      ";TIFINAGH LETTER YU=002D53;LEFT DOTTED SUBSTITUTION BRACKET=002E04;KANGXI RADICAL BEAN=002F96" \o
      ";BOPOMOFO LETTER ER=003126;BOPOMOFO LETTER BU=0031A0;CIRCLED KATAKANA MI=0032EF" \o
      ";IDEOGRAPHIC TELEGRAPH SYMBOL FOR DAY TWENTY-TWO=0033F5;LATIN SMALL LETTER INVERTED ALPHA=00AB64" \o
      ";LINEAR B IDEOGRAM B105F MARE=010084;DESERET CAPITAL LETTER DEE=010414" \o
      ";CHAKMA VOWEL SIGN E=01112C;TIRHUTA ABBREVIATION SIGN=0114C6;SOYOMBO LETTER GHA=011A5F" \o
      ";CUNEIFORM SIGN KA TIMES LU=012173;CUNEIFORM SIGN KI TIMES UD=0121A3;CUNEIFORM SIGN TIR=012301" \o
      ";CUNEIFORM SIGN UR2 TIMES A PLUS NA=01232D;CUNEIFORM NUMERIC SIGN FOUR SHAR2=012426" \o
      ";BAMUM LETTER PHASE-B WUAET=016876;BAMUM LETTER PHASE-D NDEUX=016909" \o
      ";BAMUM LETTER PHASE-E NSHUE=016981;MEDEFAIDRIN SMALL LETTER G=016E69;DUPLOYAN LETTER DH=01BC13" \o
      ";MUSICAL SYMBOL FINGERED TREMOLO-1=01D16A;MUSICAL SYMBOL TURN SLASH=01D199" \o
      ";MATHEMATICAL BOLD ITALIC CAPITAL I=01D470" \o
      ";MATHEMATICAL SANS-SERIF BOLD ITALIC THETA SYMBOL=01D7C5;SIGNWRITING MOUTH CLOSED CONTACT=01DA3D" \o
      ";BABY BOTTLE=01F37C;ALCHEMICAL SYMBOL FOR CALX=01F74C",
    ";DIGIT THREE=000033;LATIN CAPITAL LETTER GAMMA=000194" \o
      ";LATIN SMALL LETTER TURNED R WITH LONG LEG=00027A;GREEK CAPITAL LETTER KAPPA=00039A" \o
      ";GURMUKHI LETTER LA=000A32;TAMIL AS ABOVE SIGN=000BF8;SINHALA LETTER ALPAPRAANA PAYANNA=000DB4" \o
      ";TIBETAN SUBJOINED SIGN LCE TSA CAN=000F8D;GEORGIAN CAPITAL LETTER AN=0010A0" \o
      ";CANADIAN SYLLABICS WEST-CREE PWOO=001443;MONGOLIAN LETTER U=001824;OL CHIKI LETTER ANG=001C5D" \o
      ";BOTTOM LEFT CORNER=00231E;HYSTERESIS SYMBOL=00238E;BOX DRAWINGS LIGHT DIAGONAL CROSS=002573" \o
      ";MUSIC NATURAL SIGN=00266E;RIGHT-HANDED INTERLACED PENTAGRAM=0026E5;CJK RADICAL NET TWO=002EB2" \o
      ";CIRCLED KATAKANA NI=0032E5;CIRCLED KATAKANA HO=0032ED;CIRCLED KATAKANA RE=0032F9" \o
      ";SQUARE GIGA=003310;SQUARE MU V=0033B6;MODIFIER LETTER SMALL LIGATURE OE=00A7F9" \o
      ";KAYAH LI LETTER NGA=00A90D;LINEAR B SYMBOL B022=010052;OLD PERSIAN SIGN FA=0103B3" \o
      ";OSMANYA DIGIT ZERO=0104A0;AVESTAN LETTER ZHE=010B32;HANIFI ROHINGYA LETTER DDA=010D0B" \o
      ";ZANABAZAR SQUARE LETTER -A=011A29;CUNEIFORM SIGN DAG KISIM5 TIMES GI=01205D" \o
      ";CUNEIFORM SIGN GA2 OVER GA2=0120ED;CUNEIFORM SIGN SHU=0122D7;CUNEIFORM SIGN URI=012335" \o
      ";CUNEIFORM SIGN USH=012351;CUNEIFORM SIGN GE22=01237B;BAMUM LETTER PHASE-C SHUEQ=0168DB" \o
      ";BAMUM LETTER PHASE-E YOQ SWIMMING=0169E2;MEDEFAIDRIN SMALL LETTER H=016E76" \o
      ";MUSICAL SYMBOL FINGERED TREMOLO-2=01D16B;MATHEMATICAL BOLD ITALIC CAPITAL J=01D471" \o
      ";SIGNWRITING MOUTH OPEN RECTANGLE=01DA4A;NYIAKENG PUACHUE HMONG LETTER NPA=01E11C" \o
      ";NYIAKENG PUACHUE HMONG SIGN XW XW=01E13C;SAKE BOTTLE AND CUP=01F376" \o
      ";LOWER RIGHT SHADOWED WHITE CIRCLE=01F53E;LEFTWARDS HEAVY COMPRESSED ARROW=01F840" \o
      ";CALL ME HAND=01F919",
    ";LATIN LETTER PHARYNGEAL VOICED FRICATIVE=000295;HEBREW ACCENT DARGA=0005A7" \o
      ";HEBREW POINT TSERE=0005B5;GURMUKHI LETTER MA=000A2E;TAI THAM LETTER LAE=001A53" \o
      ";ORIGINAL OF=0022B6;NUMBER FOURTEEN FULL STOP=002495;HORIZONTAL TAB KEY=002B7E" \o
      ";LATIN SMALL LETTER O WITH LOW RING INSIDE=002C7A;CJK RADICAL PAW TWO=002EA5" \o
      ";KANGXI RADICAL LEAF=002FB4;CIRCLED KATAKANA SE=0032DD;CIRCLED KATAKANA WA=0032FB" \o
      ";SQUARE MU W=0033BC;PHAGS-PA LETTER DDA=00A86B;VS10=00FE09;OLD ITALIC LETTER E=010304" \o
      ";OLD PERSIAN SIGN GA=0103A5;MODIFIER LETTER SMALL CAPITAL G WITH HOOK=010794" \o
      ";KHAROSHTHI SIGN DOUBLE RING BELOW=010A0D;TIRHUTA LETTER PHA=0114A4" \o
      ";CUNEIFORM SIGN KA TIMES ZI=01218C;CUNEIFORM SIGN NUN=012263;CUNEIFORM SIGN UD TIMES MI=012316" \o
      ";BAMUM LETTER PHASE-D NJEUT=0168F7;BAMUM LETTER PHASE-E NGKUP=0169B6;BASSA VAH LETTER PA=016AE5" \o
      ";MEDEFAIDRIN SMALL LETTER I=016E6B;DUPLOYAN LETTER IE=01BC48" \o
      ";BYZANTINE MUSICAL SYMBOL APOSTROFOS NEO=01D051;MUSICAL SYMBOL FINGERED TREMOLO-3=01D16C" \o
      ";MAYAN NUMERAL ZERO=01D2E0;MATHEMATICAL BOLD ITALIC CAPITAL K=01D472" \o
      ";MATHEMATICAL SANS-SERIF DIGIT SIX=01D7E8;MATHEMATICAL MONOSPACE DIGIT FIVE=01D7FB" \o
      ";MATHEMATICAL MONOSPACE DIGIT NINE=01D7FF" \o
      ";SIGNWRITING HAND-FLAT FIVE FINGERS SPREAD HINGED=01D857" \o
      ";NYIAKENG PUACHUE HMONG LETTER NQA=01E119;MENDE KIKAKUI SYLLABLE M110 LONG LE=01E83D" \o
      ";MENDE KIKAKUI COMBINING NUMBER THOUSANDS=01E8D3;CLOUD WITH TORNADO=01F32A" \o
      ";LIGHT WHITE SQUARE=01F78E",
    ";DEVICE CONTROL TWO=000012;SMALL TILDE=0002DC;ARMENIAN CAPITAL LETTER CO=000551" \o
      ";ARABIC LETTER REH WITH HAMZA ABOVE=00076C;GURMUKHI LETTER NA=000A28;TELUGU LETTER LLLA=000C34" \o
      ";LAO LETTER PALI LLA=000EAC;HANGUL JONGSEONG YESIEUNG-KIYEOK=0011EC" \o
      ";BALINESE MUSICAL SYMBOL COMBINING KEMPUL=001B6D;SUNDANESE LETTER U=001B85" \o
      ";SUNDANESE CONSONANT SIGN PANYIKU=001BA3;BATAK VOWEL SIGN EE=001BE9" \o
      ";GREEK SMALL LETTER IOTA WITH PERISPOMENI=001FD6;COMBINING TRIPLE UNDERDOT=0020E8" \o
      ";OCR AMOUNT OF CHECK=002447;WHITE SMALL SQUARE=0025AB;CIRCLED KATAKANA TE=0032E2" \o
      ";SQUARE MEGA=00334B;CYRILLIC CAPITAL LETTER CROSSED O=00A69A" \o
      ";ARABIC LETTER FARSI YEH FINAL FORM=00FBFD;VS11=00FE0A;UGARITIC LETTER TO=01039A" \o
      ";OLD PERSIAN SIGN HA=0103C3;SHAVIAN LETTER NUN=01046F;CYPRIOT SYLLABLE I=010802" \o
      ";PHOENICIAN WORD SEPARATOR=01091F;MEROITIC HIEROGLYPHIC LETTER TE-2=01099B" \o
      ";HANIFI ROHINGYA DIGIT FIVE=010D35;HANIFI ROHINGYA DIGIT NINE=010D39" \o
      ";ZANABAZAR SQUARE CLUSTER-FINAL LETTER VA=011A3E;SOYOMBO LETTER JHA=011A64" \o
      ";TAMIL SIGN UZHAKKU=011FD8;TAMIL CURRENT SIGN=011FEA;CUNEIFORM SIGN KUR=0121B3" \o
      ";CUNEIFORM SIGN PI TIMES BU=012283;MEDEFAIDRIN SMALL LETTER J=016E6E" \o
      ";MATHEMATICAL BOLD ITALIC CAPITAL L=01D473" \o
      ";SIGNWRITING MOVEMENT-WALLPLANE WAVE CURVE DOUBLE LARGE=01D99B" \o
      ";SIGNWRITING LIP LOWER OVER UPPER=01DA54;SIGNWRITING LIP UPPER OVER LOWER=01DA55" \o
      ";NYIAKENG PUACHUE HMONG LETTER NRA=01E111;NYIAKENG PUACHUE HMONG DIGIT ZERO=01E140" \o
      ";ADLAM GEMINATE CONSONANT MODIFIER=01E949;NO BICYCLES=01F6B3" \o
      ";ALCHEMICAL SYMBOL FOR SALT OF COPPER ANTIMONIATE=01F726;BLACK MEDIUM SMALL LOZENGE=01F79F" \o
      ";BELL PEPPER=01FAD1;TAG QUOTATION MARK=0E0022;VS20=0E0103",
    ";ARMENIAN CAPITAL LETTER RA=00054C;ARMENIAN SMALL LETTER CHEH=000573;ARABIC LETTER DAHAL=00068C" \o
      ";ARABIC START OF RUB EL HIZB=0006DE;NKO LETTER JONA CHA=0007E9;MALAYALAM LETTER VOCALIC L=000D0C" \o
      ";MYANMAR LETTER SSA=001051;CANADIAN SYLLABICS WEST-CREE SWOO=0014FF" \o
      ";RUNIC LETTER FEHU FEOH FE F=0016A0;OL CHIKI LETTER AAW=001C63;TRANSVERSAL INTERSECTION=002ADB" \o
      ";GLAGOLITIC CAPITAL LETTER GLAGOLI=002C03;LATIN CAPITAL LETTER ALPHA=002C6D" \o
      ";BOPOMOFO LETTER SH=003115;BOPOMOFO LETTER IR=0031A8;CIRCLED KATAKANA KO=0032D9" \o
      ";CIRCLED KATAKANA YA=0032F3;SQUARE KCAL=003389;KAYAH LI LETTER PHA=00A916" \o
      ";CHAM LETTER FINAL Y=00AA48;ARABIC LIGATURE LAM WITH HAH WITH ALEF MAKSURA FINAL FORM=00FD82" \o
      ";VS12=00FE0B;LINEAR B SYMBOL B034=010053;CHAKMA VOWEL SIGN I=011128" \o
      ";COMBINING GRANTHA LETTER A=011370;MODI VOWEL SIGN VOCALIC RR=011636;SOYOMBO LETTER KHA=011A5D" \o
      ";CUNEIFORM SIGN DAG KISIM5 TIMES NE=012068;CUNEIFORM SIGN USH TIMES A=012352" \o
      ";CUNEIFORM NUMERIC SIGN THREE DISH=012408;EGYPTIAN HIEROGLYPH NL005A=013225" \o
      ";BASSA VAH LETTER DO=016ADE;MEDEFAIDRIN SMALL LETTER K=016E6C;MIAO VOWEL SIGN ROUNDED ER=016F78" \o
      ";DUPLOYAN LETTER OA=01BC43;DUPLOYAN AFFIX HIGH CIRCLE=01BC85" \o
      ";MATHEMATICAL BOLD ITALIC CAPITAL M=01D474;UPPER RIGHT SHADOWED WHITE CIRCLE=01F53F" \o
      ";FLYING DISC=01F94F;NEUTRAL CHESS ROOK=01FA02;VS21=0E0104;VS30=0E010D",
    ";LATIN CAPITAL LETTER EZH REVERSED=0001B8;GREEK CAPITAL LETTER SIGMA=0003A3" \o
      ";SYRIAC LETTER ZAIN=000719;SYRIAC LETTER SHIN=00072B" \o
      ";ARABIC LETTER REH WITH TWO DOTS VERTICALLY ABOVE=00076B;GURMUKHI LETTER PA=000A2A" \o
      ";SINHALA LETTER ALPAPRAANA TAYANNA=000DAD;MYANMAR LETTER NYA=001009" \o
      ";GEORGIAN CAPITAL LETTER EN=0010A4;HANGUL JONGSEONG MIEUM-SSANGSIOS=0011DE" \o
      ";CANADIAN SYLLABICS WEST-CREE TWOO=001460;KHMER SYMBOL PRAM-BEI KOET=0019E8" \o
      ";GREEK CAPITAL LETTER ETA WITH DASIA AND VARIA AND PROSGEGRAMMENI=001F9B" \o
      ";ROMAN NUMERAL FOUR=002163;LEFTWARDS ARROW WITH LOOP=0021AB" \o
      ";ELEMENT OF WITH VERTICAL BAR AT END OF HORIZONTAL STROKE=0022F3" \o
      ";CIRCLED HORIZONTAL BAR WITH NOTCH=002389;TIMER CLOCK=0023F2;COPTIC CAPITAL LETTER KAPA=002C94" \o
      ";KANGXI RADICAL LONG STRIDE=002F35;KANGXI RADICAL HAND=002F3F;KANGXI RADICAL LACK=002F4B" \o
      ";BOPOMOFO LETTER NN=00312F;HANGUL LETTER SIOS=003145;BOPOMOFO LETTER GU=0031A3" \o
      ";BOPOMOFO LETTER OM=0031B1;CIRCLED KATAKANA RI=0032F7;BAMUM COLON=00A6F4" \o
      ";PHAGS-PA LETTER CHA=00A845;ARABIC LIGATURE NOON WITH NOON FINAL FORM=00FC8D;VS13=00FE0C" \o
      ";ARABIC LETTER ALEF WITH HAMZA ABOVE ISOLATED FORM=00FE83;FULLWIDTH LOW LINE=00FF3F" \o
      ";UGARITIC LETTER PU=010394;OLD PERSIAN SIGN JA=0103A9;OLD HUNGARIAN NUMBER ONE THOUSAND=010CFF" \o
      ";KAITHI DOUBLE DANDA=0110C1;TIRHUTA LETTER SHA=0114AC;DOGRA VOWEL SIGN AA=01182C" \o
      ";PAU CIN HAU LETTER FINAL NG=011AE3;CUNEIFORM SIGN KA TIMES ME PLUS GI=012176" \o
      ";CUNEIFORM SIGN NUN CROSSING NUN LAGAR OVER LAGAR=01226C" \o
      ";CUNEIFORM SIGN NU11 OVER NU11 BUR OVER BUR=0122D5;CUNEIFORM SIGN TUK=012307" \o
      ";BAMUM LETTER PHASE-C NJEUX=0168E5;BAMUM LETTER PHASE-D NTEUM=016938" \o
      ";MEDEFAIDRIN SMALL LETTER L=016E74;MUSICAL SYMBOL MULTI REST=01D13A" \o
      ";MATHEMATICAL BOLD ITALIC CAPITAL N=01D475;SIGNWRITING HAND-HINGE THUMB SIDE=01D880" \o
      ";NYIAKENG PUACHUE HMONG LETTER NTA=01E102;ALCHEMICAL SYMBOL FOR BATH OF MARY=01F76B" \o
      ";DIVING MASK=01F93F;BLACK CHESS KNIGHT ROTATED THREE HUNDRED FIFTEEN DEGREES=01FA46;VS22=0E0105" \o
      ";VS31=0E010E;VS40=0E0117",
    ";COMBINING CYRILLIC DASIA PNEUMATA=000485;ARABIC LETTER BEHEH=000680" \o
      ";ARABIC LETTER TCHEH WITH DOT ABOVE=0006BF" \o
      ";ARABIC SMALL HIGH LIGATURE SAD WITH LAM WITH ALEF MAKSURA=0006D6" \o
      ";ARABIC SMALL HIGH LIGATURE QAF WITH LAM WITH ALEF MAKSURA=0006D7;GURMUKHI LETTER II=000A08" \o
      ";MYANMAR LETTER TTA=00100B;ETHIOPIC FULL STOP=001362;KHMER SYMBOL LEK ATTAK SON=0017F0" \o
      ";TAI THAM LETTER NGA=001A26;ALEF SYMBOL=002135;BLACK MEDIUM UP-POINTING TRIANGLE=0023F6" \o
      ";SYMBOL FOR UNIT SEPARATOR=00241F;BOX DRAWINGS DOWN SINGLE AND RIGHT DOUBLE=002552" \o
      ";BOX DRAWINGS DOWN DOUBLE AND RIGHT SINGLE=002553;RAISED FIST=00270A" \o
      ";LEFT-SIDE ARC ANTICLOCKWISE ARROW=002939;KANGXI RADICAL FANG=002F5B;CIRCLED KATAKANA SI=0032DB" \o
      ";CIRCLED KATAKANA MO=0032F2;CIRCLED KATAKANA WE=0032FD" \o
      ";ARABIC LIGATURE THEH WITH ALEF MAKSURA FINAL FORM=00FC7A;VS14=00FE0D" \o
      ";LINEAR B SYMBOL B018=010050;LINEAR B SYMBOL B063=010057;OLD ITALIC LETTER I=010309" \o
      ";UGARITIC LETTER WO=010386;OLD PERSIAN SIGN KA=0103A3;DESERET CAPITAL LETTER JEE=010416" \o
      ";AVESTAN LETTER NYE=010B26;NEWA VOWEL SIGN VOCALIC RR=01143B;TIRHUTA LETTER NNA=01149D" \o
      ";TIRHUTA LETTER THA=01149F;TIRHUTA DIGIT FOUR=0114D4" \o
      ";ZANABAZAR SQUARE CLUSTER-FINAL LETTER YA=011A3B;SOYOMBO LETTER NGA=011A60" \o
      ";SOYOMBO MARK TSHEG=011A9A;CUNEIFORM SIGN KA TIMES RU=01217D;CUNEIFORM SIGN SUM=0122E7" \o
      ";CUNEIFORM SIGN KA TIMES UR=0124D3;PAHAWH HMONG SIGN VOS SEEV=016B40" \o
      ";MEDEFAIDRIN SMALL LETTER M=016E60;ZNAMENNY NEUME MECHIK KLYUCHEVOY=01CFA9" \o
      ";BYZANTINE MUSICAL SYMBOL LYGISMA=01D05D;MUSICAL SYMBOL ORNAMENT STROKE-10=01D1A4" \o
      ";MATHEMATICAL BOLD ITALIC CAPITAL O=01D476;MATHEMATICAL BOLD ITALIC SMALL CHI=01D74C" \o
      ";SIGNWRITING HAND-FIST LITTLE DOWN RIPPLE CURVED=01D890" \o
      ";SIGNWRITING MOVEMENT-WALLPLANE DOUBLE STRAIGHT=01D92F;INDIC SIYAQ NUMBER EIGHT THOUSAND=01EC93" \o
      ";OTTOMAN SIYAQ NUMBER FOUR=01ED04;EARTH GLOBE ASIA-AUSTRALIA=01F30F;OPEN FOLDER=01F5C1" \o
      ";HIKING BOOT=01F97E;VS23=0E0106;VS32=0E010F;VS41=0E0118;VS50=0E0121",
    ";DOLLAR SIGN=000024;COMBINING CIRCUMFLEX ACCENT BELOW=00032D;HEBREW ACCENT QADMA=0005A8" \o
      ";GURMUKHI LETTER RA=000A30;ORIYA VOWEL SIGN VOCALIC L=000B62;KANNADA LETTER DDHA=000CA2" \o
      ";THAI CHARACTER MAI HAN-AKAT=000E31;LAO LETTER PALI NNA=000E93;MYANMAR VOWEL SIGN AITON A=00109C" \o
      ";HANGUL CHOSEONG SSANGSIOS=00110A;TAI THAM SIGN WIANG=001AA0;BALINESE SIGN CECEK=001B02" \o
      ";VEDIC SIGN HEXIFORM LONG ANUSVARA=001CEE;GREEK PSILI=001FBF" \o
      ";GREEK CAPITAL LETTER UPSILON WITH VRACHY=001FE8;SYMBOL FOR NEWLINE=002424" \o
      ";UP-POINTING TRIANGLE WITH LEFT HALF BLACK=0025ED;EIGHTH NOTE=00266A" \o
      ";SUPERSET WITH MULTIPLICATION SIGN BELOW=002AC2;BOPOMOFO LETTER IU=003129" \o
      ";BOPOMOFO LETTER OO=0031A6;BOPOMOFO LETTER GW=0031BC;CIRCLED KATAKANA TI=0032E0" \o
      ";CIRCLED KATAKANA NO=0032E8;CIRCLED KATAKANA HU=0032EB;BAMUM LETTER SHEUX=00A6B8" \o
      ";LATIN CAPITAL LETTER OMEGA=00A7B6;KAYAH LI LETTER SHA=00A90F;JAVANESE PADA MADYA=00A9C4" \o
      ";VS15=00FE0E;LINEAR B SYMBOL B019=010051;LINEAR B SYMBOL B064=010058;LINEAR B SYMBOL B082=01005A" \o
      ";OLD PERSIAN SIGN DI=0103AE;OLD PERSIAN SIGN LA=0103BE;SHAVIAN LETTER YEW=01047F" \o
      ";LINEAR A SIGN A715 BB=010752;AVESTAN LETTER TTE=010B1D;MULTANI LETTER RRA=0112A7" \o
      ";CUNEIFORM SIGN TUM=012308;CUNEIFORM SIGN UM TIMES ME=012398;EGYPTIAN HIEROGLYPH NL017A=013232" \o
      ";BAMUM LETTER PHASE-E NJEUX=016983;MEDEFAIDRIN SMALL LETTER N=016E7B;MIAO VOWEL SIGN AEE=016F74" \o
      ";BYZANTINE MUSICAL SYMBOL TESSERA=01D031;MUSICAL SYMBOL ORNAMENT STROKE-11=01D1A5" \o
      ";MATHEMATICAL BOLD ITALIC CAPITAL P=01D477;NYIAKENG PUACHUE HMONG LETTER RRA=01E123" \o
      ";INDIC SIYAQ NUMBER PREFIXED SEVEN=01ECA9;RAILWAY CAR=01F683;ALCHEMICAL SYMBOL FOR ALUM=01F745" \o
      ";HEAVY WHITE SQUARE=01F791;VS24=0E0107;VS33=0E0110;VS42=0E0119;VS51=0E0122;VS60=0E012B",
    ";COMBINING RIGHT TACK BELOW=000319;CYRILLIC CAPITAL LETTER BE=000411" \o
      ";ARMENIAN CAPITAL LETTER HO=000540;ARMENIAN CAPITAL LETTER OH=000555" \o
      ";ARABIC LETTER KASHMIRI YEH=000620;SYRIAC LETTER TETH=00071B" \o
      ";SAMARITAN MODIFIER LETTER SHORT A=000824;GURMUKHI LETTER SA=000A38;KANNADA DIGIT EIGHT=000CEE" \o
      ";LEPCHA VOWEL SIGN E=001C2C;OL CHIKI DIGIT FOUR=001C54" \o
      ";MODIFIER LETTER SMALL L WITH PALATAL HOOK=001DAA;COMBINING DOUBLE CIRCUMFLEX ABOVE=001DCD" \o
      ";VERTICAL FOUR DOTS=00205E;SUPERSCRIPT MINUS=00207B;PARALLEL TO=002225;N-ARY UNION=0022C3" \o
      ";MEDIUM BLACK CIRCLE=0026AB;N-ARY CIRCLED DOT OPERATOR=002A00;PLUS SIGN WITH TILDE ABOVE=002A24" \o
      ";LEFTWARDS ARROW THROUGH X=002B3E;RIGHTWARDS TRIANGLE-HEADED PAIRED ARROWS=002B86" \o
      ";KANGXI RADICAL CLAN=002F52;HANGUL LETTER SIOS-TIKEUT=00317C;PHAGS-PA LETTER GGA=00A865" \o
      ";KAYAH LI DIGIT FOUR=00A904;KAYAH LI LETTER HTA=00A913;KAYAH LI LETTER THA=00A91E" \o
      ";ARABIC LIGATURE YEH WITH HAMZA ABOVE WITH HEH MEDIAL FORM=00FCE0" \o
      ";ARABIC LIGATURE SEEN WITH ALEF MAKSURA FINAL FORM=00FD17" \o
      ";ARABIC LIGATURE RADI ALLAAHU ANHUM=00FD43;VS16=00FE0F;HALFWIDTH HANGUL LETTER AE=00FFC3" \o
      ";FULLWIDTH YEN SIGN=00FFE5;LINEAR B SYMBOL B047=010054;LINEAR B SYMBOL B056=010056" \o
      ";LINEAR B SYMBOL B083=01005B;AEGEAN NUMBER FOUR HUNDRED=01011C" \o
      ";GREEK ONE HALF SIGN ALTERNATE FORM=010176;OLD PERSIAN SIGN MA=0103B6;HATRAN LETTER ZAYN=0108E6" \o
      ";MEROITIC CURSIVE NUMBER THIRTY THOUSAND=0109E6;RUMI NUMBER EIGHTY=010E70" \o
      ";YEZIDI LETTER SHIN=010E92;CUNEIFORM SIGN KA TIMES TU=012386;MEDEFAIDRIN SMALL LETTER O=016E7D" \o
      ";DUPLOYAN LETTER HL=01BC16;DUPLOYAN LETTER LH=01BC17;MATHEMATICAL BOLD ITALIC CAPITAL Q=01D478" \o
      ";MATHEMATICAL ITALIC SMALL OMICRON=01D70A;MATHEMATICAL SANS-SERIF DIGIT TWO=01D7E4" \o
      ";SIGNWRITING HAND-FIST INDEX MIDDLE THUMB CIRCLED=01D829" \o
      ";SIGNWRITING HAND-FLAT FIVE FINGERS SPREAD THUMB FORWARD=01D852" \o
      ";EMOJI MODIFIER FITZPATRICK TYPE-3=01F3FC;FACE WITHOUT MOUTH=01F636;OLDER ADULT=01F9D3" \o
      ";WHITE UP-POINTING CHEVRON=01FBCA;VS25=0E0108;VS34=0E0111;VS43=0E011A;VS52=0E0123;VS61=0E012C" \o
      ";VS70=0E0135",
    ";COPTIC CAPITAL LETTER KHEI=0003E6;CYRILLIC SMALL LETTER EL WITH MIDDLE HOOK=000521" \o
      ";SYRIAC LETTER RISH=00072A;GURMUKHI LETTER TA=000A24;GURMUKHI DIGIT SIX=000A6C" \o
      ";GUJARATI LETTER UU=000A8A;GEORGIAN CAPITAL LETTER IN=0010A8" \o
      ";HANGUL JONGSEONG RIEUL-SSANGSIOS=0011D6;RUNIC LETTER SHORT-TWIG-BJARKAN B=0016D3" \o
      ";TAI THAM LETTER LLA=001A4A;MEASURED BY=00225E;APL FUNCTIONAL SYMBOL DELTA STILE=00234B" \o
      ";CIRCLE WITH LEFT HALF BLACK=0025D0;SHORT SLANTED NORTH ARROW=002B4E;KANGXI RADICAL LAME=002F2A" \o
      ";KANGXI RADICAL DOTTED TENT=002F68;KANGXI RADICAL CAVE=002F73" \o
      ";PARENTHESIZED IDEOGRAPH RESOURCE=00323E;CIRCLED NUMBER TEN ON BLACK SQUARE=003248" \o
      ";ARABIC LIGATURE YEH WITH HAMZA ABOVE WITH ALEF FINAL FORM=00FBEB" \o
      ";PRESENTATION FORM FOR VERTICAL EXCLAMATION MARK=00FE15;SMALL LEFT TORTOISE SHELL BRACKET=00FE5D" \o
      ";ARABIC LIGATURE LAM WITH ALEF WITH HAMZA BELOW FINAL FORM=00FEFA" \o
      ";LINEAR B IDEOGRAM B108M BOAR=01008B;LINEAR B IDEOGRAM B123 SPICE=010091" \o
      ";OLD PERSIAN SIGN NA=0103B4;SHAVIAN LETTER TOT=010451;CYPRIOT SYLLABLE O=010803" \o
      ";HANIFI ROHINGYA MARK SAKIN=010D22;SOGDIAN PUNCTUATION TWO VERTICAL BARS WITH DOTS=010F56" \o
      ";SOYOMBO LETTER PHA=011A71;MASARAM GONDI SIGN VISARGA=011D41;GUNJALA GONDI SIGN VISARGA=011D96" \o
      ";CUNEIFORM SIGN NINDA2 TIMES LAK-050=012527;EGYPTIAN HIEROGLYPH NU010A=013240" \o
      ";BAMUM LETTER PHASE-D SHEUX=016955;BASSA VAH LETTER SE=016AD2;BASSA VAH LETTER WA=016ADB" \o
      ";PAHAWH HMONG SIGN VOS NRUA=016B42;MEDEFAIDRIN SMALL LETTER P=016E67" \o
      ";MATHEMATICAL BOLD ITALIC CAPITAL R=01D479;MATHEMATICAL SANS-SERIF BOLD CAPITAL IOTA=01D75E" \o
      ";SIGNWRITING HAND-HINGE THUMB BETWEEN MIDDLE RING=01D884;SIGNWRITING MOUTH CLOSED FORWARD=01DA3C" \o
      ";EMOJI MODIFIER FITZPATRICK TYPE-4=01F3FD;BULLHORN WITH SOUND WAVES=01F56C;VS17=0E0100" \o
      ";VS26=0E0109;VS35=0E0112;VS44=0E011B;VS53=0E0124;VS62=0E012D;VS71=0E0136;VS80=0E013F",
    ";LOCKING-SHIFT ZERO=00000F;DIGIT SEVEN=000037;LATIN SMALL LETTER SHARP S=0000DF" \o
      ";LATIN SMALL LETTER CLOSED REVERSED OPEN E=00025E;GREEK CAPITAL LETTER THETA=000398" \o
      ";COPTIC SMALL LETTER GANGIA=0003EB;CYRILLIC CAPITAL LETTER DE=000414" \o
      ";CYRILLIC CAPITAL LETTER HA=000425;ARMENIAN CAPITAL LETTER ET=000538" \o
      ";ARABIC LETTER YEH WITH HAMZA ABOVE=000626;SAMARITAN PUNCTUATION BAU=000833" \o
      ";ARABIC LETTER ALEF WITH RIGHT MIDDLE STROKE AND DOT ABOVE=00087C;GURMUKHI LETTER AU=000A14" \o
      ";MALAYALAM LETTER VOCALIC R=000D0B;TIBETAN MARK BKA- SHOG GI MGO RGYAN=000FD0" \o
      ";HANGUL JONGSEONG YESIEUNG=0011F0;CANADIAN SYLLABICS WEST-CREE YWOO=001538" \o
      ";KHMER SYMBOL DAP-PRAM KOET=0019EF;LEPCHA CONSONANT SIGN KANG=001C35;OL CHIKI MU TTUDDAG=001C78" \o
      ";GREEK SUBSCRIPT SMALL LETTER BETA=001D66;APL FUNCTIONAL SYMBOL CIRCLE STAR=00235F" \o
      ";LOWER RIGHT QUADRANT CIRCULAR ARC=0025DE;ANGLE WITH S INSIDE=00299E;BLACK SMALL DIAMOND=002B29" \o
      ";COPTIC CAPITAL LETTER HATE=002C8E;KANGXI RADICAL LIFE=002F63;KANGXI RADICAL DEER=002FC5" \o
      ";KATAKANA MIDDLE DOT=0030FB;IDEOGRAPHIC TELEGRAPH SYMBOL FOR JANUARY=0032C0" \o
      ";CIRCLED KATAKANA KU=0032D7;CIRCLED KATAKANA WI=0032FC;CYRILLIC SMALL LETTER BINOCULAR O=00A66B" \o
      ";HALFWIDTH LEFTWARDS ARROW=00FFE9;LINEAR B SYMBOL B049=010055;AEGEAN NUMBER ONE THOUSAND=010122" \o
      ";CARIAN LETTER UUUU=0102BB;SHAVIAN LETTER ZOO=01045F;SHAVIAN LETTER OUT=01046C" \o
      ";OSAGE CAPITAL LETTER EHTSA=0104CB;CHAKMA VOWEL SIGN O=01112E;MAHAJANI LETTER DDA=011160" \o
      ";MULTANI LETTER NYA=01128F;TIRHUTA DIGIT ZERO=0114D0;MARCHEN SUBJOINED LETTER A=011CAF" \o
      ";CUNEIFORM SIGN LU2 TIMES GAN2 TENU=012202;CUNEIFORM NUMERIC SIGN FIVE GESHU=012422" \o
      ";EGYPTIAN HIEROGLYPH NU011A=013242;EGYPTIAN HIEROGLYPH INSERT AT BOTTOM END=013435" \o
      ";BAMUM LETTER PHASE-C NZEUM=0168A3;BAMUM LETTER PHASE-E KPEUX=016974;TANGSA LETTER UIUQ=016A9A" \o
      ";BASSA VAH LETTER JO=016AD9;MEDEFAIDRIN SMALL LETTER Q=016E75;DUPLOYAN LETTER KK=01BC14" \o
      ";ZNAMENNY NEUME VRAKHIYA SVETLAYA=01CF65;ZNAMENNY NEUME ROG=01CF82" \o
      ";BYZANTINE MUSICAL SYMBOL PETASTI=01D049;BYZANTINE MUSICAL SYMBOL KYLISMA=01D061" \o
      ";IDEOGRAPHIC TALLY MARK ONE=01D372;MATHEMATICAL BOLD ITALIC CAPITAL S=01D47A" \o
      ";SIGNWRITING HAND-FIST RING MIDDLE=01D8B4;SIGNWRITING SQUEEZE SMALL SINGLE=01D917" \o
      ";SIGNWRITING SHOULDER TILTING FROM WAIST=01DA71;NYIAKENG PUACHUE HMONG LETTER TSA=01E101" \o
      ";NYIAKENG PUACHUE HMONG LETTER NYA=01E110;EMOJI MODIFIER FITZPATRICK TYPE-5=01F3FE" \o
      ";REVERSED HAND WITH MIDDLE FINGER EXTENDED=01F595;FACE WITH PARTY HORN AND PARTY HAT=01F973" \o
      ";SALT SHAKER=01F9C2;TOOTHBRUSH=01FAA5;VS18=0E0101;VS27=0E010A;VS36=0E0113;VS45=0E011C" \o
      ";VS54=0E0125;VS63=0E012E;VS72=0E0137;VS81=0E0140;VS90=0E0149",
    ";LATIN LETTER LATERAL CLICK=0001C1;MODIFIER LETTER LOW VERTICAL LINE=0002CC" \o
      ";CYRILLIC SMALL LETTER EN WITH MIDDLE HOOK=000523;ARMENIAN SMALL LETTER JHEH=00057B" \o
      ";ARABIC DISPUTED END OF AYAH=0008E2;BENGALI LETTER DDHA=0009A2;GURMUKHI LETTER VA=000A35" \o
      ";GUJARATI OM=000AD0;TAI THAM SIGN SAWAN=001AA2;LEPCHA SUBJOINED LETTER RA=001C25" \o
      ";GREEK SMALL LETTER ETA WITH DASIA AND OXIA=001F25" \o
      ";GREEK CAPITAL LETTER ALPHA WITH DASIA AND PROSGEGRAMMENI=001F89;PESETA SIGN=0020A7" \o
      ";METRICAL PENTASEME=0023D9;CUP ON BLACK SQUARE=0026FE" \o
      ";COPTIC SMALL LETTER CRYPTOGRAMMIC GANGIA=002CEE;GEORGIAN SMALL LETTER GHAN=002D16" \o
      ";GEORGIAN SMALL LETTER CHAR=002D1D;FORKED PARAGRAPHOS=002E10;KANGXI RADICAL GATE=002FA8" \o
      ";KANGXI RADICAL LEEK=002FB2;KANGXI RADICAL BIRD=002FC3;BOPOMOFO LETTER ZH=003113" \o
      ";BOPOMOFO LETTER KW=0031BD;PARENTHESIZED HANGUL SIOS=003206;CIRCLED KATAKANA RO=0032FA" \o
      ";CYRILLIC SMALL LETTER BLENDED YUS=00A65B;COMBINING CYRILLIC HUNDRED MILLIONS SIGN=00A671" \o
      ";LINEAR B SYMBOL B086=01005C;LINEAR B IDEOGRAM B120 WHEAT=01008E;OLD PERSIAN SIGN PA=0103B1" \o
      ";OLD TURKIC LETTER ORKHON A=010C00;OLD UYGHUR PUNCTUATION FOUR DOTS=010F89" \o
      ";KHOJKI DOUBLE DANDA=011239;MULTANI LETTER TTA=011290;CUNEIFORM SIGN SUR=0122E9" \o
      ";PAHAWH HMONG SIGN VOS THOM=016B37;MEDEFAIDRIN SMALL LETTER R=016E7C" \o
      ";ZNAMENNY NEUME STRELA DVOECHELNOPOVODNAYA KLYUCHEVAYA=01CF9F" \o
      ";MATHEMATICAL BOLD ITALIC CAPITAL T=01D47B;MATHEMATICAL BOLD CAPITAL UPSILON=01D6BC" \o
      ";MATHEMATICAL ITALIC SMALL EPSILON=01D700;SQUARED HDR=01F1A7;FIELD HOCKEY STICK AND BALL=01F3D1" \o
      ";EMOJI MODIFIER FITZPATRICK TYPE-6=01F3FF;NAIL POLISH=01F485;ALCHEMICAL SYMBOL FOR SOAP=01F754" \o
      ";VS19=0E0102;VS28=0E010B;VS37=0E0114;VS46=0E011D;VS55=0E0126;VS64=0E012F;VS73=0E0138;VS82=0E0141" \o
      ";VS91=0E014A",
    ";CYRILLIC CAPITAL LETTER EF=000424;CYRILLIC CAPITAL LETTER EN WITH LEFT HOOK=000528" \o
      ";ARMENIAN CAPITAL LETTER ZA=000536;BENGALI DIGIT EIGHT=0009EE;BENGALI SANDHI MARK=0009FE" \o
      ";NEW TAI LUE LETTER HIGH NGA=001984;LEPCHA VOWEL SIGN I=001C27;OL CHIKI DIGIT ZERO=001C50" \o
      ";MODIFIER LETTER SMALL BETA=001D5D;DENTISTRY SYMBOL LIGHT VERTICAL AND WAVE=0023C6" \o
      ";OPPOSITION=00260D;PRECEDES ABOVE EQUALS SIGN=002AB3;GLAGOLITIC CAPITAL LETTER LJUDIJE=002C0E" \o
      ";COPTIC CAPITAL LETTER VIDA=002C82;COMBINING CYRILLIC LETTER BIG YUS=002DFE" \o
      ";KANGXI RADICAL INCH=002F28;BOPOMOFO LETTER ZI=0031A1;CIRCLED KATAKANA SO=0032DE" \o
      ";CIRCLED KATAKANA MU=0032F0;KAYAH LI DIGIT ZERO=00A900;MYANMAR LETTER KHAMTI DDHA=00AA69" \o
      ";HEBREW LETTER FINAL PE WITH DAGESH=00FB43;SMALL COLON=00FE55;ROMAN SEXTANS SIGN=010190" \o
      ";ROMAN SEXTULA SIGN=010193;OLD ITALIC LETTER O=01030F;OLD PERMIC LETTER E=010354" \o
      ";DESERET CAPITAL LETTER PEE=010411;DESERET CAPITAL LETTER ENG=010425" \o
      ";HANIFI ROHINGYA LETTER KHA=010D08;MAHAJANI LETTER BHA=01116B;SOYOMBO LETTER SHA=011A7F" \o
      ";CANADIAN SYLLABICS NATTILIK SHRII=011AB7;CUNEIFORM SIGN DAG KISIM5 TIMES IR=012061" \o
      ";CUNEIFORM SIGN TUR=012309;EGYPTIAN HIEROGLYPH NU022A=01324F;MEDEFAIDRIN SMALL LETTER S=016E61" \o
      ";DUPLOYAN LETTER WA=01BC5C;ZNAMENNY NEUME STATYA S ZAPYATOY=01CF87" \o
      ";MUSICAL SYMBOL KIEVAN END OF PIECE=01D1DF;COMBINING GREEK MUSICAL PENTASEME=01D244" \o
      ";MATHEMATICAL BOLD ITALIC CAPITAL U=01D47C;MATHEMATICAL BOLD ITALIC SMALL ETA=01D73C" \o
      ";SIGNWRITING MOVEMENT-FLOORPLANE ARM CIRCLE HITTING WALL MEDIUM DOUBLE=01D9EB" \o
      ";BLACK LEFT POINTING BACKHAND INDEX=01F59C;BABY SYMBOL=01F6BC;ALCHEMICAL SYMBOL FOR SALT=01F714" \o
      ";VS29=0E010C;VS38=0E0115;VS47=0E011E;VS56=0E0127;VS65=0E0130;VS74=0E0139;VS83=0E0142;VS92=0E014B",
    ";CYRILLIC CAPITAL LETTER KA=00041A;CYRILLIC SMALL LETTER ROUND OMEGA=00047B" \o
      ";CYRILLIC SMALL LETTER PE WITH MIDDLE HOOK=0004A7;HEBREW PUNCTUATION GERESH=0005F3" \o
      ";ARABIC LETTER GHAIN WITH DOT BELOW=0006FC;SYRIAC LETTER YUDH=00071D" \o
      ";SYRIAC LETTER MALAYALAM JA=000861;ORIYA VOWEL SIGN VOCALIC R=000B43" \o
      ";SINHALA LETTER KANTAJA NAASIKYAYA=000D9E;TAI THAM VOWEL SIGN TALL AA=001A64" \o
      ";COMBINING THREE DOTS ABOVE=0020DB;NORMAL SUBGROUP OF=0022B2;BELL SYMBOL=00237E" \o
      ";UPPER RIGHT QUADRANT CIRCULAR ARC=0025DD;DINGBAT NEGATIVE CIRCLED DIGIT ONE=002776" \o
      ";BIG SOLIDUS=0029F8;Z NOTATION RANGE ANTIRESTRICTION=002A65;KANGXI RADICAL RICE=002F76" \o
      ";BOPOMOFO LETTER OU=003121;CIRCLED KATAKANA TO=0032E3;CIRCLED KATAKANA NU=0032E6" \o
      ";PHAGS-PA LETTER KHA=00A841;JAVANESE SIGN CECAK=00A981;FULLWIDTH NOT SIGN=00FFE2" \o
      ";LINEAR B SYMBOL B079=010059;LINEAR B IDEOGRAM B105 EQUID=010083" \o
      ";LINEAR B IDEOGRAM B243 WHEEL=0100CF;OLD PERSIAN SIGN JI=0103AA;OLD PERSIAN SIGN RA=0103BC" \o
      ";LINEAR A SIGN A717 DD=010753;AVESTAN LETTER XVE=010B13;KAITHI DOUBLE SECTION MARK=0110BF" \o
      ";MAHAJANI LETTER CHA=01115A;SHARADA LETTER DDHA=01119E;TIRHUTA SIGN NUKTA=0114C3" \o
      ";DOGRA VOWEL SIGN AI=011834;SOYOMBO LETTER NNA=011A6A;SOYOMBO LETTER THA=011A6C" \o
      ";CUNEIFORM SIGN DAG KISIM5 TIMES SI=01206A;CUNEIFORM SIGN URU=012337;CUNEIFORM SIGN ZUM=01236E" \o
      ";CUNEIFORM NUMERIC SIGN SEVEN DISH=01240C;CUNEIFORM SIGN LAK-648 TIMES SHESH PLUS KI=012514" \o
      ";PAHAWH HMONG SIGN CIM TXWV=016B74;MEDEFAIDRIN SMALL LETTER T=016E68;MIAO VOWEL SIGN AHH=016F56" \o
      ";ZNAMENNY PRIZNAK MODIFIER LEVEL-2=01CF42;BYZANTINE MUSICAL SYMBOL GORGON NEO KATO=01D0F5" \o
      ";MATHEMATICAL BOLD ITALIC CAPITAL V=01D47D;INDIC SIYAQ NUMBER THREE THOUSAND=01EC8E" \o
      ";STRAWBERRY=01F353;TROLLEYBUS=01F68E;WHITE HEART=01F90D;LEFT TRIANGULAR ONE QUARTER BLOCK=01FB6C" \o
      ";VS39=0E0116;VS48=0E011F;VS57=0E0128;VS66=0E0131;VS75=0E013A;VS84=0E0143;VS93=0E014C",
    ";CYRILLIC CAPITAL LETTER SOFT SIGN=00042C;ARABIC SMALL HIGH FARSI YEH=0008CA" \o
      ";ARABIC FATHA WITH DOT ABOVE=0008F5;GURMUKHI LETTER YA=000A2F;MYANMAR VOWEL SIGN KAYAH U=001073" \o
      ";GEORGIAN CAPITAL LETTER WE=0010C3;KHMER SYMBOL DAP-BUON KOET=0019EE" \o
      ";GREEK CAPITAL LETTER OMEGA WITH DASIA AND PROSGEGRAMMENI=001FA9;UNION WITH OVERBAR=002A42" \o
      ";SIMILAR ABOVE LESS-THAN ABOVE EQUALS SIGN=002A9F;COPTIC SMALL LETTER DIALECT-P ALEF=002CB3" \o
      ";GEORGIAN SMALL LETTER JHAN=002D1F;KANGXI RADICAL BONE=002FBB;KANGXI RADICAL HAIR=002FBD" \o
      ";SQUARE DESI=003325;LINEAR B SYMBOL B089=01005D;AEGEAN WORD SEPARATOR LINE=010100" \o
      ";OLD PERSIAN SIGN SA=0103BF;SHAVIAN LETTER VOW=01045D;HANIFI ROHINGYA LETTER NGA=010D1A" \o
      ";BRAHMI VOWEL SIGN E=011042;MAHAJANI LETTER DHA=011166;SHARADA SANDHI MARK=0111C9" \o
      ";SHARADA DIGIT EIGHT=0111D8;ZANABAZAR SQUARE MARK SHAD=011A42;CUNEIFORM SIGN BAG3=012042" \o
      ";CUNEIFORM SIGN KA TIMES ME PLUS DU=012175;CUNEIFORM SIGN KA TIMES ME PLUS TE=012177" \o
      ";CUNEIFORM SIGN KAP ELAMITE=01236F;CUNEIFORM NUMERIC SIGN FOUR VARIANT FORM LIMMU A=01243E" \o
      ";BAMUM LETTER PHASE-D NSHUT=016946;MEDEFAIDRIN SMALL LETTER U=016E72;DUPLOYAN LETTER RH=01BC18" \o
      ";DUPLOYAN LETTER EU=01BC52;ZNAMENNY PRIZNAK MODIFIER LEVEL-3=01CF43" \o
      ";MATHEMATICAL BOLD ITALIC CAPITAL W=01D47E;SQUARED UHD=01F1AB;DASH SYMBOL=01F4A8" \o
      ";MENORAH WITH NINE BRANCHES=01F54E;STOCK CHART=01F5E0;DOWNWARDS HEAVY COMPRESSED ARROW=01F843" \o
      ";SHALLOW PAN OF FOOD=01F958;MIRROR BALL=01FAA9" \o
      ";BOX DRAWINGS LIGHT DIAGONAL UPPER CENTRE TO MIDDLE LEFT TO LOWER CENTRE=01FBA4;VS49=0E0120" \o
      ";VS58=0E0129;VS67=0E0132;VS76=0E013B;VS85=0E0144;VS94=0E014D",
    ";LATIN SMALL LETTER R WITH LONG LEG=00027C;CYRILLIC CAPITAL LETTER IE=000415" \o
      ";ARABIC LETTER KEHEH=0006A9;GURMUKHI LETTER ZA=000A5B;GURMUKHI DIGIT TWO=000A68" \o
      ";TAMIL VOWEL SIGN AA=000BBE;TELUGU LETTER TTHA=000C20;KANNADA DIGIT THREE=000CE9" \o
      ";THAI CHARACTER THO PHUTHAO=000E12;GEORGIAN CAPITAL LETTER ON=0010AD;KHMER VOWEL SIGN AA=0017B6" \o
      ";MONGOLIAN LETTER MANCHU FA=001876;NEW TAI LUE LETTER HIGH PHA=001995" \o
      ";GREEK CAPITAL LETTER OMICRON WITH DASIA AND VARIA=001F4B" \o
      ";LEFTWARDS HARPOON WITH BARB DOWN FROM BAR=00295E" \o
      ";DOWNWARDS HARPOON WITH BARB LEFT FROM BAR=002961;SPHERICAL ANGLE OPENING UP=0029A1" \o
      ";TWO JOINED SQUARES=0029C9;GEORGIAN SMALL LETTER CHIN=002D19;KANGXI RADICAL SEAL=002F19" \o
      ";HANGUL LETTER SSANGKIYEOK=003132;HEXAGRAM FOR THE AROUSING THUNDER=004DF2" \o
      ";CYRILLIC SMALL LETTER CCHE=00A687;PHAGS-PA LETTER NGA=00A843;ARABIC LETTER E MEDIAL FORM=00FBE7" \o
      ";LINEAR B IDEOGRAM B230 SPEAR=0100C6;AEGEAN NUMBER TEN THOUSAND=01012B" \o
      ";PHAISTOS DISC SIGN BEEHIVE=0101E7;UGARITIC LETTER ZU=010391;OLD PERSIAN SIGN TA=0103AB" \o
      ";OSMANYA LETTER WAW=010493;CYPRIOT SYLLABLE U=010804" \o
      ";MEROITIC CURSIVE NUMBER TWENTY THOUSAND=0109E5;ZANABAZAR SQUARE SIGN CANDRABINDU=011A35" \o
      ";SOYOMBO LETTER DZA=011A77;CUNEIFORM SIGN GISH CROSSING GISH=012112" \o
      ";CUNEIFORM SIGN LU2 SHESHIG=012215;CUNEIFORM SIGN NINDA2 TIMES SHE PLUS ASH PLUS ASH=01225D" \o
      ";CUNEIFORM NUMERIC SIGN FOUR VARIANT FORM LIMMU B=01243F;BASSA VAH LETTER OO=016AE9" \o
      ";PAHAWH HMONG CLAN SIGN KHAB=016B88;MEDEFAIDRIN SMALL LETTER V=016E62" \o
      ";ZNAMENNY COMBINING MARK GORAZDO NIZKO S KRYZHEM ON LEFT=01CF00" \o
      ";BYZANTINE MUSICAL SYMBOL DIGORGON PARESTIGMENON ARISTERA KATO=01D093" \o
      ";TETRAGRAM FOR PENETRATION=01D313;MATHEMATICAL BOLD ITALIC CAPITAL X=01D47F" \o
      ";SIGNWRITING MOUTH CLOSED NEUTRAL=01DA3B;NYIAKENG PUACHUE HMONG LETTER TXA=01E114" \o
      ";FULL MOON WITH FACE=01F31D;VERY HEAVY SALTIRE=01F7AD;HEAVY EIGHT POINTED PINWHEEL STAR=01F7D1" \o
      ";VS59=0E012A;VS68=0E0133;VS77=0E013C;VS86=0E0145;VS95=0E014E",
    ";GREEK CAPITAL THETA SYMBOL=0003F4;CYRILLIC CAPITAL LETTER JE=000408" \o
      ";CYRILLIC SMALL LETTER DCHE=00052D;MALAYALAM DATE MARK=000D79;MALAYALAM LETTER CHILLU LL=000D7E" \o
      ";MODIFIER LETTER SMALL T WITH PALATAL HOOK=001DB5;COMBINING SUSPENSION MARK=001DC3" \o
      ";QUESTION EXCLAMATION MARK=002048;EXCLAMATION QUESTION MARK=002049" \o
      ";UP ARROWHEAD BETWEEN TWO HORIZONTAL BARS=002324;CIRCLED DIGIT EIGHT=002467" \o
      ";WHITE CONCAVE-SIDED DIAMOND WITH RIGHTWARDS TICK=0027E3;EQUALS SIGN WITH DOT BELOW=002A66" \o
      ";SUCCEEDS ABOVE EQUALS SIGN=002AB4;KANGXI RADICAL FIRE=002F55;KANGXI RADICAL BOAT=002F88" \o
      ";KANGXI RADICAL GOLD=002FA6;HANGUL LETTER YEORINHIEUH=003186;CIRCLED KATAKANA WO=0032FE" \o
      ";MEETEI MAYEK VOWEL SIGN UU=00AAEC;LATIN SMALL LETTER U WITH SHORT RIGHT LEG=00AB4E" \o
      ";FULLWIDTH WON SIGN=00FFE6;OLD PERMIC LETTER I=010359;OLD PERSIAN SIGN MI=0103B7" \o
      ";DESERET CAPITAL LETTER TEE=010413;NABATAEAN LETTER HE=010887;AVESTAN LETTER XYE=010B12" \o
      ";CHAKMA VOWEL SIGN U=01112A;TIRHUTA LETTER SSA=0114AD;BHAIKSUKI LETTER VOCALIC L=011C08" \o
      ";CUNEIFORM SIGN UM TIMES ME PLUS DA=01231F;CUNEIFORM SIGN URU TIMES A=012338" \o
      ";CUNEIFORM SIGN DAG3=012374;MEDEFAIDRIN SMALL LETTER W=016E63;OLD CHINESE ITERATION MARK=016FE3" \o
      ";DUPLOYAN LETTER TH=01BC11;BYZANTINE MUSICAL SYMBOL PIASMA ARCHAION=01D026" \o
      ";MATHEMATICAL BOLD ITALIC CAPITAL Y=01D480;MATHEMATICAL SANS-SERIF BOLD CAPITAL ZETA=01D75B" \o
      ";SIGNWRITING TRAVEL-WALLPLANE ROTATION-FLOORPLANE ALTERNATING=01D950" \o
      ";SIGNWRITING TRAVEL-FLOORPLANE ROTATION-WALLPLANE ALTERNATING=01D986" \o
      ";COMBINING GLAGOLITIC LETTER NASHI=01E010;FOOTPRINTS=01F463;OLDER WOMAN=01F475" \o
      ";TURNED OK HAND SIGN=01F58F;AIRPLANE DEPARTURE=01F6EB;CRAB=01F980;VS69=0E0134;VS78=0E013D" \o
      ";VS87=0E0146;VS96=0E014F",
    ";INFORMATION SEPARATOR ONE=00001F;COPTIC CAPITAL LETTER SHEI=0003E2;ARABIC LETTER GHAIN=00063A" \o
      ";ARABIC LETTER ALEF WITH RIGHT MIDDLE STROKE AND LEFT RING=00087F" \o
      ";ARABIC LETTER ROHINGYA YEH=0008AC;DEVANAGARI LETTER HEAVY YA=00097A" \o
      ";COMBINING LEFT ARROW ABOVE=0020D6;GREATER-THAN OVER EQUAL TO=002267" \o
      ";APL FUNCTIONAL SYMBOL STILE TILDE=00236D;FLAG IN HOLE=0026F3" \o
      ";GLAGOLITIC CAPITAL LETTER SHTAPIC=002C2C;KANGXI RADICAL CLAW=002F56;KANGXI RADICAL MEAT=002F81" \o
      ";IDEOGRAPHIC DESCRIPTION CHARACTER ABOVE TO BELOW=002FF1" \o
      ";LEFT WHITE TORTOISE SHELL BRACKET=003018;IDEOGRAPHIC ANNOTATION EARTH MARK=00319E" \o
      ";CIRCLED KATAKANA RU=0032F8;CYRILLIC SMALL LETTER TE WITH MIDDLE HOOK=00A68B" \o
      ";LATIN CAPITAL LETTER VISIGOTHIC Z=00A762;DEVANAGARI SIGN DOUBLE CANDRABINDU VIRAMA=00A8F4" \o
      ";ARABIC LETTER DDAHAL ISOLATED FORM=00FB82" \o
      ";ARABIC LETTER ALEF WITH HAMZA BELOW ISOLATED FORM=00FE87;OLD PERSIAN SIGN VA=0103BA" \o
      ";LINEAR A SIGN A732 JE=010755;AVESTAN LETTER YYE=010B2A" \o
      ";INSCRIPTIONAL PAHLAVI NUMBER ONE HUNDRED=010B7E;MAHAJANI LETTER GHA=011158" \o
      ";TIRHUTA LETTER NYA=011498;AHOM NUMBER TWENTY=01173B;SOYOMBO MARK PLUTA=011A9D" \o
      ";CUNEIFORM NUMERIC SIGN FIVE SHARU=012431;EGYPTIAN HIEROGLYPH NU018A=01324A" \o
      ";BAMUM LETTER PHASE-A MEUNJOMNDEUQ=016825;TANGSA LETTER UIUX=016A9B" \o
      ";MEDEFAIDRIN SMALL LETTER X=016E78;DUPLOYAN LETTER UH=01BC57" \o
      ";MATHEMATICAL BOLD ITALIC CAPITAL Z=01D481" \o
      ";MATHEMATICAL SANS-SERIF BOLD ITALIC CAPITAL LAMDA=01D79A;SIGNWRITING HAND-CURLICUE=01D875" \o
      ";SIGNWRITING HAND-FIST LITTLE INDEX THUMB=01D89C" \o
      ";SIGNWRITING MOVEMENT-WALLPLANE WAVE CURVE DOUBLE SMALL=01D999;SIGNWRITING DYNAMIC TENSE=01D9F9" \o
      ";TELEPHONE RECEIVER=01F4DE;REVERSE LIGHT FOUR POINTED PINWHEEL STAR=01F7C8" \o
      ";LARGE ORANGE CIRCLE=01F7E0;LEFTWARDS LEFT-SHADED WHITE ARROW=01F8A4" \o
      ";BOX DRAWINGS LIGHT DIAGONAL MIDDLE RIGHT TO LOWER CENTRE=01FBA3;VS79=0E013E;VS88=0E0147" \o
      ";VS97=0E0150",
    ";NUMBER SIGN=000023;LATIN CAPITAL LETTER AE WITH ACUTE=0001FC;COMBINING OVERLINE=000305" \o
      ";CYRILLIC CAPITAL LETTER EL=00041B;GURMUKHI LETTER OO=000A13;LAO LETTER PALI NYA=000E8E" \o
      ";CANADIAN SYLLABICS FINAL DOWN TACK=00142A;TAI THAM VOWEL SIGN THAM AI=001A72" \o
      ";COMBINING DOWNWARDS ARROW=001AB3;BALINESE LETTER DA MURDA MAHAPRANA=001B20" \o
      ";LEPCHA SUBJOINED LETTER YA=001C24;LEPCHA VOWEL SIGN O=001C28" \o
      ";GREEK CAPITAL LETTER EPSILON WITH DASIA AND VARIA=001F1B;KELVIN SIGN=00212A" \o
      ";CLOCKWISE INTEGRAL=002231;TELEPHONE RECORDER=002315;SYMBOL FOR HORIZONTAL TABULATION=002409" \o
      ";BLACK LOWER RIGHT TRIANGLE=0025E2;DOUBLED FEMALE SIGN=0026A2" \o
      ";DOUBLE RIGHT ARC LESS-THAN BRACKET=002996;COPTIC CAPITAL LETTER SIMA=002CA4" \o
      ";COPTIC CAPITAL LETTER DIALECT-P NI=002CBA;COPTIC CAPITAL LETTER CRYPTOGRAMMIC SHEI=002CEB" \o
      ";CJK RADICAL CLOTHES=002EC2;KANGXI RADICAL LINE=002F01;KANGXI RADICAL DISH=002F6B" \o
      ";KANGXI RADICAL BLUE=002FAD;CIRCLED KATAKANA SU=0032DC;CIRCLED KATAKANA YO=0032F5" \o
      ";SQUARE AARU=003303;MODIFIER LETTER RAISED DOWN ARROW=00A71C;PHAGS-PA LETTER PHA=00A84D" \o
      ";REJANG VOWEL SIGN E=00A949;HANGUL CHOSEONG SSANGYEORINHIEUH=00A97C" \o
      ";MEETEI MAYEK WORD REPETITION MARK=00AAF4;MODIFIER LETTER SMALL HENG=00AB5C" \o
      ";OLD ITALIC LETTER U=010316;OLD PERSIAN SIGN DAHYAAUSH=0103CC;DESERET CAPITAL LETTER VEE=01041A" \o
      ";DESERET CAPITAL LETTER ESH=01041F;SOGDIAN NUMBER ONE HUNDRED=010F54;BRAHMI VOWEL SIGN I=01103A" \o
      ";TIRHUTA LETTER TTA=011499;CUNEIFORM SIGN DAG KISIM5 TIMES LU=012065" \o
      ";CUNEIFORM SIGN GA2 TIMES DA=0120C3;MEDEFAIDRIN SMALL LETTER Y=016E7F" \o
      ";MIAO SIGN REFORMED VOICING=016F52;MIAO VOWEL SIGN ANG=016F58;DUPLOYAN LETTER UI=01BC4A" \o
      ";DUPLOYAN LETTER YE=01BC50;ZNAMENNY COMBINING MARK POVYSHE ON RIGHT=01CF13" \o
      ";MUSICAL SYMBOL COMBINING DOWN BOW=01D1AA;SIGNWRITING HAND-FIST MIDDLE DOWN=01D8C4" \o
      ";SQUARED KATAKANA DE=01F213;SPIRAL CALENDAR PAD=01F5D3;ALCHEMICAL SYMBOL FOR PRECIPITATE=01F75F" \o
      ";RIGHTWARDS ARROW WITH MEDIUM TRIANGLE ARROWHEAD=01F806;MAGE=01F9D9;ONE-PIECE SWIMSUIT=01FA71" \o
      ";VS89=0E0148;VS98=0E0151",
    ";DOUBLE ACUTE ACCENT=0002DD;CYRILLIC CAPITAL LETTER EM=00041C" \o
      ";CYRILLIC CAPITAL LETTER HA WITH DESCENDER=0004B2;CYRILLIC CAPITAL LETTER QA=00051A" \o
      ";ARMENIAN CAPITAL LETTER YI=000545;ARABIC-INDIC PER TEN THOUSAND SIGN=00060A" \o
      ";ARABIC LETTER WAW WITH HAMZA ABOVE=000624;BENGALI DIGIT THREE=0009E9;KANNADA LENGTH MARK=000CD5" \o
      ";MALAYALAM SIGN CANDRABINDU=000D01;LAO LETTER PALI TTA=000E8F;TIBETAN SIGN RDEL DKAR GCIG=000F1A" \o
      ";TIBETAN SUBJOINED LETTER A=000FB8;KHMER VOWEL SIGN AE=0017C2;NEW TAI LUE LETTER HIGH THA=00198F" \o
      ";TAI THAM SIGN SAKOT=001A60;BALINESE SIGN BISAH=001B04;METRICAL TETRASEME=0023D8" \o
      ";BLACK RIGHT POINTING INDEX=00261B;REVERSED EMPTY SET=0029B0" \o
      ";COPTIC SMALL LETTER DIALECT-P KAPA=002CB9;COPTIC SMALL LETTER OLD COPTIC DJA=002CD9" \o
      ";GEORGIAN SMALL LETTER KHAR=002D15;CIRCLED KATAKANA TU=0032E1;KAYAH LI LETTER NYA=00A911" \o
      ";LINEAR B IDEOGRAM B122 OLIVE=010090;AEGEAN NUMBER EIGHT=01010E" \o
      ";GREEK ACROPHONIC ATTIC ONE DRACHMA=010142;OLD PERSIAN SIGN XA=0103A7;OLD PERSIAN SIGN DU=0103AF" \o
      ";DESERET CAPITAL LETTER GAY=010418;DESERET CAPITAL LETTER ETH=01041B" \o
      ";PALMYRENE RIGHT-POINTING FLEURON=010878;OLD TURKIC LETTER ORKHON I=010C03" \o
      ";KHOJKI DOUBLE SECTION MARK=01123C;SIDDHAM LETTER DDHA=01159B;TAKRI VOWEL SIGN AA=0116AD" \o
      ";SOYOMBO LETTER ZHA=011A78;TAMIL SALT PAN SIGN=011FE7;CUNEIFORM SIGN KAD2=012190" \o
      ";TANGSA LETTER UIUZ=016A98;PAHAWH HMONG NUMBER TEN THOUSANDS=016B5D" \o
      ";MEDEFAIDRIN SMALL LETTER Z=016E65;DUPLOYAN LETTER WH=01BC39" \o
      ";ZNAMENNY NEUME OSOKA TRESVETLAYA=01CFB1;BYZANTINE MUSICAL SYMBOL SYNEVMA=01D013" \o
      ";MATHEMATICAL BOLD ITALIC SMALL PHI=01D74B" \o
      ";SIGNWRITING MOVEMENT-FLOORPLANE ARM CIRCLE HITTING WALL MEDIUM SINGLE=01D9E8" \o
      ";COMBINING GLAGOLITIC LETTER DOBRO=01E004;FIRST QUARTER MOON SYMBOL=01F313" \o
      ";BUST IN SILHOUETTE=01F464;RIGHTWARDS TRIANGLE-HEADED ARROW WITH BOLD SHAFT=01F82A" \o
      ";WHITE HEAVY SALTIRE WITH ROUNDED CORNERS=01FBC0;VS99=0E0152",
    ";SUBSTITUTE=00001A;EQUALS SIGN=00003D;LATIN CAPITAL LETTER SCHWA=00018F" \o
      ";CYRILLIC CAPITAL LETTER EN=00041D;ARMENIAN CAPITAL LETTER TO=000539;ARABIC LETTER PEHEH=0006A6" \o
      ";MALAYALAM LETTER CHILLU NN=000D7A;KHMER SIGN KOOMUUT=0017DA;MONGOLIAN LETTER MANCHU KA=001874" \o
      ";BALINESE LETTER KHOT SASAK=001B46;OL CHIKI LETTER ERR=001C72;MINUS-OR-PLUS SIGN=002213" \o
      ";PROPORTION=002237;HELM SYMBOL=002388;POWER SLEEP SYMBOL=0023FE" \o
      ";PLUS SIGN WITH TILDE BELOW=002A26;TRANSPLUTO=002BD7;KANGXI RADICAL SELF=002F83" \o
      ";KANGXI RADICAL CART=002F9E;KANGXI RADICAL RAIN=002FAC;KANGXI RADICAL FISH=002FC2" \o
      ";KANGXI RADICAL HEMP=002FC7;BAMUM LETTER KOVUU=00A6EE" \o
      ";LATIN SMALL LETTER Y WITH SHORT RIGHT LEG=00AB5A;LINEAR B IDEOGRAM B102 WOMAN=010081" \o
      ";OLD PERSIAN SIGN YA=0103B9;HANIFI ROHINGYA LETTER SHA=010D10;MAHAJANI LETTER JHA=01115C" \o
      ";CUNEIFORM SIGN AN PLUS NAGA OPPOSING AN PLUS NAGA=012030;CUNEIFORM SIGN KAD3=012191" \o
      ";CUNEIFORM SIGN LU2 TIMES ESH2 TENU=012201;BASSA VAH LETTER TO=016AE1" \o
      ";PAHAWH HMONG CLAN SIGN PHAB=016B87;MIAO VOWEL SIGN IAN=016F63;DUPLOYAN LETTER WI=01BC5E" \o
      ";ZNAMENNY NEUME VRAKHIYA PROSTAYA=01CF63;BYZANTINE MUSICAL SYMBOL OXEIAI ARCHAION=01D020" \o
      ";BYZANTINE MUSICAL SYMBOL PARAKALESMA NEO=01D05F;COMBINING GREEK MUSICAL TETRASEME=01D243" \o
      ";MATHEMATICAL MONOSPACE DIGIT FOUR=01D7FA;SIGNWRITING GRASP BETWEEN=01D90A" \o
      ";SIGNWRITING MOUTH SMILE WRINKLED=01DA3F;NYIAKENG PUACHUE HMONG LETTER XYA=01E11B" \o
      ";PLAYING CARD JACK OF SPADES=01F0AB;BOUQUET OF FLOWERS=01F395;BANK=01F3E6" \o
      ";BLACK SKULL AND CROSSBONES=01F571;WIDE-HEADED UPWARDS VERY HEAVY BARB ARROW=01F881" \o
      ";BROWN HEART=01F90E;NEUTRAL CHESS EQUIHOPPER ROTATED NINETY DEGREES=01FA4D" \o
      ";BOX DRAWINGS LIGHT DIAGONAL UPPER CENTRE TO MIDDLE RIGHT=01FBA1" \o
      ";STICK FIGURE LEANING RIGHT=01FBC8",
    ";SYRIAC LETTER DOTLESS DALATH RISH=000716;MANDAIC LETTER AKSA=000849" \o
      ";SYRIAC LETTER MALAYALAM RA=000867;ARABIC LETTER QAF WITH DOT BELOW AND NO DOTS ABOVE=0008B5" \o
      ";TELUGU LETTER RRRA=000C5A;SINHALA LETTER TAALUJA NAASIKYAYA=000DA4" \o
      ";THAI CHARACTER LAKKHANGYAO=000E45;GEORGIAN CAPITAL LETTER UN=0010B3;ETHIOPIC WORDSPACE=001361" \o
      ";ETHIOPIC TONAL MARK CHIRET=001396;NEW TAI LUE LETTER FINAL NG=0019C2;BALINESE CARIK SIKI=001B5E" \o
      ";RIGHT SQUARE BRACKET LOWER CORNER=0023A6;BLACK UPPER RIGHT TRIANGLE=0025E5" \o
      ";GLAGOLITIC SMALL LETTER PE=002C4A;KANGXI RADICAL LEGS=002F09" \o
      ";IDEOGRAPHIC ANNOTATION THREE MARK=003194;SQUARE NANO=003328;BAMUM LETTER FAAMAE=00A6ED" \o
      ";PHAGS-PA LETTER SHA=00A85A;LATIN SMALL LETTER L WITH INVERTED LAZY S=00AB37" \o
      ";ARABIC LIGATURE YEH WITH HAMZA ABOVE WITH MEEM FINAL FORM=00FC66" \o
      ";COMBINING CONJOINING MACRON BELOW=00FE2D" \o
      ";HALFWIDTH KATAKANA-HIRAGANA PROLONGED SOUND MARK=00FF70;LINEAR B IDEOGRAM B109M BULL=01008D" \o
      ";GOTHIC LETTER URUS=01033F;OLD PERSIAN SIGN ZA=0103C0;DESERET CAPITAL LETTER YEE=01040F" \o
      ";HANIFI ROHINGYA DIGIT FOUR=010D34;RUMI NUMBER NINETY=010E71;KAITHI VOWEL SIGN E=0110B5" \o
      ";CHAKMA DANDA=011141;MAHAJANI LETTER KHA=011156;SHARADA DIGIT THREE=0111D3" \o
      ";DOGRA VOWEL SIGN II=01182E;CUNEIFORM SIGN GI4 OVER GI4=012105;CUNEIFORM SIGN KAD4=012192" \o
      ";CUNEIFORM SIGN UZU=01235C;CUNEIFORM SIGN GA2 TIMES GA=0124BB" \o
      ";BAMUM LETTER PHASE-B YAFU LEERAEWA=016862;BYZANTINE MUSICAL SYMBOL KORONIS=01D089" \o
      ";MUSICAL SYMBOL F CLEF OTTAVA BASSA=01D124" \o
      ";MATHEMATICAL SANS-SERIF BOLD ITALIC CAPITAL GAMMA=01D792" \o
      ";MENDE KIKAKUI SYLLABLE M175 LONG JO=01E852;THREE BUTTON MOUSE=01F5B1;PAGE=01F5CF",
    ";CYRILLIC CAPITAL LETTER PE=00041F;CYRILLIC CAPITAL LETTER KA WITH DESCENDER=00049A" \o
      ";ARMENIAN CAPITAL LETTER VO=000548;ARABIC LETTER TCHEH=000686;ETHIOPIC SEMICOLON=001364" \o
      ";TAI THAM LETTER LUE=001A44;BALINESE DIGIT FIVE=001B55;BALINESE DIGIT NINE=001B59" \o
      ";BATAK LETTER SIMALUNGUN GA=001BCF;MINUS TILDE=002242;N-ARY INTERSECTION=0022C2" \o
      ";SYMBOL FOR DELETE FORM TWO=002425;SQUARED KEY=0026BF;ANTICLOCKWISE GAPPED CIRCLE ARROW=0027F2" \o
      ";RIGHTWARDS ARROW WITH TAIL WITH VERTICAL STROKE=002914;POSTAL MARK=003012" \o
      ";IDEOGRAPHIC TELEGRAPH LINE FEED SEPARATOR SYMBOL=003037;PHAGS-PA LETTER THA=00A849" \o
      ";PHAGS-PA LETTER NNA=00A86C;REJANG VOWEL SIGN I=00A947" \o
      ";ARABIC LIGATURE DAD WITH HAH ISOLATED FORM=00FC23" \o
      ";ARABIC LIGATURE DAD WITH KHAH INITIAL FORM=00FCB6" \o
      ";ARABIC LIGATURE DAD WITH KHAH WITH MEEM FINAL FORM=00FD6F;SMALL HYPHEN-MINUS=00FE63" \o
      ";HALFWIDTH HANGUL LETTER EO=00FFC6;HALFWIDTH HANGUL LETTER OE=00FFCF;OLD PERMIC LETTER O=010369" \o
      ";OLD PERSIAN SIGN GU=0103A6;DESERET CAPITAL LETTER ZEE=01041E;ZANABAZAR SQUARE LETTER BA=011A20" \o
      ";BHAIKSUKI LETTER VOCALIC R=011C06;CUNEIFORM SIGN GA2 TIMES GI4 PLUS A=0120CF" \o
      ";CUNEIFORM SIGN KAD5=012193;CUNEIFORM SIGN NU11=012262" \o
      ";CUNEIFORM NUMERIC SIGN TWO THIRDS VARIANT FORM A=01245E;PAHAWH HMONG CONSONANT CAU=016B2F" \o
      ";PAHAWH HMONG SIGN CIM CHEEM=016B39;MIAO VOWEL SIGN ENG=016F5F" \o
      ";MUSICAL SYMBOL G CLEF OTTAVA BASSA=01D120;TETRAGRAM FOR GATHERING IN=01D33F" \o
      ";SIGNWRITING HAND-FLAT HEEL FIVE FINGERS SPREAD FOUR BENT=01D84F" \o
      ";INDIC SIYAQ NUMBER SEVEN THOUSAND=01EC92;SQUARED VOD=01F1AC;BASKETBALL AND HOOP=01F3C0" \o
      ";BABY=01F476;WHITE TOUCHTONE TELEPHONE=01F57E;ALCHEMICAL SYMBOL FOR HOUR=01F76E" \o
      ";BOLD EIGHT SPOKED ASTERISK=01F7BD;LEFTWARDS WHITE ARROW WITHIN TRIANGLE ARROWHEAD=01F894",
    ";SET TRANSMIT STATE=000093;MODIFIER LETTER CIRCUMFLEX ACCENT=0002C6;TAMIL VOWEL SIGN EE=000BC7" \o
      ";TAMIL VOWEL SIGN AI=000BC8;KANNADA SIGN VIRAMA=000CCD;KHMER VOWEL SIGN AI=0017C3" \o
      ";KHMER SYMBOL PRAM-PII KOET=0019E7;BATAK LETTER SIMALUNGUN HA=001BC3" \o
      ";LEPCHA PUNCTUATION TSHOOK=001C3F;SOUND RECORDING COPYRIGHT=002117;CIRCLED DIGIT THREE=002462" \o
      ";NEGATIVE CIRCLED NUMBER SEVENTEEN=0024F1;GEAR=002699;DOUBLE PLUS=0029FA" \o
      ";KANGXI RADICAL TALL=002FBC;SQUARE RIRA=003352;LATIN SMALL LETTER K WITH DIAGONAL STROKE=00A743" \o
      ";HEBREW POINT JUDEO-SPANISH VARIKA=00FB1E" \o
      ";ARABIC LIGATURE NOON WITH ALEF MAKSURA FINAL FORM=00FC8E" \o
      ";ARABIC LIGATURE SHEEN WITH HAH MEDIAL FORM=00FD38;HALFWIDTH DOWNWARDS ARROW=00FFEC" \o
      ";LINEAR B MONOGRAM B133 AREPA=010098;DESERET CAPITAL LETTER KAY=010417" \o
      ";LINEAR A SIGN A100-102=010647;KAITHI LETTER DDDHA=01109A;SIDDHAM LETTER ALTERNATE U=0115DB" \o
      ";ZANABAZAR SQUARE LETTER CA=011A10;SOYOMBO LETTER SSA=011A80" \o
      ";CUNEIFORM NUMERIC SIGN NINE VARIANT FORM ILIMMU3=012447" \o
      ";CUNEIFORM SIGN LAK-449 TIMES PAP PLUS PAP PLUS LU3=0124F5;MIAO LETTER YI DZHA=016F31" \o
      ";MATHEMATICAL BOLD SCRIPT CAPITAL A=01D4D0;INDIC SIYAQ NUMBER FIFTY THOUSAND=01EC99" \o
      ";ARABIC MATHEMATICAL STRETCHED DOTLESS BEH=01EE7C;SQUARED NEW=01F195;BELL=01F514" \o
      ";EMPTY PAGES=01F5CD;BATH=01F6C0;UPWARDS FINGER-POST ARROW=01F835" \o
      ";VERTICAL ONE EIGHTH BLOCK-2=01FB70;TAG SOLIDUS=0E002F",
    ";CYRILLIC CAPITAL LETTER ER=000420;ARABIC LETTER TEHEH=00067F;THAANA LETTER FAAFU=00078A" \o
      ";SAMARITAN PUNCTUATION SHIYYAALAA=000835;GUJARATI LETTER VOCALIC LL=000AE1" \o
      ";KANNADA DIGIT SEVEN=000CED;FVS1=00180B;MONGOLIAN LETTER TODO ALI GALI ZHA=001899" \o
      ";NEW TAI LUE LETTER HIGH KVA=0019A6;TAI THAM LETTER NYA=001A2C;COMBINING INFINITY=001AB2" \o
      ";BALINESE VOWEL SIGN TALING=001B3E;LEPCHA VOWEL SIGN U=001C2A;RIGHT FLOOR=00230B" \o
      ";RIGHT SQUARE BRACKET UPPER CORNER=0023A4;BEAMED EIGHTH NOTES=00266B;INVERTED PENTAGRAM=0026E7" \o
      ";OBLIQUE ANGLE OPENING DOWN=0029A7;DOUBLE NESTED GREATER-THAN=002AA2" \o
      ";EQUALS SIGN ABOVE LEFTWARDS ARROW=002B40;COPTIC CAPITAL LETTER ZATA=002C8C" \o
      ";GEORGIAN SMALL LETTER PHAR=002D14;KANGXI RADICAL TILE=002F61;KANGXI RADICAL BODY=002F9D" \o
      ";KANGXI RADICAL FROG=002FCC;KANGXI RADICAL EVEN=002FD1;IDEOGRAPHIC ANNOTATION THIRD MARK=00319B" \o
      ";CIRCLED KATAKANA YU=0032F4;IDEOGRAPHIC TELEGRAPH SYMBOL FOR DAY FIVE=0033E4" \o
      ";IDEOGRAPHIC TELEGRAPH SYMBOL FOR DAY NINE=0033E8;PHAGS-PA LETTER DZA=00A852" \o
      ";MYANMAR LOGOGRAM KHAMTI HM=00AA76;MODIFIER LETTER RIGHT TACK=00AB6B" \o
      ";HALFWIDTH KATAKANA SEMI-VOICED SOUND MARK=00FF9F;LINEAR B IDEOGRAM B159 CLOTH=0100A7" \o
      ";GREEK ACROPHONIC HERMIONIAN FIFTY=010168;NABATAEAN LETTER PE=010898" \o
      ";OLD HUNGARIAN SMALL LETTER CLOSE E=010CCA;BRAHMI VOWEL SIGN O=011044" \o
      ";MAHAJANI ABBREVIATION SIGN=011174;SINHALA ARCHAIC NUMBER ONE HUNDRED=0111F3" \o
      ";ZANABAZAR SQUARE LETTER DA=011A1B;SOYOMBO LETTER NYA=011A65;SOYOMBO LETTER TSA=011A75" \o
      ";CANADIAN SYLLABICS NATTILIK SHROO=011AB9" \o
      ";CUNEIFORM NUMERIC SIGN NINE VARIANT FORM ILIMMU4=012448" \o
      ";CUNEIFORM SIGN LAK-648 TIMES PAP PLUS PAP PLUS LU3=012513;DUPLOYAN LETTER OU=01BC5B" \o
      ";MUSICAL SYMBOL SIXTY-FOURTH NOTE=01D163;MATHEMATICAL BOLD SCRIPT CAPITAL B=01D4D1" \o
      ";MATHEMATICAL SANS-SERIF BOLD ITALIC CAPITAL ALPHA=01D790" \o
      ";MATHEMATICAL MONOSPACE DIGIT ZERO=01D7F6;SIGNWRITING MOVEMENT-HINGE UP DOWN LARGE=01D921" \o
      ";SIGNWRITING MOVEMENT-WALLPLANE WAVE CURVE TRIPLE LARGE=01D99E;BOMB=01F4A3" \o
      ";DOCUMENT WITH TEXT=01F5B9;DEER=01F98C;VERTICAL ONE EIGHTH BLOCK-3=01FB71",
    ";LATIN CAPITAL LETTER HWAIR=0001F6;GREEK CAPITAL LETTER ARCHAIC SAMPI=000372;GREEK TONOS=000384" \o
      ";CYRILLIC CAPITAL LETTER IO=000401;CYRILLIC CAPITAL LETTER ES=000421" \o
      ";ARABIC-INDIC PER MILLE SIGN=000609;ARABIC LETTER SHEEN WITH DOT BELOW=0006FA" \o
      ";THAANA LETTER GAAFU=00078E;MALAYALAM LETTER AA=000D06;GEORGIAN CAPITAL LETTER YN=0010C7" \o
      ";FVS2=00180C;LIMBU VOWEL SIGN EE=001923;LIMBU VOWEL SIGN AI=001924" \o
      ";BALINESE LETTER DA MURDA ALPAPRANA=001B1F;MODIFIER LETTER CAPITAL OU=001D3D;NAND=0022BC" \o
      ";GLAGOLITIC SMALL LETTER LATINATE MYSLITE=002C5E;KANGXI RADICAL WALK=002FA1" \o
      ";RIGHT ANGLE BRACKET=003009;HANGUL LETTER SSANGTIKEUT=003138;SYLOTI NAGRI POETRY MARK-1=00A828" \o
      ";ARABIC SUKUN ISOLATED FORM=00FE7E;OLD PERSIAN SIGN VI=0103BB;OLD TURKIC LETTER ORKHON O=010C06" \o
      ";HANIFI ROHINGYA DIGIT ZERO=010D30;KAITHI VOWEL SIGN I=0110B1;DOGRA VOWEL SIGN AU=011836" \o
      ";SOYOMBO LETTER TTA=011A66;CUNEIFORM SIGN GAN2=0120F7;CUNEIFORM SIGN LU2 SQUARED=012214" \o
      ";BYZANTINE MUSICAL SYMBOL FTHORA ARCHAION=01D034;MATHEMATICAL BOLD SCRIPT CAPITAL C=01D4D2" \o
      ";HERB=01F33F;BIRD=01F426;BLACK DOWN POINTING BACKHAND INDEX=01F5A3;FIRECRACKER=01F9E8" \o
      ";BLACK CHESS BISHOP ROTATED NINETY DEGREES=01FA12" \o
      ";BLACK CHESS KNIGHT ROTATED NINETY DEGREES=01FA13;VERTICAL ONE EIGHTH BLOCK-4=01FB72",
    ";COPTIC CAPITAL LETTER HORI=0003E8;CYRILLIC CAPITAL LETTER TE=000422" \o
      ";CYRILLIC SMALL LETTER U WITH DOUBLE ACUTE=0004F3;HEBREW ACCENT REVIA=000597;ARABIC DAMMA=00064F" \o
      ";MALAYALAM LETTER BA=000D2C;MALAYALAM DIGIT ONE=000D67;FVS3=00180D" \o
      ";MONGOLIAN VOWEL SEPARATOR=00180E;KHMER SYMBOL PRAM-BUON ROC=0019F9" \o
      ";GREEK SMALL LETTER IOTA WITH DASIA=001F31;VULGAR FRACTION ONE EIGHTH=00215B" \o
      ";APL FUNCTIONAL SYMBOL QUAD UPWARDS ARROW=002350;APL FUNCTIONAL SYMBOL SEMICOLON UNDERBAR=00236E" \o
      ";ANKH=002625;FUNERAL URN=0026B1;LATIN CROSS=00271D" \o
      ";EQUALS SIGN AND SLANTED PARALLEL WITH TILDE ABOVE=0029E4" \o
      ";GLAGOLITIC SMALL LETTER SMALL YUS=002C54;COPTIC SMALL LETTER OLD COPTIC HEI=002CD3" \o
      ";TIFINAGH LETTER BERBER ACADEMY YAH=002D41;KANGXI RADICAL TREE=002F4A;KANGXI RADICAL LONG=002FA7" \o
      ";CIRCLED IDEOGRAPH SUITABLE=00329C;CIRCLED IDEOGRAPH RELIGION=0032AA;SQUARE MIRI=003349" \o
      ";SYLOTI NAGRI POETRY MARK-2=00A829;ARABIC LIGATURE SEEN WITH KHAH MEDIAL FORM=00FD36" \o
      ";PRESENTATION FORM FOR VERTICAL LEFT PARENTHESIS=00FE35;HALFWIDTH HANGUL LETTER WA=00FFCD" \o
      ";AEGEAN NUMBER THREE=010109;COPTIC EPACT NUMBER EIGHTY=0102F1;GOTHIC LETTER NINE HUNDRED=01034A" \o
      ";OLD PERSIAN SIGN KU=0103A4;MAHAJANI LETTER PHA=011169;CUNEIFORM SIGN GA2 TIMES DI=0120C4" \o
      ";CUNEIFORM SIGN GA2 TIMES LA=0120DD;CUNEIFORM NUMERIC SIGN THREE BURU=012436" \o
      ";BASSA VAH LETTER ZO=016ADC;BASSA VAH FULL STOP=016AF5;MEDEFAIDRIN NUMBER FIFTEEN=016E8F" \o
      ";MIAO VOWEL SIGN ING=016F69;DUPLOYAN LETTER OW=01BC5A;DUPLOYAN LETTER WO=01BC5D" \o
      ";TETRAGRAM FOR CONTRARIETY=01D30B;MATHEMATICAL BOLD SCRIPT CAPITAL D=01D4D3" \o
      ";SIGNWRITING HAND-FLAT HEEL=01D85C;SIGNWRITING HAND-CIRCLE LITTLE UP=01D894" \o
      ";SIGNWRITING TOUCH BETWEEN=01D907;MAHJONG TILE BAMBOO=01F024;RIGHT SPEECH BUBBLE=01F5E9" \o
      ";LEFTWARDS ARROW WITH NOTCHED TAIL=01F898;VERTICAL ONE EIGHTH BLOCK-5=01FB73",
    ";LATIN CAPITAL LETTER A WITH MACRON=000100;LATIN CAPITAL LETTER GLOTTAL STOP=000241" \o
      ";MODIFIER LETTER OPEN SHELF=0002FE;CYRILLIC CAPITAL LETTER YA=00042F" \o
      ";CYRILLIC SMALL LETTER REVERSED ZE=000511;CYRILLIC CAPITAL LETTER EL WITH DESCENDER=00052E" \o
      ";ARABIC LETTER HAMZA=000621;ARABIC LETTER NGOEH=0006B1" \o
      ";ARABIC LARGE ROUND DOT INSIDE CIRCLE BELOW=0008D2;DEVANAGARI LETTER A=000905" \o
      ";BENGALI SIGN VIRAMA=0009CD;KANNADA LETTER LLLA=000CDE;MALAYALAM LETTER CA=000D1A" \o
      ";THAI CHARACTER THANTHAKHAT=000E4C;KHMER VOWEL SIGN IE=0017C0;FVS4=00180F" \o
      ";MONGOLIAN LETTER MANCHU RA=001875;BALINESE VOWEL SIGN RA REPA TEDUNG=001B3B" \o
      ";BATAK LETTER SIMALUNGUN LA=001BDF;OL CHIKI LETTER INY=001C67;VEDIC SIGN VISARGA SVARITA=001CE2" \o
      ";GREEK CAPITAL LETTER ETA WITH OXIA=001FCB;WORD JOINER=002060;WHITE CIRCLE WITH TWO DOTS=002687" \o
      ";SQUARED LOGICAL AND=0027CE;UPPER LEFT CORNER WITH DOT=0027D4;DIAMOND WITH TOP HALF BLACK=002B18" \o
      ";ANTICLOCKWISE TRIANGLE-HEADED TOP U-SHAPED ARROW=002B8F;SQUARE POSITION INDICATOR=002BD0" \o
      ";KANGXI RADICAL HOOK=002F05;SQUARE BIRU=003331;CYRILLIC SMALL LETTER MONOCULAR O=00A669" \o
      ";SYLOTI NAGRI POETRY MARK-3=00A82A;ARABIC LIGATURE DAD WITH JEEM INITIAL FORM=00FCB4" \o
      ";ARABIC LIGATURE SHEEN WITH HEH MEDIAL FORM=00FCEA" \o
      ";OLD SOGDIAN LETTER FINAL SADHE WITH VERTICAL TAIL=010F17;CHAKMA SIGN VISARGA=011102" \o
      ";KHOJKI VOWEL SIGN E=011230;TAKRI VOWEL SIGN AI=0116B3;ZANABAZAR SQUARE LETTER GA=011A0D" \o
      ";MASARAM GONDI REPHA=011D46;CUNEIFORM SIGN NIM TIMES GAN2 TENU=012250" \o
      ";CUNEIFORM SIGN GA2 TIMES NE PLUS E2=0124C5;PAHAWH HMONG CONSONANT HAU=016B1F" \o
      ";ZNAMENNY NEUME STRELA KRYZHEVAYA=01CF94;MATHEMATICAL BOLD SCRIPT CAPITAL E=01D4D4" \o
      ";MATHEMATICAL ITALIC SMALL UPSILON=01D710;MATHEMATICAL BOLD ITALIC SMALL RHO=01D746" \o
      ";MATHEMATICAL SANS-SERIF BOLD ITALIC CAPITAL OMEGA=01D7A8;SIGNWRITING BRUSH BETWEEN=01D910" \o
      ";ARABIC MATHEMATICAL STRETCHED DOTLESS FEH=01EE7E;PLAYING CARD JACK OF HEARTS=01F0BB" \o
      ";WHITE SUN WITH SMALL CLOUD=01F324;EAR OF MAIZE=01F33D;BEACH WITH UMBRELLA=01F3D6" \o
      ";GIRAFFE FACE=01F992;VERTICAL ONE EIGHTH BLOCK-6=01FB74",
    ";ACKNOWLEDGE=000006;CYRILLIC CAPITAL LETTER VE=000412;HEBREW ACCENT MUNAH=0005A3" \o
      ";ARABIC PERCENT SIGN=00066A;BENGALI DIGIT SEVEN=0009ED;ORIYA VOWEL SIGN AA=000B3E" \o
      ";MALAYALAM LETTER DA=000D26;MALAYALAM SIGN PARA=000D4F;MALAYALAM LETTER CHILLU RR=000D7C" \o
      ";GEORGIAN LETTER TURNED GAN=0010F9;TAI THAM LETTER RUE=001A42;BATAK LETTER SIMALUNGUN MA=001BD5" \o
      ";OL CHIKI LETTER UNN=001C6C;LATIN SMALL LETTER U WITH DIAERESIS BELOW=001E73" \o
      ";EURO-CURRENCY SIGN=0020A0;ERROR-BARRED WHITE DIAMOND=0029F0;INTERSECTION WITH OVERBAR=002A43" \o
      ";COPTIC SMALL LETTER OLD COPTIC AIN=002CB5;TIFINAGH LETTER BERBER ACADEMY YAJ=002D35" \o
      ";TIFINAGH LETTER TUAREG YAH=002D42;LEFT SUBSTITUTION BRACKET=002E02;KANGXI RADICAL WIND=002FB5" \o
      ";RIGHT WHITE CORNER BRACKET=00300F;BOPOMOFO LETTER ZY=0031BA;CIRCLED NUMBER FORTY EIGHT=0032BD" \o
      ";SQUARE PIKO=003330;LATIN SMALL LETTER REVERSED HALF H=00A7F6;SYLOTI NAGRI POETRY MARK-4=00A82B" \o
      ";PHAGS-PA LETTER ZHA=00A854;REJANG VOWEL SIGN O=00A94B;ARABIC LETTER OE FINAL FORM=00FBDA" \o
      ";ARABIC LIGATURE BEH WITH HAH ISOLATED FORM=00FC06" \o
      ";ARABIC LIGATURE BEH WITH KHAH INITIAL FORM=00FC9E;HALFWIDTH HANGUL LETTER YA=00FFC4" \o
      ";HALFWIDTH HANGUL LETTER EU=00FFDA;AEGEAN NUMBER SIX THOUSAND=010127;OLD PERMIC LETTER U=010363" \o
      ";OLD PERSIAN SIGN MU=0103B8;OLD PERSIAN NUMBER HUNDRED=0103D5;BRAHMI NUMBER ONE THOUSAND=011065" \o
      ";KHUDAWADI LETTER AA=0112B1;ZANABAZAR SQUARE LETTER HA=011A31" \o
      ";MASARAM GONDI VOWEL SIGN VOCALIC R=011D36;CUNEIFORM SIGN GA2 TIMES AN=0120BC" \o
      ";CUNEIFORM SIGN GABA=0120EE;CUNEIFORM SIGN KAM2=01219A;CUNEIFORM NUMERIC SIGN FOUR GESHU=012421" \o
      ";BAMUM LETTER PHASE-B LAANAE=016871;BASSA VAH LETTER VU=016AE3;MEDEFAIDRIN EXCLAMATION OH=016E9A" \o
      ";HENTAIGANA LETTER N-MU-MO-1=01B11D;ZNAMENNY NEUME PEREVODKA NEPOSTOYANNAYA=01CF59" \o
      ";BYZANTINE MUSICAL SYMBOL LEIMMA IMISEOS CHRONOU=01D08E" \o
      ";MUSICAL SYMBOL TRIANGLE NOTEHEAD UP BLACK=01D149;MATHEMATICAL BOLD SCRIPT CAPITAL F=01D4D5" \o
      ";MATHEMATICAL BOLD ITALIC SMALL TAU=01D749;MATHEMATICAL SANS-SERIF BOLD NABLA=01D76F" \o
      ";MATHEMATICAL SANS-SERIF BOLD ITALIC CAPITAL DELTA=01D793" \o
      ";SIGNWRITING HAND-FIST THUMB BETWEEN INDEX MIDDLE=01D8FB" \o
      ";SIGNWRITING EYEGAZE-FLOORPLANE STRAIGHT=01DA24;CIRCUS TENT=01F3AA;BOAR=01F417" \o
      ";MAN AND WOMAN HOLDING HANDS=01F46B;LINK SYMBOL=01F517" \o
      ";ALCHEMICAL SYMBOL FOR SUBLIMATE OF COPPER=01F722" \o
      ";LEFTWARDS TRIANGLE-HEADED ARROW WITH HEAVY SHAFT=01F82C;BONE=01F9B4" \o
      ";VERTICAL ONE EIGHTH BLOCK-7=01FB75",
    ";CYRILLIC CAPITAL LETTER EN WITH DESCENDER=0004A2;CYRILLIC CAPITAL LETTER WE=00051C" \o
      ";HEBREW ACCENT SEGOL=000592;ARABIC LETTER SHEEN=000634;THAANA LETTER KAAFU=000786" \o
      ";TIBETAN MARK ANG KHANG GYAS=000F3D;TAI THAM VOWEL SIGN MAI SAT=001A62" \o
      ";MODIFIER LETTER SMALL IOTA=001DA5;COMBINING DOUBLE VERTICAL STROKE OVERLAY=0020E6" \o
      ";COMBINING LEFT ARROW BELOW=0020EE;ROMAN NUMERAL FIVE HUNDRED=00216E;STAR EQUALS=00225B" \o
      ";SQUARE IMAGE OF OR EQUAL TO=002291;FIRST QUARTER MOON=00263D" \o
      ";MATHEMATICAL RIGHT FLATTENED PARENTHESIS=0027EF;UP DOWN BLACK ARROW=002B0D" \o
      ";COPTIC SMALL LETTER OLD NUBIAN NGI=002CDF;KANGXI RADICAL SILK=002F77;KANGXI RADICAL WINE=002FA3" \o
      ";IDEOGRAPHIC DESCRIPTION CHARACTER FULL SURROUND=002FF4;SQUARE INTI=003305;SQUARE HOON=003342" \o
      ";LATIN SMALL LETTER Q WITH DIAGONAL STROKE=00A759;ARABIC LETTER NG FINAL FORM=00FBD4" \o
      ";ROMAN DIMIDIA SEXTULA SIGN=010194;OLD PERSIAN SIGN NU=0103B5;HANIFI ROHINGYA LETTER RRA=010D0D" \o
      ";HANIFI ROHINGYA SIGN TASSI=010D27;CHAKMA SECTION MARK=011140;SHARADA SIGN VIRAMA=0111C0" \o
      ";KHUDAWADI LETTER BA=0112D4;KHUDAWADI DIGIT ONE=0112F1;CUNEIFORM SIGN DIM2=012076" \o
      ";CUNEIFORM SIGN GA2 TIMES GI=0120CD;CUNEIFORM SIGN TAB SQUARED=0122F2" \o
      ";HENTAIGANA LETTER N-MU-MO-2=01B11E;BYZANTINE MUSICAL SYMBOL OLIGON ARCHAION=01D015" \o
      ";MUSICAL SYMBOL BREATH MARK=01D112;MATHEMATICAL BOLD SCRIPT CAPITAL G=01D4D6" \o
      ";INDIC SIYAQ NUMBER KARORAN=01ECA2;SQUARED KATAKANA SA=01F202;FLOPPY DISK=01F4BE" \o
      ";ALCHEMICAL SYMBOL FOR AURIPIGMENT=01F73D;SEAL=01F9AD",
    ";LATIN CAPITAL LETTER A WITH OGONEK=000104;ARABIC FATHA=00064E;GURMUKHI LETTER UU=000A0A" \o
      ";NEW TAI LUE LETTER HIGH TSA=001988;VEDIC SIGN ATIKRAMA=001CF7" \o
      ";UNION BESIDE AND JOINED WITH UNION=002A4A;KANGXI RADICAL DOOR=002F3E;KANGXI RADICAL SALT=002FC4" \o
      ";SQUARE KIRO=003314;JAVANESE LETTER DDA=00A99D;ARABIC LIGATURE DAD WITH MEEM INITIAL FORM=00FCB7" \o
      ";HALFWIDTH HANGUL LETTER WE=00FFD5;GREEK ACROPHONIC DELPHIC FIVE MNAS=010173" \o
      ";MODIFIER LETTER SMALL D WITH HOOK AND TAIL=01078D;BRAHMI VOWEL SIGN U=01103C" \o
      ";MAHAJANI LETTER NNA=011162;MAHAJANI LETTER THA=011164;SHARADA DIGIT SEVEN=0111D7" \o
      ";KHUDAWADI LETTER CA=0112C0;GRANTHA LETTER DDHA=011322;ZANABAZAR SQUARE LETTER JA=011A12" \o
      ";CUNEIFORM SIGN DUB2=012080;CUNEIFORM SIGN GA2 TIMES EL=0120C7" \o
      ";CUNEIFORM SIGN GA2 TIMES PA=0120E2;CUNEIFORM SIGN GAR3=0120FC;CUNEIFORM SIGN KAM4=01219B" \o
      ";CUNEIFORM SIGN BAD TIMES DISH TENU=012483;BAMUM LETTER PHASE-C MAEMBA=0168DE" \o
      ";BYZANTINE MUSICAL SYMBOL MARTYRIA PLAGIOS ICHOS=01D0AB" \o
      ";BYZANTINE MUSICAL SYMBOL FTHORA MALAKON CHROMA DIFONIAS=01D0C3" \o
      ";MUSICAL SYMBOL DOUBLE FLAT=01D12B;MATHEMATICAL BOLD SCRIPT CAPITAL H=01D4D7" \o
      ";MATHEMATICAL BOLD ITALIC SMALL PSI=01D74D" \o
      ";MATHEMATICAL SANS-SERIF BOLD ITALIC CAPITAL THETA SYMBOL=01D7A1" \o
      ";SIGNWRITING HAND-HINGE THUMB SIDE TOUCHING INDEX=01D883" \o
      ";SIGNWRITING HAND-CIRCLE INDEX MIDDLE RING=01D887" \o
      ";SIGNWRITING MOVEMENT-WALLPLANE CORNER ROTATION=01D93E;OTTOMAN SIYAQ NUMBER FIVE HUNDRED=01ED17" \o
      ";OTTOMAN SIYAQ NUMBER NINE HUNDRED=01ED1B;SQUARED SHV=01F1AA;ODEN=01F362;OK HAND SIGN=01F44C" \o
      ";LOVE LETTER=01F48C;FIRE=01F525;VERY HEAVY SOLIDUS=01F67C" \o
      ";MEDIUM FOUR POINTED PINWHEEL STAR=01F7C7;TAKEOUT BOX=01F961;DODO=01F9A4",
    ";LATIN CAPITAL LETTER E WITH MACRON=000112" \o
      ";CYRILLIC CAPITAL LETTER CHE WITH VERTICAL STROKE=0004B8" \o
      ";CYRILLIC CAPITAL LETTER PE WITH DESCENDER=000524;ARABIC HALF MADDA OVER MADDA=00089F" \o
      ";ARABIC LETTER STRAIGHT WAW=0008B1;DEVANAGARI LETTER E=00090F;TAMIL VOWEL SIGN II=000BC0" \o
      ";MALAYALAM LETTER GA=000D17;MYANMAR TONE MARK SGAW KAREN HATHI=001063;CHEROKEE LETTER DLA=0013DC" \o
      ";KHMER VOWEL SIGN II=0017B8;NEW TAI LUE LETTER HIGH SUA=0019AA;BATAK LETTER SIMALUNGUN PA=001BC8" \o
      ";LATIN SMALL LETTER E WITH MACRON AND ACUTE=001E17;TUGRIK SIGN=0020AE;NUMERO SIGN=002116" \o
      ";UP RIGHT DIAGONAL ELLIPSIS=0022F0;ATOM SYMBOL=00269B;PICK=0026CF" \o
      ";DINGBAT NEGATIVE CIRCLED DIGIT SIX=00277B;ANTICLOCKWISE CLOSED CIRCLE ARROW=002940" \o
      ";DOWNWARDS TRIANGLE-HEADED ARROW WITH LONG TIP LEFTWARDS=002BA0" \o
      ";LEFTWARDS TRIANGLE-HEADED ARROW WITH LONG TIP DOWNWARDS=002BA6" \o
      ";GEORGIAN SMALL LETTER SHIN=002D18;TIFINAGH LETTER TUAREG YAK=002D3E;KANGXI RADICAL SKIN=002F6A" \o
      ";KANGXI RADICAL NOSE=002FD0;ARABIC LIGATURE KAF WITH HAH ISOLATED FORM=00FC39" \o
      ";ARABIC LIGATURE KAF WITH KHAH INITIAL FORM=00FCC6" \o
      ";ARABIC LIGATURE SEEN WITH JEEM MEDIAL FORM=00FD34" \o
      ";OLD HUNGARIAN CAPITAL LETTER RUDIMENTA OE=010C9E;OLD HUNGARIAN NUMBER FIFTY=010CFD" \o
      ";KAITHI VOWEL SIGN O=0110B7;CHAKMA LETTER TTHAA=011112;KHOJKI VOWEL SIGN I=01122D" \o
      ";KHUDAWADI LETTER DA=0112CF;NEWA LETTER VEDIC ANUSVARA=01145F;ZANABAZAR SQUARE LETTER KA=011A0B" \o
      ";BHAIKSUKI SIGN CANDRABINDU=011C3C;CUNEIFORM SIGN ASH2=01203E;CUNEIFORM SIGN NAM2=012247" \o
      ";PAHAWH HMONG CONSONANT LAU=016B1E;MIAO VOWEL SIGN UEI=016F6F;ZNAMENNY NEUME CHELYUSTKA=01CF5B" \o
      ";MATHEMATICAL BOLD SCRIPT CAPITAL I=01D4D8" \o
      ";MATHEMATICAL SANS-SERIF BOLD ITALIC CAPITAL KAPPA=01D799;TACO=01F32E" \o
      ";ALCHEMICAL SYMBOL FOR SUBLIMATION=01F75E;RIGHTWARDS TOP SHADED WHITE ARROW=01F8A3;DUCK=01F986" \o
      ";COAT=01F9E5",
    ";SOFT HYPHEN=0000AD;CYRILLIC CAPITAL LETTER ZE=000417;CYRILLIC SMALL LETTER FITA=000473" \o
      ";CYRILLIC CAPITAL LETTER SHORT I WITH TAIL=00048A;CYRILLIC SMALL LETTER SHHA=0004BB" \o
      ";ARABIC SUPERSCRIPT ALEF MOKHASSAS=00089D;MALAYALAM LETTER HA=000D39;TIBETAN LETTER DDHA=000F4D" \o
      ";HANGUL JONGSEONG KAPYEOUNPHIEUPH=0011F4;KHMER INDEPENDENT VOWEL QE=0017AF" \o
      ";MONGOLIAN LETTER ALI GALI A=001887;BALINESE VOWEL SIGN TEDUNG=001B35" \o
      ";MODIFIER LETTER SMALL J WITH CROSSED-TAIL=001DA8;NOT SQUARE ORIGINAL OF OR EQUAL TO=0022E3" \o
      ";SQUARE ORIGINAL OF OR NOT EQUAL TO=0022E5;CIRCLED DIGIT SEVEN=002466;BLACK DRAUGHTS KING=0026C3" \o
      ";LOWER RIGHT SHADOWED WHITE SQUARE=002751;OPEN SUBSET=0027C3" \o
      ";LATIN SMALL LETTER T WITH DIAGONAL STROKE=002C66;KANGXI RADICAL ROOF=002F27;SQUARE PESO=003337" \o
      ";CYRILLIC SMALL LETTER TCHE=00A693;JAVANESE DIGIT FIVE=00A9D5;JAVANESE DIGIT NINE=00A9D9" \o
      ";ARABIC LIGATURE FEH WITH HAH ISOLATED FORM=00FC2E" \o
      ";ARABIC LIGATURE FEH WITH KHAH INITIAL FORM=00FCC0" \o
      ";ARABIC LIGATURE THEH WITH MEEM MEDIAL FORM=00FCE5" \o
      ";ARABIC LIGATURE SHEEN WITH KHAH FINAL FORM=00FD27" \o
      ";ARABIC LIGATURE FEH WITH KHAH WITH MEEM FINAL FORM=00FD7C" \o
      ";ARABIC TATWEEL WITH FATHATAN ABOVE=00FE71;HALFWIDTH HANGUL LETTER YE=00FFCB" \o
      ";LINEAR B IDEOGRAM B173 MONTH=0100B5;LINEAR B IDEOGRAM B231 ARROW=0100C7" \o
      ";SHAVIAN LETTER DEAD=01045B;HANIFI ROHINGYA LETTER NYA=010D1B;ZANABAZAR SQUARE LETTER LA=011A2C" \o
      ";CUNEIFORM SIGN GA2 TIMES EN=0120C9;CUNEIFORM SIGN SHA3=0122AE" \o
      ";CUNEIFORM SIGN GA2 TIMES NE=0124C4;BAMUM LETTER PHASE-C YUWOQ=0168E4" \o
      ";PAHAWH HMONG CONSONANT MAU=016B26;MIAO LETTER YI TSHA=016F30;MIAO VOWEL SIGN UAN=016F6C" \o
      ";BYZANTINE MUSICAL SYMBOL YFEN ANO=01D07D;MUSICAL SYMBOL SIXTY-FOURTH REST=01D141" \o
      ";MATHEMATICAL BOLD SCRIPT CAPITAL J=01D4D9" \o
      ";SIGNWRITING HAND-HINGE RING DOWN INDEX THUMB HOOK MIDDLE=01D8AC;PEAR=01F350;MEAT ON BONE=01F356" \o
      ";ELECTRIC LIGHT BULB=01F4A1;HOLE=01F573;SLED=01F6F7" \o
      ";SERIOUS FACE WITH SYMBOLS COVERING MOUTH=01F92C",
    ";HORIZONTAL TABULATION SET=000088;CYRILLIC CAPITAL LETTER UK=000478;MALAYALAM LETTER EE=000D0F" \o
      ";MALAYALAM LETTER AI=000D10;TIBETAN DIGIT EIGHT=000F28;HANGUL CHOSEONG SIOS-CIEUC=001136" \o
      ";KHMER VOWEL SIGN OE=0017BE;MONGOLIAN ELLIPSIS=001801;BALINESE LETTER NGA=001B17" \o
      ";BATAK LETTER SIMALUNGUN RA=001BD3;LATIN CAPITAL LETTER G WITH MACRON=001E20" \o
      ";REVERSED SEMICOLON=00204F;SMALL ROMAN NUMERAL ELEVEN=00217A;SQUARE FOOT=0023CD" \o
      ";LEFT S-SHAPED BAG DELIMITER=0027C5;BOWTIE WITH LEFT HALF BLACK=0029D1" \o
      ";GLAGOLITIC CAPITAL LETTER IZHITSA=002C2B;LATIN CAPITAL LETTER HALF H=002C75" \o
      ";COPTIC SMALL LETTER OLD COPTIC HAT=002CD5;CJK RADICAL LAME ONE=002E8E" \o
      ";KANGXI RADICAL HORN=002F93;HANGUL LETTER ARAEA=00318D;PHAGS-PA LETTER NYA=00A847" \o
      ";PHAGS-PA LETTER TSA=00A850;ARABIC LETTER TCHEHEH INITIAL FORM=00FB80" \o
      ";ARABIC LIGATURE YEH WITH HAMZA ABOVE WITH E ISOLATED FORM=00FBF6" \o
      ";ARABIC LIGATURE BEH WITH JEEM INITIAL FORM=00FC9C;INTERLINEAR ANNOTATION SEPARATOR=00FFFA" \o
      ";OLD PERSIAN SIGN RU=0103BD;HANIFI ROHINGYA LETTER TTA=010D04;ZANABAZAR SQUARE LETTER MA=011A22" \o
      ";BAMUM LETTER PHASE-D YUWOQ=016925;PAHAWH HMONG CONSONANT NAU=016B2C" \o
      ";DUPLOYAN LETTER J WITH DOT=01BC23;BYZANTINE MUSICAL SYMBOL GORGON ARCHAION=01D016" \o
      ";BYZANTINE MUSICAL SYMBOL FTHORA I YFESIS TETARTIMORION=01D0CB" \o
      ";MATHEMATICAL BOLD SCRIPT CAPITAL K=01D4DA;MATHEMATICAL SANS-SERIF BOLD KAPPA SYMBOL=01D78C" \o
      ";SIGNWRITING HAND-FIST INDEX MIDDLE HINGED=01D812;SIGNWRITING STRIKE SINGLE=01D90B" \o
      ";SIGNWRITING MOVEMENT-DIAGONAL AWAY LARGE=01D957;LOCK=01F512;MENS SYMBOL=01F6B9;COIN=01FA99",
    ";LATIN CAPITAL LETTER E WITH OGONEK=000118;COMBINING DOT ABOVE=000307" \o
      ";CYRILLIC CAPITAL LETTER ES WITH DESCENDER=0004AA;HEBREW ACCENT ZARQA=000598" \o
      ";ARABIC LETTER ALEF WITH MADDA ABOVE=000622;SAMARITAN MODIFIER LETTER EPENTHETIC YUT=00081A" \o
      ";MALAYALAM LETTER JA=000D1C;GEORGIAN LETTER HAE=0010F0;ETHIOPIC TONAL MARK RIKRIK=001392" \o
      ";BALINESE LETTER TA MURDA MAHAPRANA=001B1E;BATAK LETTER SIMALUNGUN SA=001BD9" \o
      ";OL CHIKI LETTER OTT=001C74;VEDIC TONE KARSHANA=001CD0" \o
      ";LATIN SMALL LETTER E WITH MACRON AND GRAVE=001E15" \o
      ";GREEK CAPITAL LETTER UPSILON WITH DASIA AND VARIA=001F5B" \o
      ";GREEK SMALL LETTER ALPHA WITH OXIA=001F71;COMBINING ENCLOSING CIRCLE=0020DD" \o
      ";NEITHER A SUPERSET OF NOR EQUAL TO=002289;DOUBLE VERTICAL BAR=0023F8;SYMBOL FOR ENQUIRY=002405" \o
      ";RAIN=0026C6;BLACK SMALL LOZENGE=002B2A;LEFTWARDS QUADRUPLE ARROW=002B45" \o
      ";GLAGOLITIC CAPITAL LETTER IOTATED BIG YUS=002C29;GEORGIAN SMALL LETTER ZHAR=002D0F" \o
      ";KANGXI RADICAL FOOT=002F9C;KANGXI RADICAL DRUM=002FCE;SQUARE REMU=003355" \o
      ";LATIN SMALL LETTER V WITH DIAGONAL STROKE=00A75F;PHAGS-PA LETTER TTA=00A869" \o
      ";REJANG VOWEL SIGN U=00A948;JAVANESE VOWEL SIGN TALING=00A9BA;JAVANESE PADA WINDU=00A9C6" \o
      ";MYANMAR LOGOGRAM KHAMTI QN=00AA75;ARABIC LIGATURE SEEN WITH MEEM MEDIAL FORM=00FCE7" \o
      ";SMALL COMMERCIAL AT=00FE6B;HALFWIDTH HANGUL LETTER WI=00FFD6;AEGEAN NUMBER TWO THOUSAND=010123" \o
      ";VITHKUQI CAPITAL LETTER BE=010572;RUMI NUMBER THIRTY=010E6B;KHUDAWADI LETTER GA=0112BC" \o
      ";ZANABAZAR SQUARE LETTER NA=011A1D;CUNEIFORM SIGN HUB2=012138;MIAO VOWEL SIGN OER=016F82" \o
      ";ZNAMENNY PRIZNAK MODIFIER DIRECTION FLIP=01CF44;BYZANTINE MUSICAL SYMBOL STAVROS=01D07E" \o
      ";BYZANTINE MUSICAL SYMBOL MARTYRIA LEGETOS ICHOS=01D0AA;MUSICAL SYMBOL QUINDICESIMA BASSA=01D139" \o
      ";IDEOGRAPHIC TALLY MARK TWO=01D373;MATHEMATICAL BOLD CAPITAL A=01D400" \o
      ";MATHEMATICAL BOLD SCRIPT CAPITAL L=01D4DB;SIGNWRITING HAND-FIST LITTLE BENT=01D898" \o
      ";SQUARED SOS=01F198;CRICKET BAT AND BALL=01F3CF;FISH=01F41F;POSTAL HORN=01F4EF" \o
      ";BALL OF YARN=01F9F6;XIANGQI RED GENERAL=01FA60;PALM UP HAND=01FAF4",
    ";LATIN CAPITAL LETTER I WITH MACRON=00012A;CYRILLIC CAPITAL LETTER YI=000407" \o
      ";CYRILLIC CAPITAL LETTER TE WITH DESCENDER=0004AC;THAANA LETTER QAAFU=0007A4" \o
      ";DEVANAGARI LETTER I=000907;TAMIL VOWEL SIGN AU=000BCC;MALAYALAM LETTER KA=000D15" \o
      ";LAO LETTER KHO SUNG=000E82;TIBETAN SIGN RJES SU NGA RO=000F7E;RUNIC LETTER KAUN K=0016B4" \o
      ";TAGBANWA LETTER NGA=001765;KHMER VOWEL SIGN UA=0017BD;KHMER VOWEL SIGN AU=0017C5" \o
      ";RIGHTWARDS SQUIGGLE ARROW=0021DD;UPPER RIGHT SHADOWED WHITE SQUARE=002752;RETURN LEFT=002B90" \o
      ";KANGXI RADICAL MOON=002F49;KANGXI RADICAL CITY=002FA2;CIRCLED NUMBER FORTY THREE=0032B8" \o
      ";SQUARE DORU=003326;MODIFIER LETTER SHORT EQUALS SIGN=00A78A" \o
      ";HEBREW LETTER SHIN WITH DAGESH AND SIN DOT=00FB2D;ARABIC LETTER VE FINAL FORM=00FBDF" \o
      ";ARABIC LIGATURE YEH WITH HAMZA ABOVE WITH ZAIN FINAL FORM=00FC65" \o
      ";ARABIC LIGATURE JEEM WITH HAH INITIAL FORM=00FCA7" \o
      ";ARABIC LIGATURE HAH WITH JEEM INITIAL FORM=00FCA9" \o
      ";ARABIC LIGATURE JEEM WITH MEEM WITH HAH FINAL FORM=00FD58;AEGEAN NUMBER SEVEN=01010D" \o
      ";PHAISTOS DISC SIGN CAPTIVE=0101D3;OLD PERSIAN SIGN TU=0103AC;VITHKUQI CAPITAL LETTER CE=010573" \o
      ";VITHKUQI CAPITAL LETTER GA=01057A;MODIFIER LETTER SMALL LEZH=01079E" \o
      ";PSALTER PAHLAVI NUMBER ONE=010BA9;OLD SOGDIAN LETTER FINAL HE=010F06;BRAHMI DANDA=011047" \o
      ";KHUDAWADI LETTER HA=0112DE;SIDDHAM SIGN VIRAMA=0115BF;TAKRI VOWEL SIGN II=0116AF" \o
      ";CUNEIFORM SIGN ESH2=0120A0;CUNEIFORM SIGN GA2 TIMES MI=0120DF" \o
      ";CUNEIFORM SIGN SHA3 TIMES A=0122AF;CUNEIFORM SIGN SHA6=0122B7" \o
      ";CUNEIFORM NUMERIC SIGN FOUR SHARU=012430;BAMUM LETTER PHASE-A PAARAE=016842" \o
      ";BAMUM LETTER PHASE-C GHARAE=016896;PAHAWH HMONG CLAN SIGN YEEG=016B7E" \o
      ";PAHAWH HMONG CLAN SIGN HAWJ=016B83;PAHAWH HMONG CLAN SIGN TSAB=016B86" \o
      ";KHITAN SMALL SCRIPT FILLER=016FE4;DUPLOYAN LETTER XW=01BC53" \o
      ";ZNAMENNY NEUME STRELA KRYUKOVAYA=01CFB5;MUSICAL SYMBOL COMBINING HARMONIC=01D1AC" \o
      ";MATHEMATICAL BOLD CAPITAL B=01D401;MATHEMATICAL BOLD SCRIPT CAPITAL M=01D4DC" \o
      ";MATHEMATICAL SANS-SERIF BOLD ITALIC CAPITAL SIGMA=01D7A2" \o
      ";SIGNWRITING HAND-FIST INDEX MIDDLE CONJOINED MIDDLE BENT=01D817;MAHJONG TILE ORCHID=01F023" \o
      ";SQUARED PPV=01F14E;NEGATIVE SQUARED AB=01F18E;GOAT=01F410;BOOK=01F56E" \o
      ";DOWNWARDS WHITE ARROW WITHIN TRIANGLE ARROWHEAD=01F897" \o
      ";LEFT AND LOWER AND RIGHT TRIANGULAR THREE QUARTERS BLOCK=01FB69",
    ";LATIN CAPITAL LETTER B WITH TOPBAR=000182;COMBINING MINUS SIGN BELOW=000320" \o
      ";CYRILLIC CAPITAL LETTER OT=00047E;ARMENIAN ABBREVIATION MARK=00055F" \o
      ";ARABIC LETTER GAF WITH RING=0006B0;GUJARATI LETTER VOCALIC RR=000AE0;ORIYA VOWEL SIGN AI=000B48" \o
      ";MALAYALAM LETTER LA=000D32;TIBETAN MARK RGYA GRAM SHAD=000F12;KHMER INDEPENDENT VOWEL QI=0017A5" \o
      ";KHMER SIGN ATTHACAN=0017DD;KHMER SYMBOL DAP-MUOY KOET=0019EB;COMBINING X-X BELOW=001AB5" \o
      ";LATIN SMALL LETTER TH WITH STRIKETHROUGH=001D7A" \o
      ";GREEK CAPITAL LETTER ETA WITH PSILI AND VARIA AND PROSGEGRAMMENI=001F9A" \o
      ";LEFTWARDS TWO HEADED ARROW=00219E;INTERCALATE=0022BA;UNDO SYMBOL=00238C" \o
      ";DIGIT ONE FULL STOP=002488;BOX DRAWINGS DOUBLE DOWN AND RIGHT=002554" \o
      ";BRAILLE PATTERN DOTS-1234567=00287F;OVERLAPPING WHITE SQUARES=002BBA" \o
      ";GLAGOLITIC CAPITAL LETTER ZHIVETE=002C06;COPTIC SMALL LETTER OLD COPTIC ESH=002CC7" \o
      ";KANGXI RADICAL WRAP=002F13;RIGHT WHITE SQUARE BRACKET=00301B" \o
      ";ARABIC LIGATURE BEH WITH MEEM INITIAL FORM=00FC9F" \o
      ";ARABIC LIGATURE KAF WITH JEEM INITIAL FORM=00FCC4" \o
      ";ARABIC LIGATURE DAD WITH REH ISOLATED FORM=00FD10;HALFWIDTH HANGUL LETTER YI=00FFDB" \o
      ";AEGEAN NUMBER FIFTY=010114;VITHKUQI CAPITAL LETTER DE=010575;VITHKUQI CAPITAL LETTER HA=01057C" \o
      ";KHUDAWADI LETTER AI=0112B7;ZANABAZAR SQUARE LETTER PA=011A1E;CUNEIFORM SIGN E2 TIMES GAR=01208F" \o
      ";BAMUM LETTER PHASE-A MGBASA=016824;DUPLOYAN LETTER M WITH DOT=01BC21" \o
      ";BYZANTINE MUSICAL SYMBOL YPORROI=01D053;MUSICAL SYMBOL COMBINING STACCATO=01D17C" \o
      ";MATHEMATICAL BOLD CAPITAL C=01D402;MATHEMATICAL BOLD SCRIPT CAPITAL N=01D4DD" \o
      ";MAHJONG TILE ONE OF BAMBOOS=01F010;PLAYING CARD KING OF SPADES=01F0AE" \o
      ";CARD INDEX DIVIDERS=01F5C2;FACE WITH STUCK-OUT TONGUE=01F61B" \o
      ";HEAVY SCRIPT LIGATURE ET ORNAMENT=01F671;ONCOMING POLICE CAR=01F694" \o
      ";ALCHEMICAL SYMBOL FOR MERCURY SUBLIMATE-2=01F711;EMOJI COMPONENT WHITE HAIR=01F9B3",
    ";COMBINING CYRILLIC PSILI PNEUMATA=000486;HEBREW ACCENT PAZER=0005A1;THAANA LETTER LAAMU=00078D" \o
      ";MALAYALAM LETTER MA=000D2E;GEORGIAN LETTER BAN=0010D1;CHEROKEE LETTER HNA=0013BF" \o
      ";CHEROKEE LETTER NAH=0013C0;CANADIAN SYLLABICS MEDIAL L=0014EC;LIMBU VOWEL SIGN AU=001926" \o
      ";NEW TAI LUE LETTER HIGH XVA=0019A7;TAI THAM SIGN TONE-1=001A75" \o
      ";LATIN CAPITAL LETTER O WITH HORN AND ACUTE=001EDA" \o
      ";LATIN CAPITAL LETTER O WITH HORN AND TILDE=001EE0" \o
      ";GREEK SMALL LETTER ETA WITH DASIA AND PERISPOMENI=001F27" \o
      ";GREEK SMALL LETTER OMEGA WITH OXIA=001F7D;LESS-THAN EQUAL TO OR GREATER-THAN=0022DA" \o
      ";GREATER-THAN EQUAL TO OR LESS-THAN=0022DB;BLACK UP-POINTING TRIANGLE=0025B2" \o
      ";MALE AND FEMALE SIGN=0026A5;DINGBAT NEGATIVE CIRCLED DIGIT TWO=002777" \o
      ";BRAILLE PATTERN DOTS-1234568=0028BF;CIRCLE WITH HORIZONTAL BAR=0029B5" \o
      ";COPTIC SMALL LETTER THETHE=002C91;TIFINAGH LETTER TUAREG YAQ=002D48" \o
      ";IDEOGRAPHIC HALF FILL SPACE=00303F;IDEOGRAPHIC ANNOTATION FIRST MARK=003199" \o
      ";CIRCLED NUMBER THIRTY FIVE=00325F;CIRCLED NUMBER THIRTY NINE=0032B4;TAI VIET SYMBOL SAM=00AADD" \o
      ";ARABIC LIGATURE SAD WITH HAH ISOLATED FORM=00FC20" \o
      ";ARABIC LIGATURE QAF WITH HAH ISOLATED FORM=00FC33" \o
      ";ARABIC LIGATURE SAD WITH KHAH INITIAL FORM=00FCB2" \o
      ";ARABIC LIGATURE FEH WITH JEEM INITIAL FORM=00FCBE" \o
      ";ARABIC LIGATURE SHEEN WITH JEEM FINAL FORM=00FD25" \o
      ";OLD HUNGARIAN CAPITAL LETTER RUDIMENTA UE=010CAD;BRAHMI NUMBER EIGHT=011059" \o
      ";KAITHI VOWEL SIGN U=0110B3;MAHAJANI SIGN NUKTA=011173;SINHALA ARCHAIC DIGIT EIGHT=0111E8" \o
      ";KHOJKI VOWEL SIGN O=011232;KHUDAWADI LETTER JA=0112C2;BHAIKSUKI LETTER AA=011C01" \o
      ";TAMIL SIGN VARAAKAN=011FE0;CUNEIFORM SIGN GIR2=012108;CUNEIFORM SIGN NUN LAGAR TIMES GAR=012264" \o
      ";CUNEIFORM SIGN TAK4=0122FA;BAMUM LETTER PHASE-B NGGAAM=01688A" \o
      ";BAMUM LETTER PHASE-D MGBIEE=01691C;PAHAWH HMONG CONSONANT RAU=016B21" \o
      ";PAHAWH HMONG CLAN SIGN LAUJ=016B80;MIAO VOWEL SIGN ERR=016F75;MIAO TONE TOP RIGHT=016F90" \o
      ";DUPLOYAN LETTER N WITH DOT=01BC22;BYZANTINE MUSICAL SYMBOL TROMIKOSYNAGMA=01D070" \o
      ";BYZANTINE MUSICAL SYMBOL FTHORA DIATONIKI NI ANO=01D0C2;MATHEMATICAL BOLD CAPITAL D=01D403" \o
      ";MATHEMATICAL BOLD SCRIPT CAPITAL O=01D4DE;SIGNWRITING HAND-OVAL RING LITTLE=01D8B2" \o
      ";PLAYING CARD FIVE OF SPADES=01F0A5;PLAYING CARD NINE OF SPADES=01F0A9" \o
      ";PLAYING CARD EIGHT OF CLUBS=01F0D8;BADMINTON RACQUET AND SHUTTLECOCK=01F3F8" \o
      ";CLAPPING HANDS SIGN=01F44F;SEAT=01F4BA;THREE NETWORKED COMPUTERS=01F5A7" \o
      ";ALCHEMICAL SYMBOL FOR MERCURY SUBLIMATE-3=01F712" \o
      ";ALCHEMICAL SYMBOL FOR SUBLIMATE OF SALT OF COPPER=01F727;KITE=01FA81;LOW BATTERY=01FAAB",
    ";END OF SELECTED AREA=000087;LATIN CAPITAL LETTER I WITH OGONEK=00012E" \o
      ";LATIN CAPITAL LETTER D WITH TOPBAR=00018B;GREEK SMALL LETTER OMICRON=0003BF" \o
      ";ARMENIAN SMALL LETTER LIWN=00056C;SYRIAC PTHAHA ABOVE=000730;THAANA LETTER ALIFU=000787" \o
      ";MALAYALAM LETTER NA=000D28;TIBETAN MARK ANG KHANG GYON=000F3C;GEORGIAN LETTER CAN=0010EA" \o
      ";TAI THAM SIGN TONE-2=001A76;BATAK LETTER SIMALUNGUN WA=001BCC" \o
      ";VEDIC TONE RIGVEDIC KASHMIRI INDEPENDENT SVARITA=001CE0;X IN A RECTANGLE BOX=002327" \o
      ";APL FUNCTIONAL SYMBOL SQUISH QUAD=002337;BLACK SUN WITH RAYS=002600;DISABLED CAR=0026CD" \o
      ";BRAILLE PATTERN DOTS-1234578=0028DF;KANGXI RADICAL STEP=002F3B" \o
      ";PARENTHESIZED IDEOGRAPH FINANCIAL=003236;SQUARE YUAN=003350" \o
      ";ARABIC LIGATURE HAH WITH MEEM INITIAL FORM=00FCAA" \o
      ";ARABIC LIGATURE MEEM WITH HAH INITIAL FORM=00FCCF;LINEAR B IDEOGRAM B233 SWORD=0100C9" \o
      ";VITHKUQI CAPITAL LETTER FE=010579;MAHAJANI LETTER RRA=011172;KHUDAWADI LETTER KA=0112BA" \o
      ";ZANABAZAR SQUARE LETTER RA=011A2B;BHAIKSUKI LETTER BA=011C24;BHAIKSUKI DIGIT ONE=011C51" \o
      ";CUNEIFORM SIGN GA2 TIMES UD=0120EB;CUNEIFORM SIGN GIR3=01210A" \o
      ";CUNEIFORM SIGN KA TIMES BAD=01215C;CUNEIFORM SIGN DUG TIMES GIR2 GUNU=012495" \o
      ";BAMUM LETTER PHASE-E NDAA SOFTNESS=016992;MIAO VOWEL SIGN UNG=016F70" \o
      ";ZNAMENNY COMBINING MARK ON=01CF21;MATHEMATICAL BOLD CAPITAL E=01D404" \o
      ";MATHEMATICAL BOLD SCRIPT CAPITAL P=01D4DF;SIGNWRITING MOVEMENT-HINGE UP DOWN SMALL=01D922" \o
      ";SIGNWRITING MOVEMENT-WALLPLANE WAVE CURVE TRIPLE SMALL=01D99C" \o
      ";SIGNWRITING MOUTH FROWN WRINKLED=01DA42;ARABIC MATHEMATICAL STRETCHED KHAH=01EE77" \o
      ";MAHJONG TILE ONE OF CIRCLES=01F019;GIRL=01F467;MEMO=01F4DD;LIGHT FIVE SPOKED ASTERISK=01F7AF" \o
      ";SAFETY VEST=01F9BA;LEFT AND UPPER AND RIGHT TRIANGULAR THREE QUARTERS BLOCK=01FB6B",
    ";CYRILLIC SMALL LETTER DZHE=00045F;CYRILLIC SMALL LETTER ABKHASIAN HA=0004A9;ARABIC COMMA=00060C" \o
      ";ARABIC LETTER DAL WITH RING=000689;SYRIAC CONTRACTION=00070A;KANNADA LETTER TTHA=000CA0" \o
      ";MALAYALAM SIGN VERTICAL BAR VIRAMA=000D3B;THAI CHARACTER FO FA=000E1D" \o
      ";KHMER VOWEL SIGN YA=0017BF;BALINESE LETTER TZIR SASAK=001B47;HORIZONTAL LINE EXTENSION=0023AF" \o
      ";BLACK CIRCLE=0025CF;BLACK MEDIUM SQUARE=0025FC;BRAILLE PATTERN DOTS-1234678=0028EF" \o
      ";RISING DIAGONAL CROSSING FALLING DIAGONAL=00292B" \o
      ";FALLING DIAGONAL CROSSING RISING DIAGONAL=00292C;VERTICAL BAR BESIDE RIGHT TRIANGLE=0029D0" \o
      ";COPTIC SYMBOL MI RO=002CE5;IDEOGRAPHIC TELEGRAPH SYMBOL FOR DECEMBER=0032CB" \o
      ";CYRILLIC SMALL LETTER NEUTRAL YER=00A64F" \o
      ";LATIN SMALL LETTER L WITH RETROFLEX HOOK AND BELT=00A78E;CHAM CONSONANT SIGN FINAL H=00AA4D" \o
      ";ARABIC LIGATURE LAM WITH HAH ISOLATED FORM=00FC40" \o
      ";ARABIC LIGATURE KAF WITH MEEM INITIAL FORM=00FCC8" \o
      ";ARABIC LIGATURE LAM WITH KHAH INITIAL FORM=00FCCB" \o
      ";ARABIC LIGATURE HEH WITH JEEM INITIAL FORM=00FCD7" \o
      ";ARABIC LIGATURE SAD WITH HAH WITH HAH INITIAL FORM=00FD65" \o
      ";ARABIC LIGATURE LAM WITH KHAH WITH MEEM FINAL FORM=00FD85" \o
      ";ARABIC LIGATURE KAF WITH MEEM WITH MEEM FINAL FORM=00FDBB;COPTIC EPACT NUMBER NINETY=0102F2" \o
      ";GOTHIC LETTER RAIDA=010342;VITHKUQI CAPITAL LETTER KA=010581;KHUDAWADI LETTER LA=0112DA" \o
      ";TAKRI VOWEL SIGN AU=0116B5;ZANABAZAR SQUARE LETTER SA=011A30;PAU CIN HAU LETTER A=011AD5" \o
      ";BHAIKSUKI LETTER CA=011C13;BAMUM LETTER PHASE-C MBERAE=0168C2" \o
      ";BAMUM LETTER PHASE-C NJEEEE=0168C8;BAMUM LETTER PHASE-D NGGAAM=016931" \o
      ";PAHAWH HMONG SIGN MEEJ SUAB=016B41;MIAO VOWEL SIGN UOG=016F7F" \o
      ";BYZANTINE MUSICAL SYMBOL PARAKLITIKI NEO=01D05E" \o
      ";MUSICAL SYMBOL KIEVAN EIGHTH NOTE STEM UP=01D1E7;MATHEMATICAL BOLD CAPITAL F=01D405" \o
      ";MATHEMATICAL BOLD SCRIPT CAPITAL Q=01D4E0;COMBINING GLAGOLITIC LETTER FRITU=01E017" \o
      ";REVERSED RAISED HAND WITH FINGERS SPLAYED=01F591;DOWNWARDS ARROW WITH NOTCHED TAIL=01F89B" \o
      ";SARI=01F97B;XIANGQI BLACK HORSE=01FA6A;ROCK=01FAA8;SEGMENTED DIGIT ONE=01FBF1",
    ";HEBREW LETTER LAMED=0005DC;ARABIC LETTER KAF WITH RING=0006AB" \o
      ";ARABIC LETTER SEEN WITH INVERTED V=00077E" \o
      ";ARABIC LETTER ALEF WITH ATTACHED BOTTOM RIGHT KASRA AND DOT ABOVE=00087D" \o
      ";ARABIC KASRA WITH DOT BELOW=0008F6;GUJARATI LETTER DDA=000AA1;ORIYA SIGN AVAGRAHA=000B3D" \o
      ";MALAYALAM LETTER PA=000D2A;SINHALA VOWEL SIGN KETTI PAA-PILLA=000DD4;LAO LETTER PHO SUNG=000E9C" \o
      ";TIBETAN DIGIT THREE=000F23;GEORGIAN LETTER AEN=0010FD;ETHIOPIC DIGIT FIVE=00136D" \o
      ";ETHIOPIC DIGIT NINE=001371;TAGALOG SIGN VIRAMA=001714;MONGOLIAN LETTER ALI GALI I=001888" \o
      ";BALINESE DIGIT FOUR=001B54;BATAK LETTER SIMALUNGUN YA=001BDC;BATAK SYMBOL BINDU NA METEK=001BFC" \o
      ";LATIN CAPITAL LETTER O WITH HORN AND GRAVE=001EDC;SUPERSET OF=002283" \o
      ";SQUARE WITH LEFT HALF BLACK=0025E7;MEDIUM VERTICAL BAR=002759" \o
      ";BRAILLE PATTERN DOTS-1235678=0028F7;NORTH EAST ARROW WITH HOOK=002924;JOIN=002A1D" \o
      ";GLAGOLITIC SMALL LETTER YO=002C56;COPTIC SMALL LETTER DIALECT-P HORI=002CCB" \o
      ";LEFT CORNER BRACKET=00300C;CYRILLIC CAPITAL LETTER YN=00A65E" \o
      ";LATIN CAPITAL LETTER D WITH SHORT STROKE OVERLAY=00A7C7;MEETEI MAYEK VIRAMA=00AAF6" \o
      ";LATIN SMALL LETTER TURNED O OPEN-O=00AB43;ARABIC LIGATURE KAF WITH LAM ISOLATED FORM=00FC3B" \o
      ";ARABIC LIGATURE FEH WITH MEEM INITIAL FORM=00FCC1" \o
      ";ARABIC LIGATURE SHEEN WITH MEEM FINAL FORM=00FD28;ARABIC SHADDA ISOLATED FORM=00FE7C" \o
      ";VITHKUQI CAPITAL LETTER LA=010582;MODIFIER LETTER GLOTTAL STOP WITH STROKE=0107B3" \o
      ";MEROITIC CURSIVE LETTER BA=0109A6;PSALTER PAHLAVI NUMBER TEN=010BAD;KHUDAWADI LETTER MA=0112D7" \o
      ";ZANABAZAR SQUARE LETTER TA=011A19;BHAIKSUKI LETTER DA=011C1F;CUNEIFORM SIGN NAGA=012240" \o
      ";CUNEIFORM SIGN NUNUZ AB2 TIMES DUG=012270;CUNEIFORM SIGN NUNUZ AB2 TIMES GUD=012271" \o
      ";CUNEIFORM SIGN SIG4=0122DE;DUPLOYAN LETTER F N=01BC0E;MATHEMATICAL BOLD CAPITAL G=01D406" \o
      ";MATHEMATICAL BOLD SCRIPT CAPITAL R=01D4E1;MATHEMATICAL BOLD ITALIC PI SYMBOL=01D755" \o
      ";MATHEMATICAL SANS-SERIF BOLD ITALIC CAPITAL THETA=01D797" \o
      ";SIGNWRITING MOVEMENT-WALLPLANE WAVE HITTING FRONT WALL=01D9A9" \o
      ";SIGNWRITING EYEBROWS STRAIGHT UP=01DA0A;SIGNWRITING FINGER=01DA7E" \o
      ";COMBINING GLAGOLITIC LETTER RITSI=01E013;FACE MASSAGE=01F486;RING=01F48D" \o
      ";ALCHEMICAL SYMBOL FOR VINEGAR OF ANTIMONY=01F72F",
    ";INFORMATION SEPARATOR TWO=00001E;FEMININE ORDINAL INDICATOR=0000AA" \o
      ";LATIN CAPITAL LETTER THORN=0000DE;LATIN CAPITAL LETTER O WITH MACRON=00014C" \o
      ";LATIN SMALL LETTER O WITH TILDE AND MACRON=00022D;MODIFIER LETTER LOW MACRON=0002CD" \o
      ";GREEK SMALL LETTER EPSILON=0003B5;CYRILLIC CAPITAL LETTER ZE WITH DESCENDER=000498" \o
      ";CYRILLIC SMALL LETTER SHHA WITH DESCENDER=000527;DEVANAGARI LETTER O=000913" \o
      ";MALAYALAM LETTER II=000D08;CANADIAN SYLLABICS Y-CREE W=00141D;NEW TAI LUE SIGN LAE=0019DE" \o
      ";LATIN SMALL LETTER O WITH MACRON AND ACUTE=001E53;LESS-THAN OR EQUIVALENT TO=002272" \o
      ";APL FUNCTIONAL SYMBOL QUAD=002395;HOT SPRINGS=002668;BRAILLE PATTERN DOTS-1245678=0028FB" \o
      ";LEFT ANGLE BRACKET WITH DOT=002991;LOGICAL OR OVERLAPPING LOGICAL AND=002A59" \o
      ";WAVE ARROW POINTING DIRECTLY LEFT=002B3F;SLANTED NORTH ARROW WITH HORIZONTAL TAIL=002B5C" \o
      ";CIRCLED IDEOGRAPH RESOURCE=0032AE;SQUARE OOMU=00330A;CYRILLIC SMALL LETTER IOTA=00A647" \o
      ";MODIFIER LETTER EXTRA-LOW DOTTED TONE BAR=00A70C;SYLOTI NAGRI VOWEL SIGN OO=00A827" \o
      ";MYANMAR TAI LAING DIGIT ONE=00A9F1;MYANMAR LETTER TAI LAING BA=00A9FD" \o
      ";ARABIC LIGATURE LAM WITH JEEM WITH JEEM FINAL FORM=00FD84;VITHKUQI CAPITAL LETTER EI=010577" \o
      ";RUMI NUMBER TWENTY=010E6A;BRAHMI SIGN VISARGA=011002;MAHAJANI LETTER NYA=01115D" \o
      ";KHUDAWADI LETTER NA=0112D1;SIDDHAM SECTION MARK WITH TRIDENT AND U-SHAPED ORNAMENTS=0115CA" \o
      ";CUNEIFORM SIGN ARAD=012034;PAHAWH HMONG CONSONANT VAU=016B1C;MIAO VOWEL SIGN OEY=016F60" \o
      ";BYZANTINE MUSICAL SYMBOL AGOGI GORGOTERI=01D0A0;TETRAGRAM FOR REACH=01D314" \o
      ";MATHEMATICAL BOLD CAPITAL H=01D407;MATHEMATICAL BOLD SCRIPT CAPITAL S=01D4E2" \o
      ";SIGNWRITING HAND-FIST RING LITTLE=01D8B0;SIGNWRITING HAND-ANGLE MIDDLE RING LITTLE=01D8D4" \o
      ";SIGNWRITING HAND-FIST HEEL=01D904;SIGNWRITING ROTATION-FLOORPLANE DOUBLE HITTING CEILING=01D9C4" \o
      ";SIGNWRITING EYES SQUEEZED=01DA15;INDIC SIYAQ NUMBER FORTY THOUSAND=01EC98;PILL=01F48A" \o
      ";MOUNTAIN BICYCLIST=01F6B5;DOWNWARDS TRIANGLE-HEADED ARROW WITH HEAVY SHAFT=01F82F" \o
      ";WHITE CHESS KNIGHT ROTATED THREE HUNDRED FIFTEEN DEGREES=01FA45;HOOK=01FA9D",
    ";LATIN SMALL LETTER TURNED H WITH FISHHOOK=0002AE;GUJARATI LETTER BHA=000AAD" \o
      ";GUJARATI DIGIT FIVE=000AEB;GUJARATI DIGIT NINE=000AEF;MALAYALAM LETTER RA=000D30" \o
      ";GEORGIAN LETTER GAN=0010D2;GEORGIAN LETTER HIE=0010F2" \o
      ";GREEK SMALL LETTER ETA WITH PSILI AND OXIA=001F24" \o
      ";GREEK CAPITAL LETTER ALPHA WITH PSILI AND PROSGEGRAMMENI=001F88;END OF PROOF=00220E" \o
      ";POSITION INDICATOR=002316;SYMBOL FOR SHIFT IN=00240F;SHADOWED WHITE LATIN CROSS=00271E" \o
      ";BRAILLE PATTERN DOTS-1345678=0028FD;COPTIC SYMBOL PI RO=002CE6" \o
      ";TOP HALF RIGHT PARENTHESIS=002E5A;IDEOGRAPHIC TELEGRAPH SYMBOL FOR DAY FOUR=0033E3" \o
      ";CYRILLIC SMALL LETTER REVERSED YU=00A655;ARABIC LIGATURE TAH WITH HAH ISOLATED FORM=00FC26" \o
      ";ARABIC LIGATURE AIN WITH JEEM INITIAL FORM=00FCBA" \o
      ";ARABIC LIGATURE HEH WITH MEEM INITIAL FORM=00FCD8" \o
      ";ARABIC LIGATURE AIN WITH JEEM WITH MEEM FINAL FORM=00FD75" \o
      ";COMBINING LIGATURE LEFT HALF BELOW=00FE27;FULLWIDTH REVERSE SOLIDUS=00FF3C" \o
      ";HALFWIDTH HANGUL LETTER YO=00FFD2;LINEAR B MONOGRAM B247 DIPTE=0100D2" \o
      ";PHAISTOS DISC SIGN MATTOCK=0101DE;VITHKUQI CAPITAL LETTER JE=010580" \o
      ";MEROITIC CURSIVE LETTER DA=0109B7;BRAHMI LETTER OLD TAMIL LLA=011075;KAITHI DANDA=0110C0" \o
      ";MAHAJANI LETTER TTA=01115E;SHARADA EKAM=0111DA;ZANABAZAR SQUARE LETTER VA=011A2D" \o
      ";ZANABAZAR SQUARE INITIAL HEAD MARK=011A3F;CUNEIFORM SIGN AB TIMES GAL=01200D" \o
      ";CUNEIFORM SIGN E2 TIMES SAL=012091;CUNEIFORM SIGN E2 TIMES SHE=012092" \o
      ";CUNEIFORM SIGN SIK2=0122E0;KHITAN SMALL SCRIPT CHARACTER-18B00=018B00" \o
      ";DUPLOYAN LETTER S WITH DOT=01BC25;DUPLOYAN SIGN O WITH CROSS=01BC9C" \o
      ";MATHEMATICAL BOLD CAPITAL I=01D408;MATHEMATICAL BOLD SCRIPT CAPITAL T=01D4E3" \o
      ";MATHEMATICAL SANS-SERIF BOLD THETA SYMBOL=01D78B;ALCHEMICAL SYMBOL FOR SAL-AMMONIAC=01F739" \o
      ";HAND WITH INDEX AND MIDDLE FINGERS CROSSED=01F91E",
    ";NBSP=0000A0;LATIN CAPITAL LETTER DZ WITH CARON=0001C4;BENGALI LETTER TTHA=0009A0" \o
      ";GUJARATI LETTER CHA=000A9B;TAMIL VOWEL SIGN OO=000BCB;MALAYALAM LETTER SA=000D38" \o
      ";SINHALA VOWEL SIGN KOMBUVA=000DD9;HANGUL CHOSEONG SIOS-HIEUH=00113B" \o
      ";CANADIAN SYLLABICS MEDIAL R=001552;KHMER VOWEL SIGN OO=0017C4" \o
      ";LATIN CAPITAL LETTER U WITH HORN AND ACUTE=001EE8" \o
      ";LATIN CAPITAL LETTER U WITH HORN AND TILDE=001EEE;GREEK SMALL LETTER IOTA WITH VARIA=001F76" \o
      ";APL FUNCTIONAL SYMBOL IOTA=002373;INTEGRAL EXTENSION=0023AE;FUSE=0023DB" \o
      ";BRAILLE PATTERN DOTS-2345678=0028FE;BLACK MEDIUM UP-POINTING TRIANGLE CENTRED=002BC5" \o
      ";TWO DOTS OVER ONE DOT PUNCTUATION=002E2A;ONE DOT OVER TWO DOTS PUNCTUATION=002E2B" \o
      ";CIRCLED HANGUL SIOS=003266;LATIN SMALL LETTER AV WITH HORIZONTAL BAR=00A73B" \o
      ";LATIN CAPITAL LETTER P WITH SQUIRREL TAIL=00A754;HANGUL CHOSEONG HIEUH-SIOS=00A97B" \o
      ";JAVANESE LETTER NGA=00A994;JAVANESE PADA LUHUR=00A9C5;MYANMAR LETTER TAI LAING DA=00A9FB" \o
      ";TAI VIET TONE MAI EK=00AABF;ARABIC LIGATURE YEH WITH HAMZA ABOVE WITH NOON FINAL FORM=00FC67" \o
      ";ARABIC LIGATURE DAD WITH YEH ISOLATED FORM=00FD08;HATRAN LETTER SADHE=0108F1" \o
      ";MANICHAEAN ABBREVIATION MARK ABOVE=010AE5;KHOJKI VOWEL SIGN U=01122F;KHUDAWADI LETTER PA=0112D2" \o
      ";PAU CIN HAU LETTER E=011AD6;BHAIKSUKI LETTER GA=011C10;MASARAM GONDI VOWEL SIGN AA=011D31" \o
      ";GUNJALA GONDI VOWEL SIGN AA=011D8A;TAMIL FRACTION ONE QUARTER=011FD0" \o
      ";CUNEIFORM SIGN BAL OVER BAL=012045;CUNEIFORM SIGN DUN3=012085" \o
      ";CUNEIFORM SIGN GA2 TIMES A PLUS IGI=0120BA;CUNEIFORM SIGN HI TIMES BAD=012130" \o
      ";CUNEIFORM SIGN KU OVER HI TIMES ASH2 KU OVER HI TIMES ASH2=0121AB" \o
      ";CUNEIFORM SIGN NUN LAGAR TIMES SAL=012266;CUNEIFORM SIGN E2 TIMES PAP=0124AA" \o
      ";BAMUM LETTER PHASE-A PASHAE=01681B;BAMUM LETTER PHASE-D GHEUAE=016948" \o
      ";PAHAWH HMONG CONSONANT XAU=016B2E;KHITAN SMALL SCRIPT CHARACTER-18B01=018B01" \o
      ";KHITAN SMALL SCRIPT CHARACTER-18B10=018B10;KHITAN SMALL SCRIPT CHARACTER-18C00=018C00" \o
      ";DUPLOYAN LETTER D S=01BC0D;DUPLOYAN LETTER J M=01BC1F;BYZANTINE MUSICAL SYMBOL ISON NEO=01D046" \o
      ";BYZANTINE MUSICAL SYMBOL TROMIKOLYGISMA=01D06D;MUSICAL SYMBOL EIGHTH NOTE=01D160" \o
      ";MATHEMATICAL BOLD CAPITAL J=01D409;MATHEMATICAL BOLD SCRIPT CAPITAL U=01D4E4" \o
      ";ARABIC MATHEMATICAL STRETCHED JEEM=01EE62;PLAYING CARD KING OF HEARTS=01F0BE;BOYS SYMBOL=01F6C9" \o
      ";HEAVY FIVE SPOKED ASTERISK=01F7B2" \o
      ";NEUTRAL CHESS QUEEN ROTATED TWO HUNDRED SEVENTY DEGREES=01FA40",
    ";LATIN CAPITAL LETTER O WITH OGONEK=0001EA;ARABIC KASRA=000650;BENGALI ANJI=000980" \o
      ";GUJARATI LETTER DHA=000AA7;ORIYA VOWEL SIGN II=000B40;MALAYALAM LETTER TA=000D24" \o
      ";MALAYALAM DIGIT SIX=000D6C;MALAYALAM FRACTION THREE QUARTERS=000D75;LAO LETTER THO SUNG=000E96" \o
      ";GEORGIAN LETTER RAE=0010E0;GEORGIAN LETTER CIL=0010EC;GEORGIAN LETTER AIN=0010FA" \o
      ";TAI LE LETTER TONE-2=001970;BALINESE DIGIT ZERO=001B50;SUNDANESE PUNCTUATION BINDU CAKRA=001CC3" \o
      ";VEDIC SIGN ANUSVARA VAMAGOMUKHA WITH TAIL=001CEC" \o
      ";LATIN SMALL LETTER O WITH MACRON AND GRAVE=001E51;GREEK DASIA AND OXIA=001FDE" \o
      ";ALL EQUAL TO=00224C;BOX DRAWINGS VERTICAL LIGHT AND HORIZONTAL HEAVY=00253F" \o
      ";BOX DRAWINGS VERTICAL HEAVY AND HORIZONTAL LIGHT=002542;MEDIUM WHITE CIRCLE=0026AA" \o
      ";TIMES WITH RIGHT HALF BLACK=0029D5;TRIPLE PLUS=0029FB;ANTICLOCKWISE INTEGRATION=002A11" \o
      ";PRECEDES ABOVE NOT ALMOST EQUAL TO=002AB9;GLAGOLITIC CAPITAL LETTER MYSLITE=002C0F" \o
      ";COPTIC SMALL LETTER OLD NUBIAN WAU=002CE3;KANGXI RADICAL PLOW=002F7E;CIRCLED POSTAL MARK=003036" \o
      ";CJK STROKE D=0031D4;CIRCLED NUMBER TWENTY FIVE=003255;CIRCLED NUMBER TWENTY NINE=003259" \o
      ";CIRCLED NUMBER FORTY SEVEN=0032BC;YI SYLLABLE ITERATION MARK=00A015" \o
      ";COMBINING DEVANAGARI SIGN AVAGRAHA=00A8F1;CHAM CONSONANT SIGN FINAL M=00AA4C" \o
      ";MYANMAR LETTER KHAMTI TTHA=00AA67;TAI VIET SYMBOL KON=00AADB" \o
      ";ARABIC LIGATURE LAM WITH JEEM INITIAL FORM=00FCC9" \o
      ";ARABIC LIGATURE LAM WITH JEEM WITH MEEM FINAL FORM=00FDBC" \o
      ";LINEAR B IDEOGRAM B242 CHARIOT FRAME=0100CE;BRAHMI NUMBER THREE=011054" \o
      ";SINHALA ARCHAIC DIGIT THREE=0111E3;KHUDAWADI LETTER II=0112B3;TIRHUTA VOWEL SIGN SHORT E=0114BA" \o
      ";BHAIKSUKI LETTER HA=011C2E;CUNEIFORM SIGN BUR2=012054;CUNEIFORM SIGN DUN4=012088" \o
      ";CUNEIFORM SIGN HUL2=01213E;CUNEIFORM SIGN TA ASTERISK=0122EC" \o
      ";EGYPTIAN HIEROGLYPH BEGIN SEGMENT=013437;BAMUM LETTER PHASE-E GHEUAE=0169C7" \o
      ";PAHAWH HMONG CONSONANT YAU=016B24;KHITAN SMALL SCRIPT CHARACTER-18B02=018B02" \o
      ";KHITAN SMALL SCRIPT CHARACTER-18B11=018B11;KHITAN SMALL SCRIPT CHARACTER-18B20=018B20" \o
      ";KHITAN SMALL SCRIPT CHARACTER-18C01=018C01;KHITAN SMALL SCRIPT CHARACTER-18C10=018C10" \o
      ";DUPLOYAN LETTER K M=01BC0F;DUPLOYAN LETTER J N=01BC30" \o
      ";ZNAMENNY COMBINING MARK NIZKO S KRYZHEM ON RIGHT=01CF0D" \o
      ";MUSICAL SYMBOL GRACE NOTE NO SLASH=01D195;MATHEMATICAL BOLD CAPITAL K=01D40A" \o
      ";MATHEMATICAL BOLD SCRIPT CAPITAL V=01D4E5" \o
      ";MENDE KIKAKUI COMBINING NUMBER HUNDRED THOUSANDS=01E8D5;PLAYING CARD FIVE OF HEARTS=01F0B5" \o
      ";PLAYING CARD NINE OF HEARTS=01F0B9;PLAYING CARD THREE OF CLUBS=01F0D3" \o
      ";NEGATIVE SQUARED IC=01F18B;FEARFUL FACE=01F628;TRAM=01F68A;SHIP=01F6A2;DOOR=01F6AA" \o
      ";BLUEBERRIES=01FAD0",
    ";CYRILLIC SMALL LETTER A WITH BREVE=0004D1;HEBREW ACCENT TEVIR=00059B" \o
      ";ARABIC SIGN ALAYHE ASSALLAM=000611;MALAYALAM LETTER AU=000D14" \o
      ";SINHALA LETTER MAHAAPRAANA BAYANNA=000DB7;HANGUL JUNGSEONG AE=001162;LIMBU VOWEL SIGN OO=001925" \o
      ";TAI LE LETTER TONE-3=001971;GREEK CAPITAL LETTER OMEGA WITH PSILI AND PROSGEGRAMMENI=001FA8" \o
      ";LEFT DOUBLE QUOTATION MARK=00201C;COMBINING ENCLOSING KEYCAP=0020E3;SQUARE ROOT=00221A" \o
      ";ELEMENT OF OPENING UPWARDS=0027D2" \o
      ";RIGHTWARDS TWO-HEADED ARROW WITH DOUBLE VERTICAL STROKE=002901" \o
      ";TRIPLE NESTED GREATER-THAN=002AF8;TIFINAGH LETTER YAA=002D44;KANGXI RADICAL WORK=002F2F" \o
      ";KANGXI RADICAL WEST=002F91;MYANMAR LETTER TAI LAING FA=00A9E8" \o
      ";ARABIC LIGATURE SEEN WITH HAH INITIAL FORM=00FCAE" \o
      ";ARABIC LIGATURE SAD WITH MEEM INITIAL FORM=00FCB3" \o
      ";ARABIC LIGATURE AIN WITH MEEM INITIAL FORM=00FCBB" \o
      ";ARABIC LIGATURE QAF WITH MEEM INITIAL FORM=00FCC3" \o
      ";ARABIC LIGATURE SEEN WITH MEEM WITH HAH FINAL FORM=00FD5F" \o
      ";ARABIC LIGATURE SAD WITH MEEM WITH MEEM FINAL FORM=00FD66" \o
      ";ARABIC LIGATURE AIN WITH MEEM WITH MEEM FINAL FORM=00FD76" \o
      ";ARABIC LIGATURE QAF WITH MEEM WITH MEEM FINAL FORM=00FD7F" \o
      ";GREEK ACROPHONIC TROEZENIAN FIFTY=010166;VITHKUQI CAPITAL LETTER ME=010584" \o
      ";VITHKUQI CAPITAL LETTER QA=010589;MEROITIC CURSIVE FRACTION EIGHT TWELFTHS=0109FD" \o
      ";SHARADA LETTER TTHA=01119C;KHUDAWADI LETTER RA=0112D9;DOGRA VOWEL SIGN UU=011830" \o
      ";ZANABAZAR SQUARE LETTER YA=011A2A;BHAIKSUKI LETTER AI=011C0B;CUNEIFORM SIGN ALAN=012029" \o
      ";CUNEIFORM SIGN TUM TIMES GAN2 TENU=01253A;KHITAN SMALL SCRIPT CHARACTER-18B03=018B03" \o
      ";KHITAN SMALL SCRIPT CHARACTER-18B12=018B12;KHITAN SMALL SCRIPT CHARACTER-18B21=018B21" \o
      ";KHITAN SMALL SCRIPT CHARACTER-18B30=018B30;KHITAN SMALL SCRIPT CHARACTER-18C02=018C02" \o
      ";KHITAN SMALL SCRIPT CHARACTER-18C11=018C11;KHITAN SMALL SCRIPT CHARACTER-18C20=018C20" \o
      ";ZNAMENNY COMBINING MARK ZADERZHKA=01CF33;MUSICAL SYMBOL OTTAVA ALTA=01D136" \o
      ";TETRAGRAM FOR CLOSED MOUTH=01D33D;MATHEMATICAL BOLD CAPITAL L=01D40B" \o
      ";MATHEMATICAL BOLD SCRIPT CAPITAL W=01D4E6;MATHEMATICAL BOLD ITALIC SMALL FINAL SIGMA=01D747" \o
      ";SIGNWRITING HAND-HINGE MIDDLE RING LITTLE=01D8D1;NOSE=01F443;LARGE PURPLE CIRCLE=01F7E3",
    ";LATIN CAPITAL LETTER N WITH LONG RIGHT LEG=000220;COMBINING DOT BELOW=000323" \o
      ";ARMENIAN SMALL LETTER TIWN=00057F;ARMENIAN SMALL LETTER PIWR=000583" \o
      ";ARABIC LETTER BEH WITH THREE DOTS POINTING UPWARDS BELOW=000752;THAANA LETTER MEEMU=000789" \o
      ";MALAYALAM LETTER VA=000D35;SINHALA LETTER MAHAAPRAANA CAYANNA=000DA1;MYANMAR LETTER DDHA=00100E" \o
      ";GEORGIAN LETTER KAN=0010D9;TAI LE LETTER TONE-4=001972" \o
      ";LATIN CAPITAL LETTER U WITH HORN AND GRAVE=001EEA" \o
      ";GREEK CAPITAL LETTER OMICRON WITH PSILI AND VARIA=001F4A;CIRCLED DASH=00229D" \o
      ";DENTISTRY SYMBOL LIGHT UP AND HORIZONTAL=0023CA;SYMBOL FOR DATA LINK ESCAPE=002410" \o
      ";AND WITH DOT=0027D1;ANGLE WITH UNDERBAR=0029A4" \o
      ";UPWARDS WHITE ARROW FROM BAR WITH HORIZONTAL BAR=002BB8;GLAGOLITIC SMALL LETTER YU=002C53" \o
      ";TIFINAGH LETTER YAB=002D31;SQUARE ONSU=003309;MYANMAR LETTER TAI LAING GA=00A9E9" \o
      ";LATIN SMALL LETTER BARRED E=00AB33;ARABIC LIGATURE TEH WITH HAH ISOLATED FORM=00FC0C" \o
      ";ARABIC LIGATURE TEH WITH KHAH INITIAL FORM=00FCA3;VITHKUQI CAPITAL LETTER NE=010585" \o
      ";KHUDAWADI LETTER SA=0112DD;GRANTHA SIGN VIRAMA=01134D;ZANABAZAR SQUARE LETTER ZA=011A28" \o
      ";BHAIKSUKI LETTER JA=011C15;CUNEIFORM SIGN DUR2=012089;CUNEIFORM SIGN KI TIMES BAD=0121A1" \o
      ";CUNEIFORM SIGN PIR2=012395;CUNEIFORM NUMERIC SIGN EIGHT GESH2=01241C" \o
      ";PAHAWH HMONG CLAN SIGN THOJ=016B85;KHITAN SMALL SCRIPT CHARACTER-18B04=018B04" \o
      ";KHITAN SMALL SCRIPT CHARACTER-18B13=018B13;KHITAN SMALL SCRIPT CHARACTER-18B22=018B22" \o
      ";KHITAN SMALL SCRIPT CHARACTER-18B31=018B31;KHITAN SMALL SCRIPT CHARACTER-18B40=018B40" \o
      ";KHITAN SMALL SCRIPT CHARACTER-18C03=018C03;KHITAN SMALL SCRIPT CHARACTER-18C12=018C12" \o
      ";KHITAN SMALL SCRIPT CHARACTER-18C21=018C21;KHITAN SMALL SCRIPT CHARACTER-18C30=018C30" \o
      ";MATHEMATICAL BOLD CAPITAL M=01D40C;MATHEMATICAL BOLD SCRIPT CAPITAL X=01D4E7" \o
      ";MATHEMATICAL SANS-SERIF BOLD ITALIC PARTIAL DIFFERENTIAL=01D7C3" \o
      ";ARABIC MATHEMATICAL STRETCHED MEEM=01EE6C;EYES=01F440;FILE CABINET=01F5C4;NOTE=01F5C8" \o
      ";TAXI=01F695;XIANGQI RED CHARIOT=01FA64;TAG LOW LINE=0E005F",
    ";LATIN CAPITAL LETTER U WITH MACRON=00016A;COMBINING HOMOTHETIC ABOVE=00034B" \o
      ";CYRILLIC CAPITAL LETTER YU=00042E;HEBREW LETTER DALET=0005D3" \o
      ";ARABIC LETTER DAL WITH THREE DOTS ABOVE DOWNWARDS=00068F" \o
      ";ARABIC LETTER ALEF WITH ATTACHED BOTTOM RIGHT KASRA AND LEFT RING=000880" \o
      ";ARABIC LEFT ARROWHEAD ABOVE=0008F7;DEVANAGARI LETTER U=000909;GUJARATI LETTER GHA=000A98" \o
      ";SINHALA LETTER MAHAAPRAANA DAYANNA=000DB0;THAI CHARACTER MAI CHATTAWA=000E4B" \o
      ";LAO LETTER KHMU NYO=000EDF;MYANMAR DIGIT EIGHT=001048;GEORGIAN LETTER HAR=0010F4" \o
      ";CHEROKEE LETTER TLA=0013DD;KHMER INDEPENDENT VOWEL LY=0017AD;MONGOLIAN DIGIT ONE=001811" \o
      ";MONGOLIAN LETTER BA=00182A;TAI LE LETTER TONE-5=001973;INFORMATION SOURCE=002139" \o
      ";SOUTH EAST ARROW TO CORNER=0021F2;DOWNWARDS QUADRUPLE ARROW=0027F1" \o
      ";COPTIC SMALL LETTER OLD NUBIAN NYI=002CE1;CYRILLIC CAPITAL LETTER IOTIFIED A=00A656" \o
      ";REJANG SECTION MARK=00A95F;JAVANESE SIGN LAYAR=00A982" \o
      ";ARABIC LETTER HEH DOACHASHMEE INITIAL FORM=00FBAC" \o
      ";ARABIC LIGATURE LAM WITH MEEM INITIAL FORM=00FCCC;LINEAR B MONOGRAM B156 TURO2=0100A4" \o
      ";MODIFIER LETTER SMALL FENG DIGRAPH=010790;INSCRIPTIONAL PAHLAVI LETTER BETH=010B61" \o
      ";ELYMAIC LETTER BETH=010FE1;MULTANI LETTER DDDA=011293;KHUDAWADI LETTER TA=0112CD" \o
      ";KHUDAWADI DIGIT SIX=0112F6;WARANG CITI SMALL LETTER DA=0118D4" \o
      ";ZANABAZAR SQUARE CLOSING HEAD MARK=011A40;PAU CIN HAU LETTER I=011AD7" \o
      ";BHAIKSUKI LETTER KA=011C0E;CUNEIFORM SIGN GA2 TIMES EL PLUS LA=0120C8" \o
      ";CUNEIFORM SIGN SUD2=0122E5;CUNEIFORM SIGN NIN9=012390;BAMUM LETTER PHASE-B SET TU=01685A" \o
      ";BAMUM LETTER PHASE-D MFEUAE=01692A;BAMUM LETTER PHASE-D NGKIEE=01693C" \o
      ";BAMUM LETTER PHASE-E RIMGBA=016982;PAHAWH HMONG CLAN SIGN MUAS=016B84" \o
      ";KHITAN SMALL SCRIPT CHARACTER-18B05=018B05;KHITAN SMALL SCRIPT CHARACTER-18B14=018B14" \o
      ";KHITAN SMALL SCRIPT CHARACTER-18B23=018B23;KHITAN SMALL SCRIPT CHARACTER-18B32=018B32" \o
      ";KHITAN SMALL SCRIPT CHARACTER-18B41=018B41;KHITAN SMALL SCRIPT CHARACTER-18B50=018B50" \o
      ";KHITAN SMALL SCRIPT CHARACTER-18C04=018C04;KHITAN SMALL SCRIPT CHARACTER-18C13=018C13" \o
      ";KHITAN SMALL SCRIPT CHARACTER-18C22=018C22;KHITAN SMALL SCRIPT CHARACTER-18C31=018C31" \o
      ";KHITAN SMALL SCRIPT CHARACTER-18C40=018C40;DUPLOYAN LETTER M N=01BC1D" \o
      ";DUPLOYAN LETTER N M=01BC1E;ZNAMENNY COMBINING MARK PODCHASHIE WITH VERTICAL STROKE=01CF37" \o
      ";MATHEMATICAL BOLD CAPITAL N=01D40D;MATHEMATICAL BOLD SCRIPT CAPITAL Y=01D4E8" \o
      ";SIGNWRITING HAND-FIST THUMB SIDE DIAGONAL=01D8F7" \o
      ";SIGNWRITING MOVEMENT-DIAGONAL AWAY SMALL=01D955" \o
      ";SIGNWRITING MOVEMENT-WALLPLANE HUMP HITTING FRONT WALL=01D9A7" \o
      ";SIGNWRITING MOVEMENT-WALLPLANE LOOP HITTING FRONT WALL=01D9A8" \o
      ";SIGNWRITING MOVEMENT-WALLPLANE WAVE DIAGONAL PATH LARGE=01D9B6" \o
      ";LATIN SMALL LETTER DEZH DIGRAPH WITH PALATAL HOOK=01DF12;POULTRY LEG=01F357;DAGGER KNIFE=01F5E1",
    ";LEFT SQUARE BRACKET=00005B;LATIN SMALL LETTER REVERSED OPEN E=00025C" \o
      ";CYRILLIC SMALL LETTER TSHE=00045B" \o
      ";ARABIC LETTER HAH WITH THREE DOTS POINTING UPWARDS BELOW=000758" \o
      ";NKO COMBINING LONG DESCENDING TONE=0007EE;ARABIC LETTER ALEF WITH LEFT MIDDLE STROKE=000873" \o
      ";ARABIC DOUBLED MADDA=00089E;ORIYA VOWEL SIGN AU=000B4C;THAI CHARACTER O ANG=000E2D" \o
      ";GEORGIAN LETTER MAN=0010DB;GEORGIAN LETTER HOE=0010F5;HANGUL CHOSEONG SIOS-IEUNG=001135" \o
      ";HANGUL CHOSEONG IEUNG-SIOS=001145;CANADIAN SYLLABICS WEST-CREE SHWAA=001524" \o
      ";KHMER INDEPENDENT VOWEL QU=0017A7;TAI LE LETTER TONE-6=001974;KHMER SYMBOL PRAM-MUOY ROC=0019F6" \o
      ";BUGINESE LETTER NGA=001A02;BALINESE MUSICAL SYMBOL COMBINING JEGOGAN=001B6F" \o
      ";LATIN SMALL LETTER MIDDLE-WELSH LL=001EFB;COMBINING ENCLOSING SCREEN=0020E2" \o
      ";WHITE SQUARE WITH RIGHTWARDS TICK=0027E5;SOUTH EAST ARROW WITH HOOK=002925" \o
      ";UP BARB LEFT DOWN BARB LEFT HARPOON=002951;SUCCEEDS ABOVE NOT ALMOST EQUAL TO=002ABA" \o
      ";SQUARE WITH LOWER LEFT DIAGONAL HALF BLACK=002B15;TIFINAGH LETTER YAD=002D37;PARAGRAPHOS=002E0F" \o
      ";KANGXI RADICAL STOP=002F4C;HANGUL LETTER CIEUC=003148;CJK STROKE H=0031D0" \o
      ";IDEOGRAPHIC TELEGRAPH SYMBOL FOR HOUR ONE=003359" \o
      ";IDEOGRAPHIC TELEGRAPH SYMBOL FOR DAY TWENTY-FIVE=0033F8" \o
      ";IDEOGRAPHIC TELEGRAPH SYMBOL FOR DAY TWENTY-NINE=0033FC" \o
      ";MODIFIER LETTER RAISED INVERTED EXCLAMATION MARK=00A71E;HALFWIDTH HANGUL LETTER YU=00FFD7" \o
      ";VITHKUQI CAPITAL LETTER PE=010588;PALMYRENE LETTER FINAL NUN=01086D" \o
      ";NABATAEAN LETTER FINAL BETH=010882;HATRAN LETTER ALEPH=0108E0" \o
      ";INSCRIPTIONAL PAHLAVI LETTER KAPH=010B6A;SOGDIAN LETTER BETH=010F31;ELYMAIC LETTER KAPH=010FEA" \o
      ";KAITHI SIGN VISARGA=011082;KHOJKI DANDA=011238;KHUDAWADI LETTER AU=0112B9" \o
      ";BHAIKSUKI LETTER LA=011C29;CUNEIFORM SIGN HI TIMES GAD=012132" \o
      ";KHITAN SMALL SCRIPT CHARACTER-18B06=018B06;KHITAN SMALL SCRIPT CHARACTER-18B15=018B15" \o
      ";KHITAN SMALL SCRIPT CHARACTER-18B24=018B24;KHITAN SMALL SCRIPT CHARACTER-18B33=018B33" \o
      ";KHITAN SMALL SCRIPT CHARACTER-18B42=018B42;KHITAN SMALL SCRIPT CHARACTER-18B51=018B51" \o
      ";KHITAN SMALL SCRIPT CHARACTER-18B60=018B60;KHITAN SMALL SCRIPT CHARACTER-18C05=018C05" \o
      ";KHITAN SMALL SCRIPT CHARACTER-18C14=018C14;KHITAN SMALL SCRIPT CHARACTER-18C23=018C23" \o
      ";KHITAN SMALL SCRIPT CHARACTER-18C32=018C32;KHITAN SMALL SCRIPT CHARACTER-18C41=018C41" \o
      ";KHITAN SMALL SCRIPT CHARACTER-18C50=018C50;MATHEMATICAL BOLD CAPITAL O=01D40E" \o
      ";MATHEMATICAL BOLD SCRIPT CAPITAL Z=01D4E9;MATHEMATICAL BOLD SMALL CHI=01D6D8" \o
      ";SIGNWRITING ROTATION-FLOORPLANE SINGLE HITTING CEILING=01D9C3;SIGNWRITING EYES HALF OPEN=01DA19" \o
      ";COMBINING GLAGOLITIC LETTER SLOVO=01E014;OTTOMAN SIYAQ NUMBER FOUR HUNDRED=01ED16" \o
      ";WHITE LEFT POINTING BACKHAND INDEX=01F448;LIPS=01F5E2;LARGE ORANGE SQUARE=01F7E7" \o
      ";HUGGING FACE=01F917;FOOT=01F9B6;RIGHT THREE QUARTERS BLOCK=01FB8A",
    ";CYRILLIC CAPITAL LETTER BASHKIR KA=0004A0;NKO LETTER A=0007CA;TELUGU VOWEL SIGN E=000C46" \o
      ";MALAYALAM LETTER YA=000D2F;TIBETAN DIGIT SEVEN=000F27;TIBETAN MARK PALUTA=000F85" \o
      ";CANADIAN SYLLABICS WEST-CREE THWAA=001569;MONGOLIAN MANCHU FULL STOP=001809" \o
      ";MONGOLIAN LETTER DA=001833;TAI THAM CONSONANT SIGN LA TANG LAI=001A57" \o
      ";SUNDANESE LETTER BA=001B98;SUNDANESE DIGIT ONE=001BB1" \o
      ";GREEK CAPITAL LETTER EPSILON WITH PSILI AND VARIA=001F1A;COMBINING WIDE BRIDGE ABOVE=0020E9" \o
      ";ROMAN NUMERAL ONE THOUSAND=00216F;DOWNWARDS TWO HEADED ARROW=0021A1" \o
      ";BLACK RIGHTWARDS ARROWHEAD=0027A4;LOWER RIGHT SEMICIRCULAR CLOCKWISE ARROW=00293E" \o
      ";UP FISH TAIL=00297E;CJK RADICAL WALK ONE=002ECD;IDEOGRAPHIC ITERATION MARK=003005" \o
      ";MYANMAR LETTER TAI LAING JA=00A9EB;MEETEI MAYEK VOWEL SIGN AAI=00AAED" \o
      ";HEBREW LETTER KAF WITH RAFE=00FB4D" \o
      ";ARABIC LIGATURE YEH WITH HAMZA ABOVE WITH U ISOLATED FORM=00FBF0" \o
      ";ARABIC LIGATURE BEH WITH YEH ISOLATED FORM=00FC0A" \o
      ";ARABIC LIGATURE NOON WITH MEEM MEDIAL FORM=00FCEE" \o
      ";ARABIC LIGATURE SEEN WITH HEH INITIAL FORM=00FD31;FULLWIDTH ASTERISK=00FF0A" \o
      ";GOTHIC LETTER MANNA=01033C;NABATAEAN LETTER FINAL KAPH=01088E;MEROITIC CURSIVE LETTER KA=0109B2" \o
      ";SOGDIAN LETTER KAPH=010F38;KHUDAWADI LETTER VA=0112DB;BHAIKSUKI LETTER MA=011C26" \o
      ";CUNEIFORM SIGN AB2 TIMES ME PLUS EN=012019;CUNEIFORM SIGN DAG KISIM5 TIMES IR PLUS LU=012062" \o
      ";CUNEIFORM SIGN EDIN=012094;CUNEIFORM SIGN LAGAB TIMES U PLUS U PLUS U=0121E7" \o
      ";KHITAN SMALL SCRIPT CHARACTER-18B07=018B07;KHITAN SMALL SCRIPT CHARACTER-18B16=018B16" \o
      ";KHITAN SMALL SCRIPT CHARACTER-18B25=018B25;KHITAN SMALL SCRIPT CHARACTER-18B34=018B34" \o
      ";KHITAN SMALL SCRIPT CHARACTER-18B43=018B43;KHITAN SMALL SCRIPT CHARACTER-18B52=018B52" \o
      ";KHITAN SMALL SCRIPT CHARACTER-18B61=018B61;KHITAN SMALL SCRIPT CHARACTER-18B70=018B70" \o
      ";KHITAN SMALL SCRIPT CHARACTER-18C06=018C06;KHITAN SMALL SCRIPT CHARACTER-18C15=018C15" \o
      ";KHITAN SMALL SCRIPT CHARACTER-18C24=018C24;KHITAN SMALL SCRIPT CHARACTER-18C33=018C33" \o
      ";KHITAN SMALL SCRIPT CHARACTER-18C42=018C42;KHITAN SMALL SCRIPT CHARACTER-18C51=018C51" \o
      ";KHITAN SMALL SCRIPT CHARACTER-18C60=018C60;DUPLOYAN LETTER S J=01BC20" \o
      ";DUPLOYAN LETTER J S=01BC29;ZNAMENNY COMBINING MARK VYSOKO S KRYZHEM=01CF1D" \o
      ";MATHEMATICAL BOLD CAPITAL P=01D40F;SIGNWRITING HAND-FIST LITTLE DOWN=01D88E" \o
      ";SIGNWRITING NOSE WRINKLES=01DA33;NEGATIVE SQUARED PA=01F18C;ROSE=01F339;BLACK FOLDER=01F5BF" \o
      ";LARGE YELLOW CIRCLE=01F7E1;SWAN=01F9A2;CHEESE WEDGE=01F9C0;WOOD=01FAB5" \o
      ";UPPER AND LEFT AND LOWER TRIANGULAR THREE QUARTERS BLOCK=01FB6A",
    ";LATIN CAPITAL LETTER U WITH OGONEK=000172;CYRILLIC SMALL LETTER HA WITH HOOK=0004FD" \o
      ";SYRIAC PTHAHA BELOW=000731;ARABIC LETTER FEH WITH THREE DOTS POINTING UPWARDS BELOW=000761" \o
      ";GUJARATI LETTER JHA=000A9D;MALAYALAM DIGIT TWO=000D68;SINHALA LETTER MAHAAPRAANA GAYANNA=000D9D" \o
      ";TIBETAN MARK GTER YIG MGO -UM GTER TSHEG MA=000F03;HANGUL CHOSEONG SSANGCIEUC=00110D" \o
      ";CANADIAN SYLLABICS CHI SIGN=00166D;SUNDANESE LETTER CA=001B8E;WHITE FROWNING FACE=002639" \o
      ";DOUBLE VERTICAL BAR DOUBLE LEFT TURNSTILE=002AE5;TIFINAGH LETTER YAF=002D3C" \o
      ";CJK RADICAL LONG ONE=002ED1;KANGXI RADICAL DOTTED CLIFF=002F34" \o
      ";HANGUL LETTER KAPYEOUNSSANGPIEUP=003179;CYRILLIC SMALL LETTER IOTIFIED CLOSED LITTLE YUS=00A65D" \o
      ";JAVANESE DIGIT FOUR=00A9D4;ARABIC LIGATURE TAH WITH MEEM INITIAL FORM=00FD33" \o
      ";PRESENTATION FORM FOR VERTICAL SEMICOLON=00FE14" \o
      ";PRESENTATION FORM FOR VERTICAL LEFT DOUBLE ANGLE BRACKET=00FE3D" \o
      ";HALFWIDTH KATAKANA LETTER SMALL YA=00FF6C;UGARITIC LETTER KAF=01038B;OSMANYA DIGIT EIGHT=0104A8" \o
      ";VITHKUQI CAPITAL LETTER RE=01058A;MEROITIC CURSIVE LETTER LA=0109AC;KAITHI SECTION MARK=0110BE" \o
      ";WARANG CITI SMALL LETTER GA=0118CB;BHAIKSUKI LETTER NA=011C21;CUNEIFORM SIGN AMAR=01202B" \o
      ";BAMUM LETTER PHASE-B KEUAEM=016886;BAMUM LETTER PHASE-C MBUAEM=0168CC" \o
      ";KHITAN SMALL SCRIPT CHARACTER-18B08=018B08;KHITAN SMALL SCRIPT CHARACTER-18B17=018B17" \o
      ";KHITAN SMALL SCRIPT CHARACTER-18B26=018B26;KHITAN SMALL SCRIPT CHARACTER-18B35=018B35" \o
      ";KHITAN SMALL SCRIPT CHARACTER-18B44=018B44;KHITAN SMALL SCRIPT CHARACTER-18B53=018B53" \o
      ";KHITAN SMALL SCRIPT CHARACTER-18B62=018B62;KHITAN SMALL SCRIPT CHARACTER-18B71=018B71" \o
      ";KHITAN SMALL SCRIPT CHARACTER-18B80=018B80;KHITAN SMALL SCRIPT CHARACTER-18C07=018C07" \o
      ";KHITAN SMALL SCRIPT CHARACTER-18C16=018C16;KHITAN SMALL SCRIPT CHARACTER-18C25=018C25" \o
      ";KHITAN SMALL SCRIPT CHARACTER-18C34=018C34;KHITAN SMALL SCRIPT CHARACTER-18C43=018C43" \o
      ";KHITAN SMALL SCRIPT CHARACTER-18C52=018C52;KHITAN SMALL SCRIPT CHARACTER-18C61=018C61" \o
      ";KHITAN SMALL SCRIPT CHARACTER-18C70=018C70;DUPLOYAN LETTER P N=01BC0C" \o
      ";DUPLOYAN LETTER S K=01BC3F;DUPLOYAN LETTER ROMANIAN I=01BC4D;MATHEMATICAL BOLD CAPITAL Q=01D410" \o
      ";MATHEMATICAL ITALIC SMALL A=01D44E;OTTOMAN SIYAQ NUMBER ONE THOUSAND=01ED1C" \o
      ";PLAYING CARD QUEEN OF CLUBS=01F0DD;KISS=01F48F;LEFT THOUGHT BUBBLE=01F5EC;FLUSHED FACE=01F633" \o
      ";HEAR-NO-EVIL MONKEY=01F649;EMOJI COMPONENT CURLY HAIR=01F9B1;VS100=0E0153",
    ";NULL=000000;LATIN CAPITAL LETTER Y WITH MACRON=000232;LATIN CAPITAL LETTER A WITH STROKE=00023A" \o
      ";CYRILLIC CAPITAL LETTER IOTIFIED E=000464;CYRILLIC SMALL LETTER EL WITH TAIL=0004C6" \o
      ";ARMENIAN SMALL LETTER YIWN=000582;HEBREW ACCENT MERKHA KEFULA=0005A6;HEBREW LETTER GIMEL=0005D2" \o
      ";GUJARATI LETTER KHA=000A96;SINHALA LETTER AMBA BAYANNA=000DB9;LAO LETTER O=000EAD" \o
      ";TIBETAN SYLLABLE OM=000F00;GEORGIAN LETTER JIL=0010EB;CHEROKEE LETTER TLE=0013DE" \o
      ";MONGOLIAN LETTER FA=001839;BALINESE LETTER NYA=001B1C;SUNDANESE LETTER DA=001B93" \o
      ";INTERROBANG=00203D;BOTTOM PARENTHESIS=0023DD;SYMBOL FOR CARRIAGE RETURN=00240D" \o
      ";WHITE SQUARE WITH ROUNDED CORNERS=0025A2;SQUARE WITH UPPER LEFT DIAGONAL HALF BLACK=0025E9" \o
      ";ALTERNATE ONE-WAY LEFT WAY TRAFFIC=0026D5;TENT=0026FA;OUTLINED BLACK STAR=00272D" \o
      ";TIFINAGH LETTER YAG=002D33;CYRILLIC SMALL LETTER SHWE=00A697" \o
      ";ARABIC LIGATURE YEH WITH HAH ISOLATED FORM=00FC56" \o
      ";ARABIC LIGATURE TEH WITH JEEM INITIAL FORM=00FCA1" \o
      ";ARABIC LIGATURE YEH WITH KHAH INITIAL FORM=00FCDC" \o
      ";ARABIC LIGATURE HAH WITH YEH ISOLATED FORM=00FD00" \o
      ";ARABIC LIGATURE SAD WITH REH ISOLATED FORM=00FD0F" \o
      ";ARABIC LIGATURE MEEM WITH KHAH WITH YEH FINAL FORM=00FDB9;GOTHIC LETTER FAIHU=010346" \o
      ";OSMANYA LETTER KAAF=01048F;VITHKUQI CAPITAL LETTER SE=01058C" \o
      ";MODIFIER LETTER SMALL CLOSED OMEGA=0107A4;MEROITIC CURSIVE LETTER MA=0109A8" \o
      ";OLD SOUTH ARABIAN LETTER FE=010A70;MULTANI LETTER DDHA=011294;SIDDHAM LETTER TTHA=011599" \o
      ";MASARAM GONDI VOWEL SIGN AI=011D3C;GUNJALA GONDI VOWEL SIGN EE=011D90" \o
      ";GUNJALA GONDI VOWEL SIGN AI=011D91;CUNEIFORM SIGN KA TIMES GAL=012163" \o
      ";CUNEIFORM SIGN LU2 TIMES AL=0121FE;CUNEIFORM SIGN MUSH CROSSING MUSH=012238" \o
      ";CUNEIFORM SIGN SHU2=0122D9;CUNEIFORM SIGN TUG2=012306;CUNEIFORM SIGN UD TIMES BAD=012315" \o
      ";CUNEIFORM SIGN UR2 TIMES U2=012331;CUNEIFORM SIGN URU TIMES GAN2 TENU=01233E" \o
      ";CUNEIFORM SIGN USH2=012357;MIAO VOWEL SIGN YUI=016F80" \o
      ";KHITAN SMALL SCRIPT CHARACTER-18B09=018B09;KHITAN SMALL SCRIPT CHARACTER-18B18=018B18" \o
      ";KHITAN SMALL SCRIPT CHARACTER-18B27=018B27;KHITAN SMALL SCRIPT CHARACTER-18B36=018B36" \o
      ";KHITAN SMALL SCRIPT CHARACTER-18B45=018B45;KHITAN SMALL SCRIPT CHARACTER-18B54=018B54" \o
      ";KHITAN SMALL SCRIPT CHARACTER-18B63=018B63;KHITAN SMALL SCRIPT CHARACTER-18B72=018B72" \o
      ";KHITAN SMALL SCRIPT CHARACTER-18B81=018B81;KHITAN SMALL SCRIPT CHARACTER-18B90=018B90" \o
      ";KHITAN SMALL SCRIPT CHARACTER-18C08=018C08;KHITAN SMALL SCRIPT CHARACTER-18C17=018C17" \o
      ";KHITAN SMALL SCRIPT CHARACTER-18C26=018C26;KHITAN SMALL SCRIPT CHARACTER-18C35=018C35" \o
      ";KHITAN SMALL SCRIPT CHARACTER-18C44=018C44;KHITAN SMALL SCRIPT CHARACTER-18C53=018C53" \o
      ";KHITAN SMALL SCRIPT CHARACTER-18C62=018C62;KHITAN SMALL SCRIPT CHARACTER-18C71=018C71" \o
      ";KHITAN SMALL SCRIPT CHARACTER-18C80=018C80" \o
      ";BYZANTINE MUSICAL SYMBOL GORGON PARESTIGMENON ARISTERA=01D090;MUSICAL SYMBOL CODA=01D10C" \o
      ";MUSICAL SYMBOL EIGHTH REST=01D13E;MAYAN NUMERAL EIGHT=01D2E8;MATHEMATICAL BOLD CAPITAL R=01D411" \o
      ";MATHEMATICAL ITALIC SMALL B=01D44F;SIGNWRITING HAND-FLAT FIVE FINGERS SPREAD=01D84C" \o
      ";SIGNWRITING MOVEMENT-FLOORPLANE DOUBLE ALTERNATING WRIST FLEX=01D96D" \o
      ";SIGNWRITING ROTATION-WALLPLANE ALTERNATING HITTING FRONT WALL=01D9AC" \o
      ";SIGNWRITING MOVEMENT-WALLPLANE ARM CIRCLE MEDIUM DOUBLE=01D9E6" \o
      ";ARABIC MATHEMATICAL STRETCHED THEH=01EE76;NUT AND BOLT=01F529;VS101=0E0154;VS110=0E015D" \o
      ";VS200=0E01B7",
    ";LATIN CAPITAL LETTER B WITH STROKE=000243;MODIFIER LETTER MINUS SIGN=0002D7" \o
      ";CYRILLIC SMALL LETTER EM WITH TAIL=0004CE;HEBREW ACCENT YETIV=00059A" \o
      ";MALAYALAM LETTER ARCHAIC II=000D5F;GEORGIAN LETTER LAS=0010DA" \o
      ";HANGUL CHOSEONG PIEUP-SIOS-KIYEOK=001122;HANGUL CHOSEONG SIOS-PIEUP-KIYEOK=001133" \o
      ";MONGOLIAN LETTER GA=00182D;BALINESE VOWEL SIGN RA REPA=001B3A;SUNDANESE LETTER AE=001B86" \o
      ";LEFT SINGLE QUOTATION MARK=002018;FOURTH ROOT=00221C;NOT ALMOST EQUAL TO=002249;JUNO=0026B5" \o
      ";TIFINAGH LETTER YAH=002D40;LOW KAVYKA WITH DOT=002E48;JAVANESE VOWEL SIGN TARUNG=00A9B4" \o
      ";ARABIC LIGATURE KAF WITH YEH ISOLATED FORM=00FC3E;COPTIC EPACT NUMBER THIRTY=0102EC" \o
      ";UGARITIC LETTER KHA=010383;SHAVIAN LETTER KICK=010452;VITHKUQI CAPITAL LETTER TE=01058E" \o
      ";HATRAN LETTER GIMEL=0108E2;MEROITIC CURSIVE LETTER NA=0109A9" \o
      ";MEROITIC CURSIVE FRACTION THREE TWELFTHS=0109F8;PSALTER PAHLAVI LETTER TAW=010B91" \o
      ";SOGDIAN LETTER FETH=010F43;KHUDAWADI LETTER YA=0112D8;BHAIKSUKI LETTER PA=011C22" \o
      ";CUNEIFORM SIGN IDIM=012142;CUNEIFORM SIGN KA TIMES BAR=01215E;CUNEIFORM SIGN URI3=012336" \o
      ";CUNEIFORM SIGN GA2 TIMES NE PLUS GI=0124C6;BAMUM LETTER PHASE-A LOMMAE=016838" \o
      ";KHITAN SMALL SCRIPT CHARACTER-18B19=018B19;KHITAN SMALL SCRIPT CHARACTER-18B28=018B28" \o
      ";KHITAN SMALL SCRIPT CHARACTER-18B37=018B37;KHITAN SMALL SCRIPT CHARACTER-18B46=018B46" \o
      ";KHITAN SMALL SCRIPT CHARACTER-18B55=018B55;KHITAN SMALL SCRIPT CHARACTER-18B64=018B64" \o
      ";KHITAN SMALL SCRIPT CHARACTER-18B73=018B73;KHITAN SMALL SCRIPT CHARACTER-18B82=018B82" \o
      ";KHITAN SMALL SCRIPT CHARACTER-18B91=018B91;KHITAN SMALL SCRIPT CHARACTER-18C09=018C09" \o
      ";KHITAN SMALL SCRIPT CHARACTER-18C18=018C18;KHITAN SMALL SCRIPT CHARACTER-18C27=018C27" \o
      ";KHITAN SMALL SCRIPT CHARACTER-18C36=018C36;KHITAN SMALL SCRIPT CHARACTER-18C45=018C45" \o
      ";KHITAN SMALL SCRIPT CHARACTER-18C54=018C54;KHITAN SMALL SCRIPT CHARACTER-18C63=018C63" \o
      ";KHITAN SMALL SCRIPT CHARACTER-18C72=018C72;KHITAN SMALL SCRIPT CHARACTER-18C81=018C81" \o
      ";KHITAN SMALL SCRIPT CHARACTER-18C90=018C90;DUPLOYAN LETTER M S=01BC27" \o
      ";DUPLOYAN LETTER S M=01BC3C;MUSICAL SYMBOL QUARTER TONE SHARP=01D132" \o
      ";MUSICAL SYMBOL COMMON TIME=01D134;MATHEMATICAL BOLD CAPITAL S=01D412" \o
      ";MATHEMATICAL ITALIC SMALL C=01D450;SIGNWRITING HEAD MOVEMENT-WALLPLANE TILT=01DA02" \o
      ";SIGNWRITING EYELASHES FLUTTERING=01DA20;SIGNWRITING AIR SUCKING IN=01DA36" \o
      ";NYIAKENG PUACHUE HMONG DIGIT EIGHT=01E148;NEGATIVE SQUARED SA=01F18D;KNOT=01FAA2;VS102=0E0155" \o
      ";VS111=0E015E;VS120=0E0167;VS201=0E01B8;VS210=0E01C1",
    ";LATIN CAPITAL LETTER OPEN E=000190;LATIN CAPITAL LETTER C WITH STROKE=00023B" \o
      ";CYRILLIC SMALL LETTER KA WITH HOOK=0004C4;CYRILLIC SMALL LETTER EN WITH TAIL=0004CA" \o
      ";CYRILLIC CAPITAL LETTER ZE WITH DIAERESIS=0004DE;HEBREW ACCENT ZINOR=0005AE" \o
      ";ARABIC LETTER REH WITH RING=000693;ARABIC SMALL HIGH MEEM INITIAL FORM=0006D8" \o
      ";SYRIAC LETTER GAMAL=000713;SYRIAC ZQAPHA ABOVE=000733;SYRIAC FEMININE DOT=000740" \o
      ";THAANA LETTER SEENU=000790;NKO LETTER E=0007CD;GUJARATI LETTER NGA=000A99" \o
      ";TELUGU VOWEL SIGN I=000C3F;MALAYALAM LETTER OO=000D13;SINHALA LETTER MAHAAPRAANA JAYANNA=000DA3" \o
      ";THAI CHARACTER MO MA=000E21;TIBETAN SIGN RDEL DKAR GSUM=000F1C" \o
      ";TIBETAN MARK NGAS BZUNG SGOR RTAGS=000F37;GEORGIAN LETTER DON=0010D3;GEORGIAN LETTER NAR=0010DC" \o
      ";HANGUL CHOSEONG SIOS-MIEUM=001131;CHEROKEE LETTER QUA=0013C6;KHMER INDEPENDENT VOWEL RY=0017AB" \o
      ";SUNDANESE LETTER FA=001B96;COMBINING LATIN SMALL LETTER ALPHA=001DE7;MMSP=00205F" \o
      ";CLEAR SCREEN SYMBOL=00239A;LARGE CIRCLE=0025EF;MINY=0029FF;LEFT HALF BLACK STAR=002BE8" \o
      ";CJK RADICAL SIMPLIFIED WALK=002ECC;KANGXI RADICAL DISTINGUISH=002FA4" \o
      ";IDEOGRAPHIC TELEGRAPH SYMBOL FOR HOUR TEN=003362;HEXAGRAM FOR MOUTH CORNERS=004DDA" \o
      ";HANGUL CHOSEONG MIEUM-SIOS=00A971;ARABIC LETTER TTEHEH ISOLATED FORM=00FB5E" \o
      ";ARABIC LIGATURE FEH WITH YEH ISOLATED FORM=00FC32" \o
      ";PRESENTATION FORM FOR VERTICAL IDEOGRAPHIC COMMA=00FE11;OLD SOUTH ARABIAN LETTER HE=010A60" \o
      ";INSCRIPTIONAL PAHLAVI LETTER HETH=010B67;ELYMAIC LETTER HETH=010FE7;BRAHMI NUMBER SEVEN=011058" \o
      ";SINHALA ARCHAIC DIGIT SEVEN=0111E7;KHUDAWADI DIGIT TWO=0112F2;PAU CIN HAU LETTER O=011AD8" \o
      ";BHAIKSUKI LETTER II=011C03;CUNEIFORM SIGN SAG TIMES U2=0122A2" \o
      ";CUNEIFORM SIGN UR2 TIMES HA=01232F;CUNEIFORM NUMERIC SIGN THREE GESH2=012417" \o
      ";CUNEIFORM NUMERIC SIGN EIGHT SHAR2=01242A;BAMUM LETTER PHASE-A SHIRAE=01683E" \o
      ";BAMUM LETTER PHASE-A NSHIEE=01684D;KHITAN SMALL SCRIPT CHARACTER-18B29=018B29" \o
      ";KHITAN SMALL SCRIPT CHARACTER-18B38=018B38;KHITAN SMALL SCRIPT CHARACTER-18B47=018B47" \o
      ";KHITAN SMALL SCRIPT CHARACTER-18B56=018B56;KHITAN SMALL SCRIPT CHARACTER-18B65=018B65" \o
      ";KHITAN SMALL SCRIPT CHARACTER-18B74=018B74;KHITAN SMALL SCRIPT CHARACTER-18B83=018B83" \o
      ";KHITAN SMALL SCRIPT CHARACTER-18B92=018B92;KHITAN SMALL SCRIPT CHARACTER-18C19=018C19" \o
      ";KHITAN SMALL SCRIPT CHARACTER-18C28=018C28;KHITAN SMALL SCRIPT CHARACTER-18C37=018C37" \o
      ";KHITAN SMALL SCRIPT CHARACTER-18C46=018C46;KHITAN SMALL SCRIPT CHARACTER-18C55=018C55" \o
      ";KHITAN SMALL SCRIPT CHARACTER-18C64=018C64;KHITAN SMALL SCRIPT CHARACTER-18C73=018C73" \o
      ";KHITAN SMALL SCRIPT CHARACTER-18C82=018C82;KHITAN SMALL SCRIPT CHARACTER-18C91=018C91" \o
      ";DUPLOYAN LETTER N S=01BC28;DUPLOYAN LETTER S N=01BC3B;ZNAMENNY NEUME VRAKHIYA MRACHNAYA=01CF64" \o
      ";MUSICAL SYMBOL MINIMA REST=01D1C5;MATHEMATICAL BOLD CAPITAL T=01D413" \o
      ";MATHEMATICAL ITALIC SMALL D=01D451;SIGNWRITING HAND-CUP INDEX=01D802" \o
      ";SIGNWRITING HAND-FLAT FOUR FINGERS HINGED=01D846;ARABIC MATHEMATICAL STRETCHED SEEN=01EE6E" \o
      ";PLAYING CARD SEVEN OF CLUBS=01F0D7;VS103=0E0156;VS112=0E015F;VS121=0E0168;VS130=0E0171" \o
      ";VS202=0E01B9;VS211=0E01C2;VS220=0E01CB",
    ";LATIN CAPITAL LETTER D WITH STROKE=000110;LATIN LETTER BILABIAL CLICK=000298" \o
      ";CYRILLIC SMALL LETTER I WITH GRAVE=00045D;ARABIC LETTER RNOON=0006BB" \o
      ";ARABIC LETTER YEH WITH TAIL=0006CD;GUJARATI ABBREVIATION SIGN=000AF0" \o
      ";SINHALA LETTER MAHAAPRAANA KAYANNA=000D9B;TIBETAN LETTER DZHA=000F5C;MYANMAR DIGIT THREE=001043" \o
      ";GEORGIAN LETTER SAN=0010E1;CHEROKEE LETTER TSA=0013E3;MONGOLIAN LETTER EE=001827" \o
      ";SUNDANESE LETTER GA=001B8C;ROMAN NUMERAL TEN THOUSAND=002182;DIGIT SIX FULL STOP=00248D" \o
      ";BOX DRAWINGS LEFT HEAVY AND RIGHT UP LIGHT=002535" \o
      ";BOX DRAWINGS RIGHT HEAVY AND LEFT UP LIGHT=002536" \o
      ";BOX DRAWINGS RIGHT LIGHT AND LEFT UP HEAVY=002539" \o
      ";BOX DRAWINGS LEFT LIGHT AND RIGHT UP HEAVY=00253A;BLACK DIAMOND MINUS WHITE X=002756" \o
      ";TIFINAGH LETTER YAJ=002D36;HANGUL LETTER YO-YA=003187;CJK STROKE N=0031CF" \o
      ";PARENTHESIZED HANGUL CIEUC=003208;CYRILLIC SMALL LETTER DZWE=00A683" \o
      ";LATIN CAPITAL LETTER CUATRILLO WITH COMMA=00A72E;DEVANAGARI SIGN CANDRABINDU VIRAMA=00A8F3" \o
      ";JAVANESE VOWEL SIGN TOLONG=00A9B5;JAVANESE DIGIT ZERO=00A9D0;CHAM LETTER FINAL CH=00AA44" \o
      ";HANGUL JONGSEONG CIEUC-SSANGPIEUP=00D7F8;ARABIC LETTER YU FINAL FORM=00FBDC" \o
      ";ARABIC LIGATURE TEH WITH MEEM INITIAL FORM=00FCA4;AEGEAN NUMBER FORTY=010113" \o
      ";VITHKUQI CAPITAL LETTER VE=010591;MEROITIC CURSIVE LETTER PA=0109A7;SOGDIAN LETTER HETH=010F36" \o
      ";BRAHMI LETTER OLD TAMIL RRA=011036;BRAHMI VOWEL SIGN VOCALIC L=011040" \o
      ";BRAHMI NUMBER FIFTY=01105F;TIRHUTA VOWEL SIGN SHORT O=0114BD" \o
      ";SOYOMBO CLUSTER-INITIAL LETTER LA=011A87;BHAIKSUKI LETTER RA=011C28;MARCHEN LETTER TSHA=011C83" \o
      ";CUNEIFORM SIGN GA2 TIMES ME PLUS EN=0120DE;CUNEIFORM SIGN GUR7=012126" \o
      ";CUNEIFORM SIGN KA TIMES KAK=01216F;CUNEIFORM SIGN NAGA TIMES SHU TENU=012242" \o
      ";CUNEIFORM NUMERIC SIGN SIX U VARIANT FORM=01246B;BAMUM LETTER PHASE-A NKINDI=016814" \o
      ";BAMUM LETTER PHASE-E LEUAEM=0169B3;MIAO LETTER REFORMED TONE-1=016F9A" \o
      ";KHITAN SMALL SCRIPT CHARACTER-18B39=018B39;KHITAN SMALL SCRIPT CHARACTER-18B48=018B48" \o
      ";KHITAN SMALL SCRIPT CHARACTER-18B57=018B57;KHITAN SMALL SCRIPT CHARACTER-18B66=018B66" \o
      ";KHITAN SMALL SCRIPT CHARACTER-18B75=018B75;KHITAN SMALL SCRIPT CHARACTER-18B84=018B84" \o
      ";KHITAN SMALL SCRIPT CHARACTER-18B93=018B93;KHITAN SMALL SCRIPT CHARACTER-18C29=018C29" \o
      ";KHITAN SMALL SCRIPT CHARACTER-18C38=018C38;KHITAN SMALL SCRIPT CHARACTER-18C47=018C47" \o
      ";KHITAN SMALL SCRIPT CHARACTER-18C56=018C56;KHITAN SMALL SCRIPT CHARACTER-18C65=018C65" \o
      ";KHITAN SMALL SCRIPT CHARACTER-18C74=018C74;KHITAN SMALL SCRIPT CHARACTER-18C83=018C83" \o
      ";KHITAN SMALL SCRIPT CHARACTER-18C92=018C92;BYZANTINE MUSICAL SYMBOL EPEGERMA=01D068" \o
      ";MATHEMATICAL BOLD CAPITAL U=01D414;MATHEMATICAL ITALIC SMALL E=01D452" \o
      ";MATHEMATICAL BOLD SMALL ETA=01D6C8;MATHEMATICAL BOLD DIGIT ONE=01D7CF" \o
      ";SIGNWRITING MOUTH CORNERS=01DA56;INDIC SIYAQ NUMBER SIXTY THOUSAND=01EC9A" \o
      ";MAHJONG TILE SIX OF BAMBOOS=01F015;WANING GIBBOUS MOON SYMBOL=01F316;RICE CRACKER=01F358" \o
      ";DOWN-POINTING RED TRIANGLE=01F53B;WASTEBASKET=01F5D1;ALCHEMICAL SYMBOL FOR BLACK SULFUR=01F70F" \o
      ";XIANGQI RED SOLDIER=01FA66;VS104=0E0157;VS113=0E0160;VS122=0E0169;VS131=0E0172;VS140=0E017B" \o
      ";VS203=0E01BA;VS212=0E01C3;VS221=0E01CC;VS230=0E01D5",
    ";LATIN CAPITAL LETTER E WITH STROKE=000246;MODIFIER LETTER DOUBLE APOSTROPHE=0002EE" \o
      ";CYRILLIC CAPITAL LETTER IZHITSA WITH DOUBLE GRAVE ACCENT=000476;HEBREW YOD TRIANGLE=0005EF" \o
      ";AFGHANI SIGN=00060B;ARABIC LETTER TEH WITH RING=00067C;SAMARITAN LETTER FI=000810" \o
      ";TAMIL VOWEL SIGN UU=000BC2;TIBETAN SIGN RDEL NAG GNYIS=000F1E;GEORGIAN LETTER TAN=0010D7" \o
      ";GEORGIAN LETTER PAR=0010DE;HANGUL CHOSEONG SIOS-NIEUN=00112E;HANGUL CHOSEONG NIEUN-SIOS=00115B" \o
      ";HANGUL JONGSEONG RIEUL-MIEUM-SIOS=0011D2;CHEROKEE LETTER TLI=0013DF;KHMER VOWEL SIGN UU=0017BC" \o
      ";MONGOLIAN LETTER JA=001835;SUNDANESE LETTER HA=001BA0;WHITE RIGHT POINTING INDEX=00261E" \o
      ";COPTIC SMALL LETTER OLD COPTIC OOU=002CBF;TIFINAGH LETTER YAK=002D3D" \o
      ";CIRCLED NUMBER THIRTY FOUR=00325E;HEXAGRAM FOR COMING TO MEET=004DEB" \o
      ";LATIN CAPITAL LETTER S WITH SHORT STROKE OVERLAY=00A7C9" \o
      ";ARABIC LIGATURE HEH WITH YEH ISOLATED FORM=00FC54" \o
      ";ARABIC LIGATURE SHEEN WITH HAH WITH YEH FINAL FORM=00FDAA;MEROITIC CURSIVE LETTER QA=0109B3" \o
      ";MANICHAEAN ABBREVIATION MARK BELOW=010AE6;DOGRA SIGN ANUSVARA=011837;BHAIKSUKI LETTER SA=011C2D" \o
      ";CUNEIFORM SIGN GA2 TIMES HI PLUS LI=0120D4;CUNEIFORM SIGN KA TIMES KID=012171" \o
      ";CUNEIFORM SIGN SAG TIMES HA=012299;CUNEIFORM SIGN SHA3 TIMES U=0122B5" \o
      ";BAMUM LETTER PHASE-D SHEUAE=016901;MRO LETTER A=016A46;MIAO LETTER REFORMED TONE-2=016F9B" \o
      ";KHITAN SMALL SCRIPT CHARACTER-18B49=018B49;KHITAN SMALL SCRIPT CHARACTER-18B58=018B58" \o
      ";KHITAN SMALL SCRIPT CHARACTER-18B67=018B67;KHITAN SMALL SCRIPT CHARACTER-18B76=018B76" \o
      ";KHITAN SMALL SCRIPT CHARACTER-18B85=018B85;KHITAN SMALL SCRIPT CHARACTER-18B94=018B94" \o
      ";KHITAN SMALL SCRIPT CHARACTER-18C39=018C39;KHITAN SMALL SCRIPT CHARACTER-18C48=018C48" \o
      ";KHITAN SMALL SCRIPT CHARACTER-18C57=018C57;KHITAN SMALL SCRIPT CHARACTER-18C66=018C66" \o
      ";KHITAN SMALL SCRIPT CHARACTER-18C75=018C75;KHITAN SMALL SCRIPT CHARACTER-18C84=018C84" \o
      ";KHITAN SMALL SCRIPT CHARACTER-18C93=018C93;DUPLOYAN LETTER S P=01BC34" \o
      ";DUPLOYAN LETTER U N=01BC54;MUSICAL SYMBOL REPEAT DOTS=01D108;TETRAGRAM FOR MIRED=01D308" \o
      ";MATHEMATICAL BOLD CAPITAL V=01D415;MATHEMATICAL ITALIC SMALL F=01D453" \o
      ";COMBINING GLAGOLITIC LETTER YESTU=01E005;OTTOMAN SIYAQ NUMBER TEN THOUSAND=01ED25" \o
      ";PLAYING CARD FOUR OF SPADES=01F0A4;UP-POINTING SMALL AIRPLANE=01F6E8" \o
      ";WHITE DIAMOND CONTAINING BLACK VERY SMALL DIAMOND=01F79A;MELTING FACE=01FAE0;VS105=0E0158" \o
      ";VS114=0E0161;VS123=0E016A;VS132=0E0173;VS141=0E017C;VS150=0E0185;VS204=0E01BB;VS213=0E01C4" \o
      ";VS222=0E01CD;VS231=0E01D6;VS240=0E01DF",
    ";ACUTE ACCENT=0000B4;LATIN SMALL LETTER BARRED O=000275;ARABIC VOWEL SIGN DOT BELOW=00065C" \o
      ";SYRIAC LETTER SADHE=000728;THAANA LETTER VAAVU=000788;GUJARATI LETTER PHA=000AAB" \o
      ";GUJARATI LETTER LLA=000AB3;ORIYA FRACTION ONE QUARTER=000B72;GEORGIAN LETTER QAR=0010E7" \o
      ";RUNIC LETTER OPEN-P=0016D5;MONGOLIAN LETTER KA=00183A;BUGINESE LETTER MPA=001A07;TRUE=0022A8" \o
      ";TOP TORTOISE SHELL BRACKET=0023E0;BLACK PARALLELOGRAM=0025B0" \o
      ";EIGHT TEARDROP-SPOKED PROPELLER ASTERISK=00274A;LOGICAL OR WITH MIDDLE STEM=002A5B" \o
      ";TIFINAGH LETTER YAL=002D4D;CJK STROKE P=0031D2;SQUARE K OHM=0033C0" \o
      ";LATIN CAPITAL LETTER F WITH STROKE=00A798;HANGUL JONGSEONG RIEUL-YEORINHIEUH-HIEUH=00D7DC" \o
      ";ARABIC LETTER ALEF WASLA FINAL FORM=00FB51;ARABIC LIGATURE ZAH WITH MEEM INITIAL FORM=00FCB9" \o
      ";ARABIC LIGATURE YEH WITH JEEM INITIAL FORM=00FCDA" \o
      ";ARABIC LIGATURE JEEM WITH MEEM WITH YEH FINAL FORM=00FDA5" \o
      ";ARABIC LIGATURE MEEM WITH JEEM WITH YEH FINAL FORM=00FDC0;UGARITIC LETTER AIN=010393" \o
      ";OSMANYA LETTER ALEF=010480;VITHKUQI CAPITAL LETTER XE=010592;MEROITIC CURSIVE LETTER NE=0109AA" \o
      ";MEROITIC CURSIVE LETTER RA=0109AB;KHOJKI SECTION MARK=01123B;WARANG CITI SMALL LETTER AM=0118D6" \o
      ";WARANG CITI NUMBER SEVENTY=0118F0;BHAIKSUKI LETTER TA=011C1D;BHAIKSUKI DIGIT SIX=011C56" \o
      ";CUNEIFORM SIGN BI TIMES GAR=01204B;CUNEIFORM SIGN EGIR=012095" \o
      ";CUNEIFORM SIGN KA TIMES IGI=01216D;CUNEIFORM SIGN SAL LAGAB TIMES ASH2=0122AA" \o
      ";CUNEIFORM SIGN KA TIMES UR2=012387;BAMUM LETTER PHASE-B PEESHI=016861" \o
      ";BAMUM LETTER PHASE-D LEUAEP=016917;KHITAN SMALL SCRIPT CHARACTER-18B59=018B59" \o
      ";KHITAN SMALL SCRIPT CHARACTER-18B68=018B68;KHITAN SMALL SCRIPT CHARACTER-18B77=018B77" \o
      ";KHITAN SMALL SCRIPT CHARACTER-18B86=018B86;KHITAN SMALL SCRIPT CHARACTER-18B95=018B95" \o
      ";KHITAN SMALL SCRIPT CHARACTER-18C49=018C49;KHITAN SMALL SCRIPT CHARACTER-18C58=018C58" \o
      ";KHITAN SMALL SCRIPT CHARACTER-18C67=018C67;KHITAN SMALL SCRIPT CHARACTER-18C76=018C76" \o
      ";KHITAN SMALL SCRIPT CHARACTER-18C85=018C85;KHITAN SMALL SCRIPT CHARACTER-18C94=018C94" \o
      ";MATHEMATICAL BOLD CAPITAL W=01D416;MATHEMATICAL ITALIC SMALL G=01D454" \o
      ";MATHEMATICAL SANS-SERIF DIGIT FIVE=01D7E7;MATHEMATICAL SANS-SERIF DIGIT NINE=01D7EB" \o
      ";LATIN SMALL LETTER TESH DIGRAPH WITH PALATAL HOOK=01DF17;MAHJONG TILE SIX OF CIRCLES=01F01E" \o
      ";VIDEO CAMERA=01F4F9;EAR WITH HEARING AID=01F9BB;LANGUAGE TAG=0E0001;VS106=0E0159;VS115=0E0162" \o
      ";VS124=0E016B;VS133=0E0174;VS142=0E017D;VS151=0E0186;VS160=0E018F;VS205=0E01BC;VS214=0E01C5" \o
      ";VS223=0E01CE;VS232=0E01D7;VS241=0E01E0;VS250=0E01E9",
    ";LATIN CAPITAL LETTER L WITH SMALL LETTER J=0001C8;LATIN CAPITAL LETTER G WITH STROKE=0001E4" \o
      ";LATIN SMALL LETTER DOTLESS J WITH STROKE AND HOOK=000284;GREEK SMALL LETTER UPSILON=0003C5" \o
      ";SYRIAC LETTER ALAPH=000710;THAANA LETTER WAAVU=0007A5;NKO LETTER I=0007CC" \o
      ";ARABIC TATWEEL WITH TWO DOTS BELOW=000885;TELUGU SIGN SIDDHAM=000C77" \o
      ";SINHALA LETTER ALPAPRAANA DDAYANNA=000DA9;HANGUL CHOSEONG SIOS-RIEUL=001130" \o
      ";CHEROKEE LETTER QUE=0013C7;CANADIAN SYLLABICS WOODS-CREE THWA=00167C;MONGOLIAN LETTER LA=00182F" \o
      ";SUNDANESE LETTER JA=001B8F;SUNDANESE CONSONANT SIGN PANYAKRA=001BA2" \o
      ";GREEK SMALL LETTER IOTA WITH PSILI=001F30;GREEK SMALL LETTER ETA WITH YPOGEGRAMMENI=001FC3" \o
      ";DRACHMA SIGN=0020AF;SMALL ROMAN NUMERAL TWELVE=00217B" \o
      ";RIGHTWARDS TRIANGLE-HEADED ARROW WITH DOUBLE HORIZONTAL STROKE=002B7C" \o
      ";TIFINAGH LETTER YAM=002D4E;CJK RADICAL LAME TWO=002E8F;CJK STROKE Q=0031E3" \o
      ";CIRCLED IDEOGRAPH QUESTION=003244;SQUARE CORPORATION=00337F;CYRILLIC SMALL LETTER DZZE=00A689" \o
      ";HANGUL CHOSEONG RIEUL-SIOS=00A96C;HANGUL JONGSEONG MIEUM-PIEUP-SIOS=00D7E1" \o
      ";ARABIC LIGATURE NOON WITH JEEM WITH HAH FINAL FORM=00FDBD;OSMANYA LETTER QAAF=01048E" \o
      ";OSMANYA DIGIT THREE=0104A3;MEROITIC CURSIVE LETTER SA=0109AF" \o
      ";INSCRIPTIONAL PARTHIAN NUMBER ONE=010B58;PSALTER PAHLAVI LETTER NUN=010B8C" \o
      ";SOGDIAN LETTER LESH=010F44;BHAIKSUKI LETTER AU=011C0D;TAMIL SIGN PATHAKKU=011FDB" \o
      ";CUNEIFORM SIGN APIN=012033;CUNEIFORM SIGN DISH=012079;CUNEIFORM SIGN KA TIMES GAR=012165" \o
      ";CUNEIFORM SIGN LU2 TIMES NE=01220C;CUNEIFORM SIGN SAG NUTILLU=012294;CUNEIFORM SIGN SHID=0122C3" \o
      ";CUNEIFORM SIGN UR2 TIMES AL=01232E;BAMUM LETTER PHASE-A NGANGU=01680D" \o
      ";BAMUM LETTER PHASE-A MBANYI=016848;BAMUM LETTER PHASE-E NSHIEE=01697C" \o
      ";PAHAWH HMONG CLAN SIGN TSWB=016B8D;MEDEFAIDRIN NUMBER SIXTEEN=016E90" \o
      ";MIAO LETTER REFORMED TONE-4=016F9C;KHITAN SMALL SCRIPT CHARACTER-18B69=018B69" \o
      ";KHITAN SMALL SCRIPT CHARACTER-18B78=018B78;KHITAN SMALL SCRIPT CHARACTER-18B87=018B87" \o
      ";KHITAN SMALL SCRIPT CHARACTER-18B96=018B96;KHITAN SMALL SCRIPT CHARACTER-18C59=018C59" \o
      ";KHITAN SMALL SCRIPT CHARACTER-18C68=018C68;KHITAN SMALL SCRIPT CHARACTER-18C77=018C77" \o
      ";KHITAN SMALL SCRIPT CHARACTER-18C86=018C86;KHITAN SMALL SCRIPT CHARACTER-18C95=018C95" \o
      ";DUPLOYAN LETTER R S=01BC10;ZNAMENNY COMBINING MARK PODVERTKA=01CF26" \o
      ";MATHEMATICAL BOLD CAPITAL X=01D417;SIGNWRITING MOVEMENT-WALLPLANE BOX LARGE=01D944" \o
      ";LATIN SMALL LETTER T WITH HOOK AND RETROFLEX HOOK=01DF09;OUTBOX TRAY=01F4E4" \o
      ";TWISTED RIGHTWARDS ARROWS=01F500;MEDIUM SIX SPOKED ASTERISK=01F7B6" \o
      ";NEUTRAL CHESS TURNED QUEEN=01FA2B;SEGMENTED DIGIT SIX=01FBF6;VS107=0E015A;VS116=0E0163" \o
      ";VS125=0E016C;VS134=0E0175;VS143=0E017E;VS152=0E0187;VS161=0E0190;VS170=0E0199;VS206=0E01BD" \o
      ";VS215=0E01C6;VS224=0E01CF;VS233=0E01D8;VS242=0E01E1;VS251=0E01EA",
    ";LATIN CAPITAL LETTER H WITH STROKE=000126;CYRILLIC SMALL LETTER ER WITH TICK=00048F" \o
      ";CYRILLIC SMALL LETTER EL WITH HOOK=000513;HEBREW LETTER TSADI=0005E6" \o
      ";MALAYALAM FRACTION ONE HALF=000D74;TIBETAN MARK CARET -DZUD RTAGS BZHI MIG CAN=000F36" \o
      ";ETHIOPIC DIGIT FOUR=00136C;CHEROKEE LETTER TSE=0013E4;MONGOLIAN TODO SOFT HYPHEN=001806" \o
      ";MONGOLIAN LETTER MA=00182E;SUNDANESE LETTER KA=001B8A;MODIFIER LETTER CAPITAL REVERSED E=001D32" \o
      ";MODIFIER LETTER SMALL U BAR=001DB6;ROMAN NUMERAL EIGHT=002167;VERY MUCH LESS-THAN=0022D8" \o
      ";NOT NORMAL SUBGROUP OF OR EQUAL TO=0022EC;RIGHT TRIANGLE ABOVE LEFT TRIANGLE=0029CE" \o
      ";INTERSECTION BESIDE AND JOINED WITH INTERSECTION=002A4B;DOWN TACK WITH CIRCLE BELOW=002AF1" \o
      ";TIFINAGH LETTER YAN=002D4F;HANGUL DOUBLE DOT TONE MARK=00302F;HANGUL LETTER HIEUH=00314E" \o
      ";SQUARE M OHM=0033C1;CYRILLIC SMALL LETTER ZHWE=00A685;HEBREW LETTER BET WITH RAFE=00FB4C" \o
      ";ARABIC LIGATURE QAF WITH YEH ISOLATED FORM=00FC36" \o
      ";ARABIC LIGATURE AIN WITH YEH ISOLATED FORM=00FCF8" \o
      ";ARABIC LIGATURE SAD WITH YEH ISOLATED FORM=00FD06" \o
      ";ARABIC LIGATURE SEEN WITH KHAH WITH YEH FINAL FORM=00FDC6;SHAVIAN LETTER MIME=010465" \o
      ";OSMANYA LETTER DEEL=010486;VITHKUQI CAPITAL LETTER ZE=010595" \o
      ";MODIFIER LETTER SMALL DEZH DIGRAPH=01078A;MEROITIC CURSIVE LETTER TA=0109B4" \o
      ";TIRHUTA LETTER DDHA=01149C;BHAIKSUKI LETTER VA=011C2A;CUNEIFORM SIGN LU2 TIMES KI=012208" \o
      ";CUNEIFORM SIGN MASH=012226;CUNEIFORM SIGN NAM NUTILLU=012245;CUNEIFORM SIGN TAG TIMES BI=0122F4" \o
      ";BAMUM LETTER PHASE-D MGBEUN=01691A;MIAO LETTER REFORMED TONE-5=016F9D" \o
      ";KHITAN SMALL SCRIPT CHARACTER-18B79=018B79;KHITAN SMALL SCRIPT CHARACTER-18B88=018B88" \o
      ";KHITAN SMALL SCRIPT CHARACTER-18B97=018B97;KHITAN SMALL SCRIPT CHARACTER-18C69=018C69" \o
      ";KHITAN SMALL SCRIPT CHARACTER-18C78=018C78;KHITAN SMALL SCRIPT CHARACTER-18C87=018C87" \o
      ";KHITAN SMALL SCRIPT CHARACTER-18C96=018C96;DUPLOYAN LETTER S S=01BC2A" \o
      ";BYZANTINE MUSICAL SYMBOL GORGOSYNTHETON=01D072;MUSICAL SYMBOL MOON NOTEHEAD BLACK=01D153" \o
      ";MAYAN NUMERAL THREE=01D2E3;MATHEMATICAL BOLD CAPITAL Y=01D418" \o
      ";MATHEMATICAL ITALIC SMALL I=01D456" \o
      ";SIGNWRITING MOVEMENT-WALLPLANE ARM CIRCLE MEDIUM SINGLE=01D9E4;NEGATIVE SQUARED WC=01F18F" \o
      ";VS108=0E015B;VS117=0E0164;VS126=0E016D;VS135=0E0176;VS144=0E017F;VS153=0E0188;VS162=0E0191" \o
      ";VS171=0E019A;VS180=0E01A3;VS207=0E01BE;VS216=0E01C7;VS225=0E01D0;VS234=0E01D9;VS243=0E01E2" \o
      ";VS252=0E01EB",
    ";GRAVE ACCENT=000060;LATIN CAPITAL LETTER I WITH STROKE=000197" \o
      ";LATIN CAPITAL LETTER N WITH SMALL LETTER J=0001CB;GREEK LETTER STIGMA=0003DA" \o
      ";ARABIC LEFT ARROWHEAD BELOW=0008F9;GURMUKHI SIGN BINDI=000A02;GUJARATI LETTER SHA=000AB6" \o
      ";TELUGU VOWEL SIGN O=000C4A;SINHALA LETTER MAHAAPRAANA PAYANNA=000DB5" \o
      ";LAO LETTER PALI DDHA=000E92;GEORGIAN LETTER TAR=0010E2;GEORGIAN LETTER XAN=0010EE" \o
      ";HANGUL CHOSEONG PIEUP-SIOS=001121;HANGUL CHOSEONG SIOS-PIEUP=001132;HANGUL JUNGSEONG EO=001165" \o
      ";HANGUL JUNGSEONG OE=00116C;MONGOLIAN LETTER NA=001828;BUGINESE LETTER NRA=001A0B" \o
      ";SUNDANESE LETTER LA=001B9C;BATAK LETTER KARO BA=001BC6" \o
      ";OL CHIKI PUNCTUATION DOUBLE MUCAAD=001C7F;IMAGE OF OR APPROXIMATELY EQUAL TO=002253" \o
      ";LOWER THREE QUARTERS BLOCK=002586;RIGHTWARDS ARROW WITH DOTTED STEM=002911;CJK STROKE S=0031D1" \o
      ";CYRILLIC SMALL LETTER TSSE=00A691;MYANMAR TAI LAING DIGIT SIX=00A9F6" \o
      ";ARABIC LIGATURE YEH WITH MEEM INITIAL FORM=00FCDD" \o
      ";ARABIC LIGATURE YEH WITH MEEM WITH MEEM FINAL FORM=00FD9C" \o
      ";ARABIC LIGATURE MEEM WITH MEEM WITH YEH FINAL FORM=00FDB1" \o
      ";COMBINING CYRILLIC TITLO LEFT HALF=00FE2E;CENTRELINE LOW LINE=00FE4E;ROMAN SEMUNCIA SIGN=010192" \o
      ";COPTIC EPACT NUMBER TWENTY=0102EB;PSALTER PAHLAVI NUMBER TWO=010BAA;TIRHUTA DIGIT EIGHT=0114D8" \o
      ";TAKRI VOWEL SIGN UU=0116B1;PAU CIN HAU LETTER U=011AD9;MASARAM GONDI VOWEL SIGN II=011D33" \o
      ";GUNJALA GONDI VOWEL SIGN II=011D8C;CUNEIFORM SIGN EREN=01209E" \o
      ";CUNEIFORM SIGN KA TIMES AD PLUS KU3=01215A;CUNEIFORM SIGN KA TIMES SHA=012180" \o
      ";CUNEIFORM SIGN LU TIMES BAD=0121FC;CUNEIFORM SIGN NUN LAGAR TIMES USH=012268" \o
      ";CUNEIFORM SIGN DUG TIMES GA=012493;BAMUM LETTER PHASE-A TEUAEN=01684A" \o
      ";BAMUM LETTER PHASE-C KPARAQ=0168A8;BAMUM LETTER PHASE-C MBANYI=0168DF;MRO LETTER E=016A58" \o
      ";PAHAWH HMONG SIGN VOS THIAB=016B3A;MIAO LETTER REFORMED TONE-6=016F9E" \o
      ";KHITAN SMALL SCRIPT CHARACTER-18B0A=018B0A;KHITAN SMALL SCRIPT CHARACTER-18B89=018B89" \o
      ";KHITAN SMALL SCRIPT CHARACTER-18B98=018B98;KHITAN SMALL SCRIPT CHARACTER-18BA0=018BA0" \o
      ";KHITAN SMALL SCRIPT CHARACTER-18C79=018C79;KHITAN SMALL SCRIPT CHARACTER-18C88=018C88" \o
      ";KHITAN SMALL SCRIPT CHARACTER-18C97=018C97;DUPLOYAN LETTER S T=01BC32" \o
      ";DUPLOYAN LETTER T S=01BC36;BYZANTINE MUSICAL SYMBOL CHAMILON=01D018" \o
      ";BYZANTINE MUSICAL SYMBOL KATAVA TROMIKON=01D037;MUSICAL SYMBOL DECRESCENDO=01D193" \o
      ";TETRAGRAM FOR VASTNESS OR WASTING=01D337;MATHEMATICAL BOLD CAPITAL Z=01D419" \o
      ";MATHEMATICAL ITALIC SMALL J=01D457;MATHEMATICAL SANS-SERIF BOLD CAPITAL LAMDA=01D760" \o
      ";SIGNWRITING DYNAMIC SIMULTANEOUS=01D9FB;LATIN LETTER STRETCHED C WITH CURL=01DF0F" \o
      ";NYIAKENG PUACHUE HMONG DIGIT THREE=01E143;OTTOMAN SIYAQ NUMBER EIGHT=01ED08;HAMSTER FACE=01F439" \o
      ";FACE WITH OPEN MOUTH AND COLD SWEAT=01F630;UPWARDS ARROW WITH EQUILATERAL ARROWHEAD=01F815" \o
      ";NEUTRAL CHESS KING ROTATED NINETY DEGREES=01FA15;VS109=0E015C;VS118=0E0165;VS127=0E016E" \o
      ";VS136=0E0177;VS145=0E0180;VS154=0E0189;VS163=0E0192;VS172=0E019B;VS181=0E01A4;VS190=0E01AD" \o
      ";VS208=0E01BF;VS217=0E01C8;VS226=0E01D1;VS235=0E01DA;VS244=0E01E3;VS253=0E01EC",
    ";LATIN CAPITAL LETTER J WITH STROKE=000248;LATIN SMALL LETTER SCHWA WITH HOOK=00025A" \o
      ";CYRILLIC SMALL LETTER EN WITH HOOK=0004C8;ARABIC LETTER ALEF WITH HAMZA ABOVE=000623" \o
      ";GUJARATI LETTER NNA=000AA3;GUJARATI LETTER THA=000AA5;GUJARATI DIGIT FOUR=000AEA" \o
      ";HANGUL CHOSEONG SSANGHIEUH=001158;KHMER CURRENCY SYMBOL RIEL=0017DB;SUNDANESE LETTER MA=001B99" \o
      ";GREEK SMALL LETTER ALPHA WITH PERISPOMENI=001FB6;DIGIT TWO FULL STOP=002489;TINY=0029FE" \o
      ";PRECEDES ABOVE NOT EQUAL TO=002AB5;TIFINAGH LETTER YAP=002D52;CJK STROKE T=0031C0" \o
      ";ARABIC LIGATURE LAM WITH YEH ISOLATED FORM=00FC44" \o
      ";ARABIC LIGATURE NOON WITH HAH INITIAL FORM=00FCD3;HALFWIDTH HANGUL LETTER SSANGSIOS=00FFB6" \o
      ";SHAVIAN LETTER PEEP=010450;OSMANYA LETTER LAAN=010490;BRAHMI VOWEL SIGN VOCALIC R=01103E" \o
      ";WARANG CITI SMALL LETTER II=0118C6;SOYOMBO CLUSTER-INITIAL LETTER RA=011A86" \o
      ";CUNEIFORM SIGN GISH=012111;CUNEIFORM SIGN LU2 TIMES IM=012204" \o
      ";CUNEIFORM SIGN SHID TIMES A=0122C4;CUNEIFORM SIGN SHIM TIMES IGI GUNU=0122CD" \o
      ";CUNEIFORM SIGN GA2 TIMES AN PLUS KAK PLUS A=012379;CUNEIFORM NUMERIC SIGN THREE SHAR2=012424" \o
      ";CUNEIFORM SIGN DUG TIMES HA=012497;CUNEIFORM SIGN E2 TIMES KUR=0124A9" \o
      ";BAMUM LETTER PHASE-A MAENYI=016832;KHITAN SMALL SCRIPT CHARACTER-18B0B=018B0B" \o
      ";KHITAN SMALL SCRIPT CHARACTER-18B1A=018B1A;KHITAN SMALL SCRIPT CHARACTER-18B99=018B99" \o
      ";KHITAN SMALL SCRIPT CHARACTER-18BA1=018BA1;KHITAN SMALL SCRIPT CHARACTER-18BB0=018BB0" \o
      ";KHITAN SMALL SCRIPT CHARACTER-18C0A=018C0A;KHITAN SMALL SCRIPT CHARACTER-18C89=018C89" \o
      ";KHITAN SMALL SCRIPT CHARACTER-18C98=018C98;KHITAN SMALL SCRIPT CHARACTER-18CA0=018CA0" \o
      ";MATHEMATICAL ITALIC SMALL K=01D458;SIGNWRITING HAND-FIST LITTLE DOWN OTHERS CIRCLED=01D891" \o
      ";LATIN SMALL LETTER L WITH FISHHOOK=01DF11;INDIC SIYAQ NUMBER ALTERNATE TEN THOUSAND=01ECB3" \o
      ";MAHJONG TILE TWO OF BAMBOOS=01F011;CHART WITH DOWNWARDS TREND=01F4C9" \o
      ";PUBLIC ADDRESS LOUDSPEAKER=01F4E2" \o
      ";HEAVY RIGHTWARDS ARROW WITH LARGE EQUILATERAL ARROWHEAD=01F81E;IDENTIFICATION CARD=01FAAA" \o
      ";VS119=0E0166;VS128=0E016F;VS137=0E0178;VS146=0E0181;VS155=0E018A;VS164=0E0193;VS173=0E019C" \o
      ";VS182=0E01A5;VS191=0E01AE;VS209=0E01C0;VS218=0E01C9;VS227=0E01D2;VS236=0E01DB;VS245=0E01E4" \o
      ";VS254=0E01ED",
    ";ARMENIAN CAPITAL LETTER CHA=000549;GURMUKHI LETTER DDA=000A21" \o
      ";TELUGU FRACTION DIGIT ONE FOR EVEN POWERS OF FOUR=000C7C;TIBETAN MARK CHE MGO=000F38" \o
      ";HANGUL JONGSEONG RIEUL-PIEUP-SIOS=0011D3;ETHIOPIC NUMBER TEN=001372;CHEROKEE LETTER QUI=0013C8" \o
      ";CHEROKEE LETTER TLO=0013E0;OGHAM LETTER STRAIF=00168E;MONGOLIAN LETTER PA=00182B" \o
      ";SUNDANESE LETTER NA=001B94;OL CHIKI DIGIT EIGHT=001C58;VULGAR FRACTION TWO FIFTHS=002156" \o
      ";NORTH WEST ARROW TO CORNER=0021F1;BOX DRAWINGS LIGHT DOUBLE DASH HORIZONTAL=00254C" \o
      ";ARROW POINTING DOWNWARDS THEN CURVING LEFTWARDS=002936;DOTTED FENCE=002999" \o
      ";TIFINAGH LETTER YAQ=002D47;RAISED COMMA=002E34;CJK RADICAL SIMPLIFIED HORN=002EC6" \o
      ";LATIN CAPITAL LETTER K WITH STROKE=00A740;KAYAH LI DIGIT EIGHT=00A908" \o
      ";JAVANESE LETTER NYA=00A99A;MEETEI MAYEK VOWEL SIGN AAU=00AAEF" \o
      ";ARABIC LIGATURE YEH WITH HAMZA ABOVE WITH ALEF MAKSURA FINAL FORM=00FC68" \o
      ";AEGEAN NUMBER EIGHT HUNDRED=010120;PHAISTOS DISC SIGN ROSETTE=0101F5" \o
      ";MEROITIC CURSIVE LETTER WA=0109A5;MEROITIC CURSIVE LETTER SE=0109B1" \o
      ";MEROITIC CURSIVE FRACTION SEVEN TWELFTHS=0109FC;INSCRIPTIONAL PARTHIAN LETTER MEM=010B4C" \o
      ";ELYMAIC LETTER AYIN=010FEF;CHAKMA VOWEL SIGN AA=011145;SOYOMBO CLUSTER-INITIAL LETTER SA=011A89" \o
      ";BHAIKSUKI LETTER YA=011C27;CUNEIFORM SIGN EZEN TIMES IGI GUNU=0120AB" \o
      ";BAMUM LETTER PHASE-C KEUKAQ=0168A1;MIAO LETTER REFORMED TONE-8=016F9F" \o
      ";KHITAN SMALL SCRIPT CHARACTER-18B0C=018B0C;KHITAN SMALL SCRIPT CHARACTER-18B1B=018B1B" \o
      ";KHITAN SMALL SCRIPT CHARACTER-18B2A=018B2A;KHITAN SMALL SCRIPT CHARACTER-18BA2=018BA2" \o
      ";KHITAN SMALL SCRIPT CHARACTER-18BB1=018BB1;KHITAN SMALL SCRIPT CHARACTER-18BC0=018BC0" \o
      ";KHITAN SMALL SCRIPT CHARACTER-18C0B=018C0B;KHITAN SMALL SCRIPT CHARACTER-18C1A=018C1A" \o
      ";KHITAN SMALL SCRIPT CHARACTER-18C99=018C99;KHITAN SMALL SCRIPT CHARACTER-18CA1=018CA1" \o
      ";KHITAN SMALL SCRIPT CHARACTER-18CB0=018CB0;DUPLOYAN LETTER W R=01BC3A" \o
      ";BYZANTINE MUSICAL SYMBOL EXO EKFONITIKON=01D00E;TETRAGRAM FOR WATCH=01D344" \o
      ";MATHEMATICAL ITALIC SMALL L=01D459;MATHEMATICAL BOLD SMALL PHI=01D6D7" \o
      ";SIGNWRITING HAND-CIRCLE INDEX RING LITTLE=01D8BB" \o
      ";SIGNWRITING MOVEMENT-WALLPLANE WAVE DIAGONAL PATH SMALL=01D9B4" \o
      ";SIGNWRITING FLOORPLANE SHOULDER HIP MOVE=01DA70;INDIC SIYAQ NUMBER SEVENTY=01EC80" \o
      ";MAHJONG TILE SPRING=01F026;FISH CAKE WITH SWIRL DESIGN=01F365" \o
      ";WHITE DOWN POINTING BACKHAND INDEX=01F447;SILHOUETTE OF JAPAN=01F5FE;BELLHOP BELL=01F6CE" \o
      ";WHITE CIRCLE CONTAINING BLACK SMALL CIRCLE=01F78A" \o
      ";WHITE CHESS BISHOP ROTATED NINETY DEGREES=01FA0C" \o
      ";WHITE CHESS KNIGHT ROTATED NINETY DEGREES=01FA0D;WORM=01FAB1;VS129=0E0170;VS138=0E0179" \o
      ";VS147=0E0182;VS156=0E018B;VS165=0E0194;VS174=0E019D;VS183=0E01A6;VS192=0E01AF;VS219=0E01CA" \o
      ";VS228=0E01D3;VS237=0E01DC;VS246=0E01E5;VS255=0E01EE",
    ";LATIN CAPITAL LETTER L WITH STROKE=000141;NKO LETTER N=0007D2;MYANMAR SIGN VIRAMA=001039" \o
      ";HANGUL CHOSEONG PIEUP-SIOS-TIKEUT=001123;CHEROKEE LETTER TSI=0013E5;MONGOLIAN LETTER QA=00182C" \o
      ";LEFT CEILING=002308;MEDIUM SHADE=002592;NORTH WEST ARROW WITH HOOK=002923" \o
      ";CIRCLE WITH SUPERIMPOSED X=0029BB;COPTIC CAPITAL LETTER DALDA=002C86;TIFINAGH LETTER YAR=002D54" \o
      ";CIRCLED NUMBER TWENTY FOUR=003254;SYLOTI NAGRI SIGN DVISVARA=00A802;JAVANESE LETTER TTA=00A99B" \o
      ";FULLWIDTH DIGIT ONE=00FF11;GOTHIC LETTER OTHAL=010349;DESERET SMALL LETTER LONG A=01042A" \o
      ";MEROITIC HIEROGLYPHIC SYMBOL VIDJ=01099E;MEROITIC CURSIVE LETTER TE=0109B5" \o
      ";KHAROSHTHI LETTER A=010A00;MANICHAEAN PUNCTUATION DOT=010AF4" \o
      ";INSCRIPTIONAL PARTHIAN NUMBER TEN=010B5C;INSCRIPTIONAL PAHLAVI LETTER SHIN=010B71" \o
      ";YEZIDI COMBINING MADDA MARK=010EAC;SOGDIAN LETTER AYIN=010F3D;ELYMAIC LETTER RESH=010FF3" \o
      ";ELYMAIC LETTER SHIN=010FF4;GRANTHA LETTER TTHA=011320;BHAIKSUKI DIGIT TWO=011C52" \o
      ";CUNEIFORM SIGN IMIN=012153;CUNEIFORM SIGN MESH=01238C;CUNEIFORM NUMERIC SIGN SEVEN GESH2=01241B" \o
      ";CUNEIFORM SIGN BU OVER BU TIMES NA2=012487;BAMUM LETTER PHASE-B MBEURI=01687E" \o
      ";BAMUM LETTER PHASE-D TEUAEN=016923;KHITAN SMALL SCRIPT CHARACTER-18B0D=018B0D" \o
      ";KHITAN SMALL SCRIPT CHARACTER-18B1C=018B1C;KHITAN SMALL SCRIPT CHARACTER-18B2B=018B2B" \o
      ";KHITAN SMALL SCRIPT CHARACTER-18B3A=018B3A;KHITAN SMALL SCRIPT CHARACTER-18BA3=018BA3" \o
      ";KHITAN SMALL SCRIPT CHARACTER-18BB2=018BB2;KHITAN SMALL SCRIPT CHARACTER-18BC1=018BC1" \o
      ";KHITAN SMALL SCRIPT CHARACTER-18BD0=018BD0;KHITAN SMALL SCRIPT CHARACTER-18C0C=018C0C" \o
      ";KHITAN SMALL SCRIPT CHARACTER-18C1B=018C1B;KHITAN SMALL SCRIPT CHARACTER-18C2A=018C2A" \o
      ";KHITAN SMALL SCRIPT CHARACTER-18CA2=018CA2;KHITAN SMALL SCRIPT CHARACTER-18CB1=018CB1" \o
      ";KHITAN SMALL SCRIPT CHARACTER-18CC0=018CC0;DUPLOYAN LETTER ROMANIAN U=01BC56" \o
      ";MUSICAL SYMBOL DAMP=01D1B4;MATHEMATICAL ITALIC SMALL M=01D45A" \o
      ";SIGNWRITING HAND-OVAL FIVE FINGERS SPREAD=01D856;SIGNWRITING EYES WIDE OPEN=01DA1A" \o
      ";MAHJONG TILE TWO OF CIRCLES=01F01A;PLAYING CARD FOUR OF HEARTS=01F0B4;SNOWBOARDER=01F3C2" \o
      ";WINKING FACE=01F609;UPPER THREE QUARTERS BLOCK=01FB85" \o
      ";BOX DRAWINGS LIGHT DIAGONAL UPPER CENTRE TO MIDDLE RIGHT TO LOWER CENTRE TO MIDDLE LEFT=01FBAA" \o
      ";BOX DRAWINGS LIGHT DIAGONAL UPPER CENTRE TO MIDDLE LEFT TO LOWER CENTRE TO MIDDLE RIGHT=01FBAB" \o
      ";BOX DRAWINGS LIGHT DIAGONAL MIDDLE LEFT TO UPPER CENTRE TO MIDDLE RIGHT TO LOWER CENTRE=01FBAC" \o
      ";BOX DRAWINGS LIGHT DIAGONAL MIDDLE RIGHT TO UPPER CENTRE TO MIDDLE LEFT TO LOWER CENTRE=01FBAD" \o
      ";VS139=0E017A;VS148=0E0183;VS157=0E018C;VS166=0E0195;VS175=0E019E;VS184=0E01A7;VS193=0E01B0" \o
      ";VS229=0E01D4;VS238=0E01DD;VS247=0E01E6;VS256=0E01EF",
    ";LINE TABULATION SET=00008A;LATIN CAPITAL LETTER OPEN O=000186" \o
      ";ARABIC LETTER TEH WITH THREE DOTS ABOVE DOWNWARDS=00067D;NKO LETTER O=0007D0" \o
      ";SAMARITAN LETTER IN=00080F;ARABIC LETTER REH WITH LOOP=0008AA;GURMUKHI LETTER BHA=000A2D" \o
      ";GURMUKHI DIGIT FIVE=000A6B;GURMUKHI DIGIT NINE=000A6F;SINHALA LETTER MAHAAPRAANA TAYANNA=000DAE" \o
      ";TIBETAN LETTER TSHA=000F5A;MYANMAR DIGIT SEVEN=001047;HANGUL JUNGSEONG WA=00116A" \o
      ";KHMER VOWEL SIGN YY=0017BA;MONGOLIAN LETTER RA=001837" \o
      ";MONGOLIAN LETTER MANCHU ALI GALI CA=00189C;SUNDANESE LETTER PA=001B95" \o
      ";GREEK SMALL LETTER OMEGA WITH PERISPOMENI=001FF6;NON-BREAKING HYPHEN=002011" \o
      ";INHIBIT ARABIC FORM SHAPING=00206C;METRICAL TWO SHORTS JOINED=0023D6" \o
      ";LEFTWARDS ARROW THROUGH LESS-THAN=002977;BLACK BOWTIE=0029D3;ZEUS=002BE2" \o
      ";TIFINAGH LETTER YAS=002D59;BOPOMOFO LETTER ANG=003124;HANGUL LETTER IEUNG=003147" \o
      ";SQUARE KIROMEETORU=003316;CYRILLIC SMALL LETTER TSWE=00A68F;BAMUM LETTER KOGHOM=00A6EF" \o
      ";SYLOTI NAGRI SIGN ANUSVARA=00A80B;LATIN SMALL LETTER CHI WITH LOW LEFT SERIF=00AB55" \o
      ";ARABIC LETTER YEH BARREE FINAL FORM=00FBAF;ARABIC LIGATURE TAH WITH YEH ISOLATED FORM=00FCF6" \o
      ";GOTHIC LETTER WINJA=010345;UGARITIC LETTER MEM=01038E;NABATAEAN LETTER FINAL SHIN=01089C" \o
      ";MEROITIC CURSIVE LETTER YA=0109A4;YEZIDI LETTER CHHIM=010E88;SOGDIAN LETTER SHIN=010F41" \o
      ";SHARADA DOUBLE DANDA=0111C6;WARANG CITI SMALL LETTER AT=0118D5" \o
      ";MASARAM GONDI VOWEL SIGN AU=011D3F;GUNJALA GONDI VOWEL SIGN AU=011D94" \o
      ";CUNEIFORM SIGN KA TIMES SHE=012181;CUNEIFORM SIGN SHEN=0122BF" \o
      ";CUNEIFORM SIGN KA TIMES GUD=012381;BAMUM LETTER PHASE-D NGKYEE=016913" \o
      ";KHITAN SMALL SCRIPT CHARACTER-18B0E=018B0E;KHITAN SMALL SCRIPT CHARACTER-18B1D=018B1D" \o
      ";KHITAN SMALL SCRIPT CHARACTER-18B2C=018B2C;KHITAN SMALL SCRIPT CHARACTER-18B3B=018B3B" \o
      ";KHITAN SMALL SCRIPT CHARACTER-18B4A=018B4A;KHITAN SMALL SCRIPT CHARACTER-18BA4=018BA4" \o
      ";KHITAN SMALL SCRIPT CHARACTER-18BB3=018BB3;KHITAN SMALL SCRIPT CHARACTER-18BC2=018BC2" \o
      ";KHITAN SMALL SCRIPT CHARACTER-18BD1=018BD1;KHITAN SMALL SCRIPT CHARACTER-18BE0=018BE0" \o
      ";KHITAN SMALL SCRIPT CHARACTER-18C0D=018C0D;KHITAN SMALL SCRIPT CHARACTER-18C1C=018C1C" \o
      ";KHITAN SMALL SCRIPT CHARACTER-18C2B=018C2B;KHITAN SMALL SCRIPT CHARACTER-18C3A=018C3A" \o
      ";KHITAN SMALL SCRIPT CHARACTER-18CA3=018CA3;KHITAN SMALL SCRIPT CHARACTER-18CB2=018CB2" \o
      ";KHITAN SMALL SCRIPT CHARACTER-18CC1=018CC1;KHITAN SMALL SCRIPT CHARACTER-18CD0=018CD0" \o
      ";BYZANTINE MUSICAL SYMBOL APOTHEMA=01D023;MUSICAL SYMBOL THIRTY-SECOND NOTE=01D162" \o
      ";MATHEMATICAL ITALIC SMALL N=01D45B;MATHEMATICAL SANS-SERIF BOLD CAPITAL GAMMA=01D758" \o
      ";SIGNWRITING MOVEMENT-WALLPLANE SINGLE STRAIGHT LARGEST=01D92D;TOKYO TOWER=01F5FC" \o
      ";KISSING FACE=01F617;LEFT LUGGAGE=01F6C5;SEGMENTED DIGIT TWO=01FBF2;VS149=0E0184;VS158=0E018D" \o
      ";VS167=0E0196;VS176=0E019F;VS185=0E01A8;VS194=0E01B1;VS239=0E01DE;VS248=0E01E7",
    ";ARABIC SMALL HIGH WORD ATH-THALATHA=0008DA;GURMUKHI LETTER CHA=000A1B" \o
      ";GUJARATI DIGIT ZERO=000AE6;TIBETAN MARK DELIMITER TSHEG BSTAR=000F0C;TIBETAN LETTER TTHA=000F4B" \o
      ";TIBETAN SUBJOINED LETTER -A=000FB0;GEORGIAN CAPITAL LETTER HAE=0010C0" \o
      ";HANGUL JONGSEONG YESIEUNG-KHIEUKH=0011EF;CANADIAN SYLLABICS WEST-CREE SHWII=00151C" \o
      ";MONGOLIAN LETTER OE=001825;MONGOLIAN LETTER SA=001830;SUNDANESE LETTER QA=001B8B" \o
      ";VEDIC TONE KATHAKA ANUDATTA=001CDC;LATIN SMALL LETTER SIDEWAYS DIAERESIZED U=001D1E" \o
      ";COUNTERBORE=002334;POWER ON-OFF SYMBOL=0023FC;WHITE SQUARE WITH VERTICAL BISECTING LINE=0025EB" \o
      ";UPWARDS HARPOON WITH BARB LEFT BESIDE DOWNWARDS HARPOON WITH BARB RIGHT=00296E" \o
      ";DOWNWARDS HARPOON WITH BARB LEFT BESIDE UPWARDS HARPOON WITH BARB RIGHT=00296F" \o
      ";RIGHT BLACK TORTOISE SHELL BRACKET=002998;SUCCEEDS ABOVE NOT EQUAL TO=002AB6" \o
      ";TIFINAGH LETTER YAT=002D5C;HANGUL LETTER YU-YE=00318B;PARENTHESIZED HANGUL HIEUH=00320D" \o
      ";SQUARE EEKAA=003308;CHAM LETTER FINAL NG=00AA42;ARABIC LETTER HEH GOAL INITIAL FORM=00FBA8" \o
      ";ARABIC LIGATURE NOON WITH HEH INITIAL FORM=00FCD6;HALFWIDTH KATAKANA LETTER SMALL YO=00FF6E" \o
      ";HALFWIDTH KATAKANA LETTER A=00FF71;GREEK METRETES SIGN=010181" \o
      ";INSCRIPTIONAL PAHLAVI LETTER YODH=010B69;ELYMAIC LETTER YODH=010FE9" \o
      ";CUNEIFORM SIGN AL TIMES SHE=012027;CUNEIFORM SIGN HI TIMES ASH=01212E" \o
      ";CUNEIFORM SIGN KISH=0121A7;CUNEIFORM SIGN ZIZ2=012369;BAMUM LETTER PHASE-C NDOMBU=01689D" \o
      ";BAMUM LETTER PHASE-D SEUAEQ=01690C;BAMUM LETTER PHASE-D NSIEEP=01691F" \o
      ";BAMUM LETTER PHASE-D PEUTAE=01692E;KHITAN SMALL SCRIPT CHARACTER-18B0F=018B0F" \o
      ";KHITAN SMALL SCRIPT CHARACTER-18B1E=018B1E;KHITAN SMALL SCRIPT CHARACTER-18B2D=018B2D" \o
      ";KHITAN SMALL SCRIPT CHARACTER-18B3C=018B3C;KHITAN SMALL SCRIPT CHARACTER-18B4B=018B4B" \o
      ";KHITAN SMALL SCRIPT CHARACTER-18B5A=018B5A;KHITAN SMALL SCRIPT CHARACTER-18BA5=018BA5" \o
      ";KHITAN SMALL SCRIPT CHARACTER-18BB4=018BB4;KHITAN SMALL SCRIPT CHARACTER-18BC3=018BC3" \o
      ";KHITAN SMALL SCRIPT CHARACTER-18BD2=018BD2;KHITAN SMALL SCRIPT CHARACTER-18BE1=018BE1" \o
      ";KHITAN SMALL SCRIPT CHARACTER-18BF0=018BF0;KHITAN SMALL SCRIPT CHARACTER-18C0E=018C0E" \o
      ";KHITAN SMALL SCRIPT CHARACTER-18C1D=018C1D;KHITAN SMALL SCRIPT CHARACTER-18C2C=018C2C" \o
      ";KHITAN SMALL SCRIPT CHARACTER-18C3B=018C3B;KHITAN SMALL SCRIPT CHARACTER-18C4A=018C4A" \o
      ";KHITAN SMALL SCRIPT CHARACTER-18CA4=018CA4;KHITAN SMALL SCRIPT CHARACTER-18CB3=018CB3" \o
      ";KHITAN SMALL SCRIPT CHARACTER-18CC2=018CC2;KHITAN SMALL SCRIPT CHARACTER-18CD1=018CD1" \o
      ";SHORTHAND FORMAT DOWN STEP=01BCA2;ZNAMENNY NEUME DUDA=01CFC1" \o
      ";MUSICAL SYMBOL TRIANGLE NOTEHEAD UP WHITE=01D148;MATHEMATICAL ITALIC SMALL O=01D45C" \o
      ";MATHEMATICAL DOUBLE-STRUCK SMALL A=01D552;SIGNWRITING HAND-FIST INDEX MIDDLE LITTLE=01D8A4" \o
      ";SIGNWRITING HAND-FIST RING RAISED KNUCKLE=01D8AF" \o
      ";SIGNWRITING TRAVEL-WALLPLANE ROTATION-WALLPLANE DOUBLE=01D94C" \o
      ";SIGNWRITING MOVEMENT-FLOORPLANE SINGLE STRAIGHT MEDIUM=01D966;WAXING GIBBOUS MOON SYMBOL=01F314" \o
      ";I LOVE YOU HAND SIGN=01F91F;PROBING CANE=01F9AF;VS159=0E018E;VS168=0E0197;VS177=0E01A0" \o
      ";VS186=0E01A9;VS195=0E01B2;VS249=0E01E8",
    ";RIGHT CURLY BRACKET=00007D;LATIN CAPITAL LETTER O WITH STROKE=0000D8" \o
      ";LATIN CAPITAL LETTER D WITH SMALL LETTER Z=0001F2" \o
      ";LATIN SMALL LETTER O WITH STROKE AND ACUTE=0001FF" \o
      ";MODIFIER LETTER MIDDLE DOUBLE ACUTE ACCENT=0002F6;CYRILLIC SMALL LETTER YERU=00044B" \o
      ";ARMENIAN CAPITAL LETTER ECH=000535;SYRIAC SUBLINEAR FULL STOP=000702;SYRIAC ZQAPHA BELOW=000734" \o
      ";GURMUKHI LETTER DHA=000A27;GUJARATI RUPEE SIGN=000AF1;TAMIL SIGN ANUSVARA=000B82" \o
      ";TELUGU VOWEL SIGN U=000C41;MALAYALAM LETTER UU=000D0A;TIBETAN LETTER KSSA=000F69" \o
      ";GEORGIAN LETTER VIN=0010D5;GEORGIAN LETTER ZEN=0010D6;HANGUL CHOSEONG SSANGIEUNG=001147" \o
      ";HANGUL JUNGSEONG YA=001163;HANGUL JUNGSEONG EU=001173;CANADIAN SYLLABICS WOODS-CREE THWI=001678" \o
      ";MONGOLIAN DIGIT SIX=001816;MONGOLIAN LETTER TA=001832;SUNDANESE LETTER RA=001B9B;ZWNJ=00200C" \o
      ";COMBINING ENCLOSING SQUARE=0020DE;ROMAN NUMERAL THREE=002162;UP DOWN WHITE ARROW=0021F3" \o
      ";FLEUR-DE-LIS=00269C;MEDIUM RIGHT PARENTHESIS ORNAMENT=002769" \o
      ";BLACK CURVED UPWARDS AND RIGHTWARDS ARROW=002BAB" \o
      ";BLACK CURVED RIGHTWARDS AND UPWARDS ARROW=002BAD;HANGUL SINGLE DOT TONE MARK=00302E" \o
      ";HANGUL LETTER RIEUL-KIYEOK=00313A;MYANMAR TAI LAING DIGIT TWO=00A9F2" \o
      ";ARABIC LIGATURE THAL WITH SUPERSCRIPT ALEF ISOLATED FORM=00FC5B" \o
      ";HALFWIDTH KATAKANA LETTER SMALL TU=00FF6F" \o
      ";GREEK ACROPHONIC TROEZENIAN FIFTY ALTERNATE FORM=010167;ROMAN DENARIUS SIGN=010196" \o
      ";GOTHIC LETTER HWAIR=010348;NABATAEAN LETTER FINAL YODH=01088C" \o
      ";INSCRIPTIONAL PAHLAVI LETTER TETH=010B68;INSCRIPTIONAL PAHLAVI NUMBER FOUR=010B7B" \o
      ";SOGDIAN LETTER YODH=010F37;ELYMAIC LETTER TETH=010FE8;WARANG CITI SMALL LETTER BU=0118D7" \o
      ";SOYOMBO LETTER DDHA=011A69;TAMIL DRY CULTIVATION SIGN=011FE5;CUNEIFORM SIGN LISH=0121FA" \o
      ";CUNEIFORM SIGN SAG TIMES EN=01252E;BAMUM LETTER PHASE-A SONJAM=016830" \o
      ";BAMUM LETTER PHASE-B MFIYAQ=01687C;BAMUM LETTER PHASE-E NGUAET=0169F1" \o
      ";BASSA VAH LETTER GAH=016AD6;KHITAN SMALL SCRIPT CHARACTER-18B1F=018B1F" \o
      ";KHITAN SMALL SCRIPT CHARACTER-18B2E=018B2E;KHITAN SMALL SCRIPT CHARACTER-18B3D=018B3D" \o
      ";KHITAN SMALL SCRIPT CHARACTER-18B4C=018B4C;KHITAN SMALL SCRIPT CHARACTER-18B5B=018B5B" \o
      ";KHITAN SMALL SCRIPT CHARACTER-18B6A=018B6A;KHITAN SMALL SCRIPT CHARACTER-18BA6=018BA6" \o
      ";KHITAN SMALL SCRIPT CHARACTER-18BB5=018BB5;KHITAN SMALL SCRIPT CHARACTER-18BC4=018BC4" \o
      ";KHITAN SMALL SCRIPT CHARACTER-18BD3=018BD3;KHITAN SMALL SCRIPT CHARACTER-18BE2=018BE2" \o
      ";KHITAN SMALL SCRIPT CHARACTER-18BF1=018BF1;KHITAN SMALL SCRIPT CHARACTER-18C0F=018C0F" \o
      ";KHITAN SMALL SCRIPT CHARACTER-18C1E=018C1E;KHITAN SMALL SCRIPT CHARACTER-18C2D=018C2D" \o
      ";KHITAN SMALL SCRIPT CHARACTER-18C3C=018C3C;KHITAN SMALL SCRIPT CHARACTER-18C4B=018C4B" \o
      ";KHITAN SMALL SCRIPT CHARACTER-18C5A=018C5A;KHITAN SMALL SCRIPT CHARACTER-18CA5=018CA5" \o
      ";KHITAN SMALL SCRIPT CHARACTER-18CB4=018CB4;KHITAN SMALL SCRIPT CHARACTER-18CC3=018CC3" \o
      ";KHITAN SMALL SCRIPT CHARACTER-18CD2=018CD2;TETRAGRAM FOR DIFFICULTIES=01D354" \o
      ";MATHEMATICAL ITALIC SMALL P=01D45D;MATHEMATICAL DOUBLE-STRUCK SMALL B=01D553" \o
      ";SIGNWRITING LOCATION LIMBS DIGITS=01DA86;MOVIE CAMERA=01F3A5;PENSIVE FACE=01F614;VS169=0E0198" \o
      ";VS178=0E01A1;VS187=0E01AA;VS196=0E01B3",
    ";LATIN SMALL LETTER R WITH FISHHOOK=00027E;GUJARATI LETTER ZHA=000AF9" \o
      ";TIBETAN MARK GUG RTAGS GYAS=000F3B;CANADIAN SYLLABICS CARRIER DENE GEE=0018EE" \o
      ";BUGINESE LETTER NYA=001A0E;SUNDANESE LETTER SA=001B9E;PERSPECTIVE=002306" \o
      ";SHOULDERED OPEN BOX=00237D;COMPOSITION SYMBOL=002384" \o
      ";BOX DRAWINGS HEAVY DOUBLE DASH HORIZONTAL=00254D;LOWER LEFT TRIANGLE=0025FA;CONJUNCTION=00260C" \o
      ";SHADOWED WHITE STAR=002730;RIGHTWARDS HARPOON WITH BARB DOWN BELOW LONG DASH=00296D" \o
      ";LATIN CAPITAL LETTER P WITH STROKE=002C63;TIFINAGH LETTER YAV=002D60" \o
      ";IDEOGRAPHIC TELEGRAPH SYMBOL FOR HOUR SIX=00335E" \o
      ";IDEOGRAPHIC TELEGRAPH SYMBOL FOR DAY TWENTY-FOUR=0033F7" \o
      ";MODIFIER LETTER CYRILLIC HARD SIGN=00A69C;LATIN EPIGRAPHIC LETTER REVERSED F=00A7FB" \o
      ";GOTHIC LETTER LAGUS=01033B;DESERET SMALL LETTER LONG E=010429;OSMANYA DIGIT SEVEN=0104A7" \o
      ";PALMYRENE LETTER HE=010864;TIRHUTA DIGIT THREE=0114D3;WARANG CITI SMALL LETTER UC=0118CF" \o
      ";TAMIL WET CULTIVATION SIGN=011FE4;CUNEIFORM SIGN KA TIMES SIG=012184;CUNEIFORM SIGN SHIM=0122C6" \o
      ";CUNEIFORM SIGN UR2 TIMES U2 PLUS BI=012333;BAMUM LETTER PHASE-E TEUAEQ=01699C" \o
      ";KHITAN SMALL SCRIPT CHARACTER-18B2F=018B2F;KHITAN SMALL SCRIPT CHARACTER-18B3E=018B3E" \o
      ";KHITAN SMALL SCRIPT CHARACTER-18B4D=018B4D;KHITAN SMALL SCRIPT CHARACTER-18B5C=018B5C" \o
      ";KHITAN SMALL SCRIPT CHARACTER-18B6B=018B6B;KHITAN SMALL SCRIPT CHARACTER-18B7A=018B7A" \o
      ";KHITAN SMALL SCRIPT CHARACTER-18BA7=018BA7;KHITAN SMALL SCRIPT CHARACTER-18BB6=018BB6" \o
      ";KHITAN SMALL SCRIPT CHARACTER-18BC5=018BC5;KHITAN SMALL SCRIPT CHARACTER-18BD4=018BD4" \o
      ";KHITAN SMALL SCRIPT CHARACTER-18BE3=018BE3;KHITAN SMALL SCRIPT CHARACTER-18BF2=018BF2" \o
      ";KHITAN SMALL SCRIPT CHARACTER-18C1F=018C1F;KHITAN SMALL SCRIPT CHARACTER-18C2E=018C2E" \o
      ";KHITAN SMALL SCRIPT CHARACTER-18C3D=018C3D;KHITAN SMALL SCRIPT CHARACTER-18C4C=018C4C" \o
      ";KHITAN SMALL SCRIPT CHARACTER-18C5B=018C5B;KHITAN SMALL SCRIPT CHARACTER-18C6A=018C6A" \o
      ";KHITAN SMALL SCRIPT CHARACTER-18CA6=018CA6;KHITAN SMALL SCRIPT CHARACTER-18CB5=018CB5" \o
      ";KHITAN SMALL SCRIPT CHARACTER-18CC4=018CC4;KHITAN SMALL SCRIPT CHARACTER-18CD3=018CD3" \o
      ";ZNAMENNY NEUME SKAMEYTSA KLYUCHENEPOSTOYANNAYA=01CF77;ZNAMENNY NEUME POLKULIZMY=01CF90" \o
      ";BYZANTINE MUSICAL SYMBOL FTHORA ARCHAION DEYTEROU ICHOU=01D0B9;TETRAGRAM FOR INNER=01D346" \o
      ";MATHEMATICAL ITALIC SMALL Q=01D45E;MATHEMATICAL DOUBLE-STRUCK SMALL C=01D554" \o
      ";MATHEMATICAL SANS-SERIF BOLD CAPITAL ALPHA=01D756;OTTOMAN SIYAQ NUMBER THREE=01ED03" \o
      ";BLACK SQUARE BUTTON=01F532;NEUTRAL FACE=01F610;BEVERAGE BOX=01F9C3;VS179=0E01A2;VS188=0E01AB" \o
      ";VS197=0E01B4",
    ";LATIN SMALL LETTER UPSILON=00028A;GUJARATI SIGN NUKTA=000ABC;MYANMAR VOWEL SIGN KAYAH EE=001074" \o
      ";GEORGIAN CAPITAL LETTER BAN=0010A1;HANGUL JUNGSEONG WE=001170;CHEROKEE LETTER QUO=0013C9" \o
      ";CHEROKEE LETTER TLU=0013E1;LIMBU VOWEL-CARRIER LETTER=001900;SUNDANESE LETTER TA=001B92" \o
      ";SUNDANESE DIGIT SIX=001BB6;LATIN SMALL LETTER SIDEWAYS OPEN O=001D12" \o
      ";MODIFIER LETTER CAPITAL REVERSED N=001D3B;BOX DRAWINGS UP HEAVY AND RIGHT DOWN LIGHT=00251E" \o
      ";BOX DRAWINGS DOWN HEAVY AND RIGHT UP LIGHT=00251F" \o
      ";BOX DRAWINGS DOWN LIGHT AND RIGHT UP HEAVY=002521" \o
      ";BOX DRAWINGS UP LIGHT AND RIGHT DOWN HEAVY=002522;TIFINAGH LETTER YAW=002D61" \o
      ";CJK RADICAL NET FOUR=002EB4;BOPOMOFO LETTER ENG=003125;HANGUL LETTER PIEUP-KIYEOK=003172" \o
      ";LATIN SMALL LETTER B WITH FLOURISH=00A797;HANGUL CHOSEONG RIEUL-SSANGKIYEOK=00A965" \o
      ";ARABIC LIGATURE TEH WITH YEH ISOLATED FORM=00FC10;AEGEAN NUMBER SIXTY=010115" \o
      ";GREEK ACROPHONIC ATTIC TEN TALENTS=010149;MODIFIER LETTER SMALL TESH DIGRAPH=0107AE" \o
      ";KAITHI VOWEL SIGN VOCALIC R=0110C2;CUNEIFORM SIGN EZEN=0120A1" \o
      ";CUNEIFORM SIGN GA2 TIMES UD PLUS DU=0120EC;CUNEIFORM SIGN SAG OVER SAG=0122A7" \o
      ";CUNEIFORM SIGN DUG TIMES GI=012494;MEDEFAIDRIN SMALL LETTER AI=016E7E" \o
      ";KHITAN SMALL SCRIPT CHARACTER-18B3F=018B3F;KHITAN SMALL SCRIPT CHARACTER-18B4E=018B4E" \o
      ";KHITAN SMALL SCRIPT CHARACTER-18B5D=018B5D;KHITAN SMALL SCRIPT CHARACTER-18B6C=018B6C" \o
      ";KHITAN SMALL SCRIPT CHARACTER-18B7B=018B7B;KHITAN SMALL SCRIPT CHARACTER-18B8A=018B8A" \o
      ";KHITAN SMALL SCRIPT CHARACTER-18BA8=018BA8;KHITAN SMALL SCRIPT CHARACTER-18BB7=018BB7" \o
      ";KHITAN SMALL SCRIPT CHARACTER-18BC6=018BC6;KHITAN SMALL SCRIPT CHARACTER-18BD5=018BD5" \o
      ";KHITAN SMALL SCRIPT CHARACTER-18BE4=018BE4;KHITAN SMALL SCRIPT CHARACTER-18BF3=018BF3" \o
      ";KHITAN SMALL SCRIPT CHARACTER-18C2F=018C2F;KHITAN SMALL SCRIPT CHARACTER-18C3E=018C3E" \o
      ";KHITAN SMALL SCRIPT CHARACTER-18C4D=018C4D;KHITAN SMALL SCRIPT CHARACTER-18C5C=018C5C" \o
      ";KHITAN SMALL SCRIPT CHARACTER-18C6B=018C6B;KHITAN SMALL SCRIPT CHARACTER-18C7A=018C7A" \o
      ";KHITAN SMALL SCRIPT CHARACTER-18CA7=018CA7;KHITAN SMALL SCRIPT CHARACTER-18CB6=018CB6" \o
      ";KHITAN SMALL SCRIPT CHARACTER-18CC5=018CC5;KHITAN SMALL SCRIPT CHARACTER-18CD4=018CD4" \o
      ";BYZANTINE MUSICAL SYMBOL AGOGI POLI GORGI=01D0A1;MAYAN NUMERAL SEVEN=01D2E7" \o
      ";MATHEMATICAL ITALIC SMALL R=01D45F;MATHEMATICAL DOUBLE-STRUCK SMALL D=01D555" \o
      ";MAHJONG TILE SUMMER=01F027;MAHJONG TILE WINTER=01F029;WORRIED FACE=01F61F" \o
      ";ALCHEMICAL SYMBOL FOR REGULUS OF ANTIMONY=01F730;ALCHEMICAL SYMBOL FOR BRICK=01F759" \o
      ";VS189=0E01AC;VS198=0E01B5",
    ";LATIN CAPITAL LETTER R WITH STROKE=00024C;MODIFIER LETTER MIDDLE DOUBLE GRAVE ACCENT=0002F5" \o
      ";ARMENIAN CAPITAL LETTER FEH=000556;ARABIC THOUSANDS SEPARATOR=00066C;THAANA LETTER NOONU=000782" \o
      ";GURMUKHI LETTER GHA=000A18;GURMUKHI SIGN UDAAT=000A51;ORIYA VOWEL SIGN UU=000B42" \o
      ";TELUGU FRACTION DIGIT ZERO FOR ODD POWERS OF FOUR=000C78;GEORGIAN CAPITAL LETTER CAN=0010BA" \o
      ";CHEROKEE LETTER TLV=0013E2;CHEROKEE LETTER TSO=0013E6;MONGOLIAN LETTER WA=001838" \o
      ";OL CHIKI DIGIT THREE=001C53;VEDIC TONE THREE DOTS BELOW=001CDF" \o
      ";VEDIC SIGN REVERSED VISARGA UDATTA=001CE4" \o
      ";GREEK SMALL LETTER ETA WITH PSILI AND PERISPOMENI=001F26;NOT EQUAL TO=002260" \o
      ";BOX DRAWINGS LIGHT ARC UP AND RIGHT=002570;BLACK LEFT-POINTING SMALL TRIANGLE=0025C2" \o
      ";HOT BEVERAGE=002615;SEMISEXTILE=0026BA;WHITE DRAUGHTS KING=0026C1" \o
      ";LEFT-POINTING CURVED ANGLE BRACKET=0029FC;GLAGOLITIC SMALL LETTER IOTATED SMALL YUS=002C57" \o
      ";COPTIC CAPITAL LETTER CROSSED SHEI=002CC2;HANGUL LETTER MIEUM=003141" \o
      ";COMBINING CYRILLIC PAYEROK=00A67D;KAYAH LI DIGIT THREE=00A903" \o
      ";ARABIC LIGATURE GHAIN WITH ALEF MAKSURA FINAL FORM=00FD15;HALFWIDTH KATAKANA LETTER E=00FF74" \o
      ";AEGEAN NUMBER THREE HUNDRED=01011B;OLD ITALIC LETTER BE=010301;GOTHIC LETTER SAUIL=010343" \o
      ";SHAVIAN LETTER HUNG=010459;IMPERIAL ARAMAIC NUMBER ONE=010858" \o
      ";MEROITIC CURSIVE LETTER ARCHAIC SA=0109B0;HANIFI ROHINGYA SIGN TAHALA=010D25" \o
      ";ELYMAIC LETTER QOPH=010FF2;KHUDAWADI LETTER UU=0112B5;WARANG CITI SMALL LETTER YA=0118C4" \o
      ";WARANG CITI SMALL LETTER KO=0118CC;CUNEIFORM SIGN HI TIMES SHE=012135" \o
      ";CUNEIFORM SIGN LAGAB TIMES U PLUS A=0121E6;CUNEIFORM SIGN SAG TIMES MI=01229D" \o
      ";CUNEIFORM SIGN SUR9=0122EA;CUNEIFORM SIGN DUG TIMES HI=012498" \o
      ";BAMUM LETTER PHASE-D NSIEET=01692B;KHITAN SMALL SCRIPT CHARACTER-18B4F=018B4F" \o
      ";KHITAN SMALL SCRIPT CHARACTER-18B5E=018B5E;KHITAN SMALL SCRIPT CHARACTER-18B6D=018B6D" \o
      ";KHITAN SMALL SCRIPT CHARACTER-18B7C=018B7C;KHITAN SMALL SCRIPT CHARACTER-18B8B=018B8B" \o
      ";KHITAN SMALL SCRIPT CHARACTER-18B9A=018B9A;KHITAN SMALL SCRIPT CHARACTER-18BA9=018BA9" \o
      ";KHITAN SMALL SCRIPT CHARACTER-18BB8=018BB8;KHITAN SMALL SCRIPT CHARACTER-18BC7=018BC7" \o
      ";KHITAN SMALL SCRIPT CHARACTER-18BD6=018BD6;KHITAN SMALL SCRIPT CHARACTER-18BE5=018BE5" \o
      ";KHITAN SMALL SCRIPT CHARACTER-18BF4=018BF4;KHITAN SMALL SCRIPT CHARACTER-18C3F=018C3F" \o
      ";KHITAN SMALL SCRIPT CHARACTER-18C4E=018C4E;KHITAN SMALL SCRIPT CHARACTER-18C5D=018C5D" \o
      ";KHITAN SMALL SCRIPT CHARACTER-18C6C=018C6C;KHITAN SMALL SCRIPT CHARACTER-18C7B=018C7B" \o
      ";KHITAN SMALL SCRIPT CHARACTER-18C8A=018C8A;KHITAN SMALL SCRIPT CHARACTER-18CA8=018CA8" \o
      ";KHITAN SMALL SCRIPT CHARACTER-18CB7=018CB7;KHITAN SMALL SCRIPT CHARACTER-18CC6=018CC6" \o
      ";KHITAN SMALL SCRIPT CHARACTER-18CD5=018CD5;DUPLOYAN AFFIX MID VERTICAL SECANT=01BC74" \o
      ";BYZANTINE MUSICAL SYMBOL PARICHON=01D01E;BYZANTINE MUSICAL SYMBOL SIMANSIS ARSEOS=01D0E2" \o
      ";TETRAGRAM FOR DOUBT=01D343;MATHEMATICAL ITALIC SMALL S=01D460" \o
      ";MATHEMATICAL DOUBLE-STRUCK SMALL E=01D556" \o
      ";MATHEMATICAL SANS-SERIF BOLD ITALIC SMALL OMICRON=01D7B8" \o
      ";NYIAKENG PUACHUE HMONG DIGIT SEVEN=01E147;OTTOMAN SIYAQ NUMBER SIX THOUSAND=01ED21" \o
      ";ARABIC MATHEMATICAL STRETCHED NOON=01EE6D;MAHJONG TILE AUTUMN=01F028;THERMOMETER=01F321" \o
      ";YAWNING FACE=01F971;VS199=0E01B6",
    ";DEVICE CONTROL FOUR=000014;MODIFIER LETTER EXTRA-LOW TONE BAR=0002E9" \o
      ";ARABIC LETTER WAW WITH RING=0006C4;NKO LETTER U=0007CE;SAMARITAN LETTER IT=000807" \o
      ";HANGUL JUNGSEONG YE=001168;SUNDANESE LETTER VA=001B97;LEPCHA VOWEL SIGN AA=001C26" \o
      ";LATIN SMALL LETTER SIDEWAYS O WITH STROKE=001D13;COMBINING LATIN SMALL LETTER SCHWA=001DEA" \o
      ";UPWARDS WHITE DOUBLE ARROW=0021EE;APL FUNCTIONAL SYMBOL QUAD DIAMOND=00233A" \o
      ";UPPER LEFT TRIANGLE=0025F8" \o
      ";MEASURED ANGLE WITH OPEN ARM ENDING IN ARROW POINTING UP AND LEFT=0029A9" \o
      ";MEASURED ANGLE WITH OPEN ARM ENDING IN ARROW POINTING LEFT AND UP=0029AD" \o
      ";INFINITY NEGATED WITH VERTICAL BAR=0029DE;TIFINAGH LETTER YAY=002D62" \o
      ";CJK RADICAL WEST ONE=002EC3;BOPOMOFO LETTER NGG=0031AD;PARENTHESIZED HANGUL IEUNG=003207" \o
      ";MYANMAR SIGN PAO KAREN TONE=00AA7B;ARABIC LETTER FARSI YEH MEDIAL FORM=00FBFF" \o
      ";GREEK SINUSOID SIGN=01018C;SHAVIAN LETTER LOLL=010464;CYPRIOT SYLLABLE JA=010805" \o
      ";CHAKMA VOWEL SIGN AI=01112D;SIDDHAM DOUBLE DANDA=0115C3" \o
      ";SIDDHAM SECTION MARK WITH CIRCLES AND RAYS=0115D5;TAKRI SIGN ANUSVARA=0116AB" \o
      ";CUNEIFORM SIGN KA TIMES SAR=01217F;CUNEIFORM SIGN SAG TIMES UB=0122A3" \o
      ";CUNEIFORM SIGN SHIM TIMES A=0122C7;CUNEIFORM NUMERIC SIGN SEVEN SHAR2=012429" \o
      ";CUNEIFORM NUMERIC SIGN NINE VARIANT FORM ILIMMU A=012449;CUNEIFORM SIGN UR2 TIMES UD=01253D" \o
      ";BAMUM LETTER PHASE-B YEURAE=01685E;MRO LETTER O=016A52;BASSA VAH LETTER MBE=016AD4" \o
      ";KHITAN SMALL SCRIPT CHARACTER-18B5F=018B5F;KHITAN SMALL SCRIPT CHARACTER-18B6E=018B6E" \o
      ";KHITAN SMALL SCRIPT CHARACTER-18B7D=018B7D;KHITAN SMALL SCRIPT CHARACTER-18B8C=018B8C" \o
      ";KHITAN SMALL SCRIPT CHARACTER-18B9B=018B9B;KHITAN SMALL SCRIPT CHARACTER-18BB9=018BB9" \o
      ";KHITAN SMALL SCRIPT CHARACTER-18BC8=018BC8;KHITAN SMALL SCRIPT CHARACTER-18BD7=018BD7" \o
      ";KHITAN SMALL SCRIPT CHARACTER-18BE6=018BE6;KHITAN SMALL SCRIPT CHARACTER-18BF5=018BF5" \o
      ";KHITAN SMALL SCRIPT CHARACTER-18C4F=018C4F;KHITAN SMALL SCRIPT CHARACTER-18C5E=018C5E" \o
      ";KHITAN SMALL SCRIPT CHARACTER-18C6D=018C6D;KHITAN SMALL SCRIPT CHARACTER-18C7C=018C7C" \o
      ";KHITAN SMALL SCRIPT CHARACTER-18C8B=018C8B;KHITAN SMALL SCRIPT CHARACTER-18C9A=018C9A" \o
      ";KHITAN SMALL SCRIPT CHARACTER-18CA9=018CA9;KHITAN SMALL SCRIPT CHARACTER-18CB8=018CB8" \o
      ";KHITAN SMALL SCRIPT CHARACTER-18CC7=018CC7;BYZANTINE MUSICAL SYMBOL THEMATISMOS ESO=01D076" \o
      ";MUSICAL SYMBOL BREVIS REST=01D1C3;MATHEMATICAL ITALIC SMALL T=01D461" \o
      ";MATHEMATICAL DOUBLE-STRUCK SMALL F=01D557;MATHEMATICAL BOLD SMALL RHO=01D6D2" \o
      ";MATHEMATICAL SANS-SERIF BOLD CAPITAL OMEGA=01D76E" \o
      ";SIGNWRITING MOVEMENT-WALLPLANE CURVE HALF-CIRCLE MEDIUM=01D98D;ADLAM SMALL LETTER E=01E92B" \o
      ";RINGING BELL=01F56D;CIRCLED INFORMATION SOURCE=01F6C8;UNICORN FACE=01F984",
    ";LATIN CAPITAL LETTER T WITH STROKE=000166;COMBINING COMMA ABOVE RIGHT=000315" \o
      ";COMBINING CYRILLIC PALATALIZATION=000484;ARMENIAN CAPITAL LETTER BEN=000532" \o
      ";HEBREW ACCENT GERESH MUQDAM=00059D;HEBREW POINT QAMATS=0005B8" \o
      ";DEVANAGARI VOWEL SIGN CANDRA LONG E=000955;GUJARATI LETTER SSA=000AB7" \o
      ";GEORGIAN CAPITAL LETTER AEN=0010CD;KHMER SYMBOL LEK ATTAK PRAM=0017F5" \o
      ";MONGOLIAN LETTER UE=001826;MONGOLIAN LETTER YA=001836;TAI THAM SIGN DOKMAI=001AA5" \o
      ";SUNDANESE LETTER WA=001B9D;GREEK DASIA AND PERISPOMENI=001FDF;FIGURE SPACE=002007" \o
      ";BLACK SQUARE=0025A0;SOUTH WEST ARROW WITH HOOK=002926;MULTIPLICATION SIGN WITH UNDERBAR=002A31" \o
      ";UPWARDS BLACK ARROW=002B06;WHITE SMALL LOZENGE=002B2B;TIFINAGH LETTER YAZ=002D63" \o
      ";HANGUL LETTER NIEUN=003134;BOPOMOFO LETTER ANN=0031A9;CIRCLED IDEOGRAPH FINANCIAL=003296" \o
      ";LATIN SMALL LETTER BROKEN L=00A747;LATIN SMALL LETTER E WITH FLOURISH=00AB34" \o
      ";LATIN SMALL LETTER DOUBLE R=00AB48;HANGUL JONGSEONG MIEUM-SSANGNIEUN=00D7DF" \o
      ";HEBREW LETTER HE WITH MAPIQ=00FB34;HALFWIDTH KATAKANA LETTER SMALL YU=00FF6D" \o
      ";FULLWIDTH CENT SIGN=00FFE0;OLD ITALIC LETTER DE=010303;DESERET SMALL LETTER LONG I=010428" \o
      ";SHAVIAN LETTER ROAR=01046E;CYPRIOT SYLLABLE KA=01080A;COMBINING GRANTHA DIGIT ONE=011367" \o
      ";CUNEIFORM SIGN EZEN TIMES A=0120A2;CUNEIFORM SIGN GA2 TIMES EN TIMES GAN2 TENU=0120CA" \o
      ";CUNEIFORM SIGN HI TIMES KIN=012133;CUNEIFORM SIGN KA TIMES TAR=012186" \o
      ";CUNEIFORM SIGN UDUG=01231C;KHITAN SMALL SCRIPT CHARACTER-18B6F=018B6F" \o
      ";KHITAN SMALL SCRIPT CHARACTER-18B7E=018B7E;KHITAN SMALL SCRIPT CHARACTER-18B8D=018B8D" \o
      ";KHITAN SMALL SCRIPT CHARACTER-18B9C=018B9C;KHITAN SMALL SCRIPT CHARACTER-18BC9=018BC9" \o
      ";KHITAN SMALL SCRIPT CHARACTER-18BD8=018BD8;KHITAN SMALL SCRIPT CHARACTER-18BE7=018BE7" \o
      ";KHITAN SMALL SCRIPT CHARACTER-18BF6=018BF6;KHITAN SMALL SCRIPT CHARACTER-18C5F=018C5F" \o
      ";KHITAN SMALL SCRIPT CHARACTER-18C6E=018C6E;KHITAN SMALL SCRIPT CHARACTER-18C7D=018C7D" \o
      ";KHITAN SMALL SCRIPT CHARACTER-18C8C=018C8C;KHITAN SMALL SCRIPT CHARACTER-18C9B=018C9B" \o
      ";KHITAN SMALL SCRIPT CHARACTER-18CB9=018CB9;KHITAN SMALL SCRIPT CHARACTER-18CC8=018CC8" \o
      ";ZNAMENNY NEUME FITA=01CF83;MATHEMATICAL ITALIC SMALL U=01D462" \o
      ";MATHEMATICAL DOUBLE-STRUCK SMALL G=01D558;MATHEMATICAL BOLD SMALL TAU=01D6D5" \o
      ";MATHEMATICAL SANS-SERIF BOLD CAPITAL DELTA=01D759" \o
      ";SIGNWRITING HAND-HINGE LITTLE INDEX THUMB=01D89D;CIRCLED CROSS FORMEE WITH TWO DOTS=01F901",
    ";COMBINING DIAERESIS=000308;HEBREW LIGATURE YIDDISH DOUBLE YOD=0005F2" \o
      ";SAMARITAN VOWEL SIGN LONG A=000822;ARABIC SMALL HIGH SIGN SAFHA=0008E1" \o
      ";DEVANAGARI LETTER VOCALIC L=00090C;GURMUKHI LETTER JHA=000A1D;GUJARATI LETTER NYA=000A9E" \o
      ";HANGUL JUNGSEONG WI=001171;CANADIAN SYLLABICS WOODS-CREE THWO=00167A;MONGOLIAN DIGIT TWO=001812" \o
      ";MONGOLIAN LETTER ZA=00183D;SUNDANESE LETTER XA=001B9F;COMBINING LEFTWARDS ARROW OVERLAY=0020EA" \o
      ";VULGAR FRACTION TWO THIRDS=002154;NEITHER LESS-THAN NOR GREATER-THAN=002278" \o
      ";NEITHER GREATER-THAN NOR LESS-THAN=002279;NUMBER SEVENTEEN FULL STOP=002498" \o
      ";RIGHTWARDS ARROW FROM BAR TO BLACK DIAMOND=002920;UNION ABOVE BAR ABOVE INTERSECTION=002A48" \o
      ";INTERSECTION ABOVE BAR ABOVE UNION=002A49;HEAVY CIRCLE=002B58;KANGXI RADICAL BLACK=002FCA" \o
      ";LATIN CAPITAL LETTER U WITH STROKE=00A7B8;SAURASHTRA LETTER A=00A882" \o
      ";COMBINING MACRON RIGHT HALF=00FE25;GREEK ACROPHONIC ATTIC ONE QUARTER=010140" \o
      ";GOTHIC LETTER KUSMA=01033A;GOTHIC LETTER IGGWS=010347;DESERET CAPITAL LETTER CHEE=010415" \o
      ";LINEAR A SIGN A714 ABB=010751;CYPRIOT SYLLABLE LA=01080F;SOGDIAN COMBINING DOT ABOVE=010F48" \o
      ";SHARADA VOWEL SIGN PRISHTHAMATRA E=0111CE;GUNJALA GONDI VOWEL SIGN OO=011D93" \o
      ";CUNEIFORM SIGN SAG TIMES DU=012297;CUNEIFORM SIGN SHIR=0122D3" \o
      ";CUNEIFORM SIGN AB TIMES NUN=012370;KHITAN SMALL SCRIPT CHARACTER-18B7F=018B7F" \o
      ";KHITAN SMALL SCRIPT CHARACTER-18B8E=018B8E;KHITAN SMALL SCRIPT CHARACTER-18B9D=018B9D" \o
      ";KHITAN SMALL SCRIPT CHARACTER-18BD9=018BD9;KHITAN SMALL SCRIPT CHARACTER-18BE8=018BE8" \o
      ";KHITAN SMALL SCRIPT CHARACTER-18BF7=018BF7;KHITAN SMALL SCRIPT CHARACTER-18C6F=018C6F" \o
      ";KHITAN SMALL SCRIPT CHARACTER-18C7E=018C7E;KHITAN SMALL SCRIPT CHARACTER-18C8D=018C8D" \o
      ";KHITAN SMALL SCRIPT CHARACTER-18C9C=018C9C;KHITAN SMALL SCRIPT CHARACTER-18CC9=018CC9" \o
      ";MUSICAL SYMBOL THIRTY-SECOND REST=01D140;MATHEMATICAL ITALIC SMALL V=01D463" \o
      ";MATHEMATICAL DOUBLE-STRUCK SMALL H=01D559" \o
      ";MATHEMATICAL SANS-SERIF BOLD ITALIC SMALL EPSILON=01D7AE" \o
      ";SIGNWRITING HAND-HINGE OPEN THUMB FORWARD=01D87C" \o
      ";SIGNWRITING MOVEMENT-WALLPLANE BOX SMALL=01D942" \o
      ";SIGNWRITING TRAVEL-WALLPLANE ROTATION-WALLPLANE SINGLE=01D94B;FRENCH FRIES=01F35F" \o
      ";OPTICAL DISC=01F4BF;NEUTRAL CHESS QUEEN=01FA01",
    ";LEFT-FACING ARMENIAN ETERNITY SIGN=00058E;HEBREW LIGATURE YIDDISH DOUBLE VAV=0005F0" \o
      ";ARABIC LETTER ALEF WITH HAMZA BELOW=000625;ARABIC LETTER DDAHAL=00068D" \o
      ";GURMUKHI LETTER KHA=000A16;GUJARATI LETTER TTA=000A9F" \o
      ";MYANMAR TONE MARK SGAW KAREN KE PHO=001064;GEORGIAN CAPITAL LETTER GAN=0010A2" \o
      ";GEORGIAN CAPITAL LETTER HIE=0010C2;HANGUL CHOSEONG SSANGNIEUN=001114" \o
      ";MONGOLIAN LETTER CHA WITH TWO DOTS=001878;SUNDANESE LETTER EU=001B89;SUNDANESE LETTER YA=001B9A" \o
      ";VEDIC SIGN ANUSVARA UBHAYATO MUKHA=001CF1;MODIFIER LETTER SMALL TURNED ALPHA=001D9B" \o
      ";RIGHTWARDS ARROW WITH TAIL=0021A3;IDENTICAL TO=002261;SYMBOL FOR START OF HEADING=002401" \o
      ";SAGITTARIUS=002650;HELLSCHREIBER PAUSE SYMBOL=002BFF;HANGUL LETTER RIEUL=003139" \o
      ";SQUARE MAHHA=003345;IDEOGRAPHIC TELEGRAPH SYMBOL FOR HOUR TWO=00335A" \o
      ";IDEOGRAPHIC TELEGRAPH SYMBOL FOR HOUR TWENTY-ONE=00336D" \o
      ";ARABIC LIGATURE YEH WITH YEH ISOLATED FORM=00FC5A;HALFWIDTH KATAKANA LETTER I=00FF72" \o
      ";OLD ITALIC LETTER EF=01031A;CYPRIOT SYLLABLE MA=010814;IMPERIAL ARAMAIC LETTER MEM=01084C" \o
      ";MEROITIC CURSIVE LETTER TO=0109B6;MEROITIC CURSIVE FRACTION ONE HALF=0109BD" \o
      ";LARGE TWO RINGS OVER ONE RING PUNCTUATION=010B3E" \o
      ";LARGE ONE RING OVER TWO RINGS PUNCTUATION=010B3F;BRAHMI NUMBER FORTY=01105E" \o
      ";DOGRA VOWEL SIGN VOCALIC RR=011832;CUNEIFORM SIGN DAG KISIM5 TIMES KAK=012063" \o
      ";CUNEIFORM SIGN TAG TIMES UD=0122F9;KHITAN SMALL SCRIPT CHARACTER-18B8F=018B8F" \o
      ";KHITAN SMALL SCRIPT CHARACTER-18B9E=018B9E;KHITAN SMALL SCRIPT CHARACTER-18BE9=018BE9" \o
      ";KHITAN SMALL SCRIPT CHARACTER-18BF8=018BF8;KHITAN SMALL SCRIPT CHARACTER-18C7F=018C7F" \o
      ";KHITAN SMALL SCRIPT CHARACTER-18C8E=018C8E;KHITAN SMALL SCRIPT CHARACTER-18C9D=018C9D" \o
      ";BYZANTINE MUSICAL SYMBOL SAXIMATA=01D01D;TETRAGRAM FOR GOING TO MEET=01D32F" \o
      ";MATHEMATICAL ITALIC SMALL W=01D464;MATHEMATICAL DOUBLE-STRUCK SMALL I=01D55A" \o
      ";MATHEMATICAL BOLD SMALL PSI=01D6D9;MATHEMATICAL SANS-SERIF BOLD CAPITAL THETA SYMBOL=01D767" \o
      ";MATHEMATICAL BOLD DIGIT SIX=01D7D4;SIGNWRITING HAND-CIRCLE INDEX BENT=01D807" \o
      ";SIGNWRITING HAND-FIST MIDDLE THUMB LITTLE=01D8CB" \o
      ";SIGNWRITING MOVEMENT-FLOORPLANE TRIPLE ALTERNATING WRIST FLEX=01D972;KAABA=01F54B" \o
      ";SUSPENSION RAILWAY=01F69F;ORANGE HEART=01F9E1;NEUTRAL CHESS PAWN ROTATED NINETY DEGREES=01FA1A" \o
      ";SCREWDRIVER=01FA9B",
    ";LEFT-POINTING DOUBLE ANGLE QUOTATION MARK=0000AB;GREEK QUESTION MARK=00037E" \o
      ";ARMENIAN CAPITAL LETTER KEH=000554;KANNADA VOWEL SIGN E=000CC6" \o
      ";TIBETAN MARK MNYAM YIG GI MGO RGYAN=000FD1;HANGUL JUNGSEONG YI=001174" \o
      ";CHEROKEE LETTER QUU=0013CA;CANADIAN SYLLABICS FINAL SHORT HORIZONTAL STROKE=001428" \o
      ";SUNDANESE LETTER ZA=001B90;SUNDANESE DIGIT TWO=001BB2;OL CHIKI AHAD=001C7D" \o
      ";LATIN LETTER SMALL CAPITAL BARRED B=001D03;WHITE UP-POINTING TRIANGLE=0025B3" \o
      ";INCREASES AS=0029E1;GLEICH STARK=0029E6;BIG REVERSE SOLIDUS=0029F9" \o
      ";GLAGOLITIC SMALL LETTER SPIDERY HA=002C52;TIFINAGH LETTER YEY=002D3B" \o
      ";CJK RADICAL WALK TWO=002ECE;HANGUL LETTER NIEUN-TIKEUT=003166;HEXAGRAM FOR CONTEMPLATION=004DD3" \o
      ";LATIN SMALL LETTER CHI WITH LOW RIGHT RING=00AB54;HEBREW LETTER FINAL KAF WITH DAGESH=00FB3A" \o
      ";OLD ITALIC LETTER KA=01030A;CYPRIOT SYLLABLE NA=010819;IMPERIAL ARAMAIC NUMBER TEN=01085B" \o
      ";CHAKMA VOWEL SIGN EI=011146;CUNEIFORM SIGN LU2 TIMES NU=01220D;CUNEIFORM SIGN HUSH=01237D" \o
      ";CUNEIFORM SIGN DUG TIMES MI=0124A4;BAMUM LETTER PHASE-C NGGUON=0168B5" \o
      ";BAMUM LETTER PHASE-D NGGUOM=016945;KHITAN SMALL SCRIPT CHARACTER-18B9F=018B9F" \o
      ";KHITAN SMALL SCRIPT CHARACTER-18BF9=018BF9;KHITAN SMALL SCRIPT CHARACTER-18C8F=018C8F" \o
      ";KHITAN SMALL SCRIPT CHARACTER-18C9E=018C9E;ZNAMENNY NEUME STATYA S DVUMYA ZAPYATYMI=01CF8E" \o
      ";BYZANTINE MUSICAL SYMBOL DIGORGON=01D092;MATHEMATICAL ITALIC SMALL X=01D465" \o
      ";MATHEMATICAL DOUBLE-STRUCK SMALL J=01D55B;MATHEMATICAL SANS-SERIF BOLD CAPITAL KAPPA=01D75F" \o
      ";MATHEMATICAL MONOSPACE DIGIT EIGHT=01D7FE" \o
      ";SIGNWRITING HAND-FIST INDEX THUMB SIDE INDEX BENT=01D8E1" \o
      ";LATIN LETTER RETROFLEX CLICK WITH RETROFLEX HOOK=01DF0A;ADLAM SMALL LETTER I=01E92D" \o
      ";TABLE TENNIS PADDLE AND BALL=01F3D3;SIDEWAYS BLACK LEFT POINTING INDEX=01F59A" \o
      ";FACE WITH COLD SWEAT=01F613;STETHOSCOPE=01FA7A",
    ";LATIN SMALL LETTER A WITH DOT ABOVE=000227;SAMARITAN LETTER IY=000804" \o
      ";GURMUKHI LETTER NGA=000A19;GEORGIAN CAPITAL LETTER RAE=0010B0" \o
      ";GEORGIAN CAPITAL LETTER CIL=0010BC;GEORGIAN LETTER LABIAL SIGN=0010FF" \o
      ";HANGUL CHOSEONG SSANGRIEUL=001119;CHEROKEE LETTER QUV=0013CB;CHEROKEE LETTER TSU=0013E7" \o
      ";KHMER SYMBOL LEK ATTAK BUON=0017F4;TURNED SANS-SERIF CAPITAL G=002141" \o
      ";ROMAN NUMERAL SEVEN=002166;WHITE SUN WITH RAYS=00263C;WHITE CONCAVE-SIDED DIAMOND=0027E1" \o
      ";CJK RADICAL LONG TWO=002ED2;KANGXI RADICAL AGAIN=002F1C;HANGUL LETTER PIEUP=003142" \o
      ";BOPOMOFO LETTER ENN=0031A5;PARENTHESIZED HANGUL MIEUM=003204;SQUARE BEETA=00333C" \o
      ";CYRILLIC CAPITAL LETTER CLOSED LITTLE YUS=00A658;LATIN EPIGRAPHIC LETTER INVERTED M=00A7FD" \o
      ";OLD ITALIC LETTER HE=010307;CYPRIOT SYLLABLE KE=01080B;PALMYRENE LETTER PE=010871" \o
      ";AVESTAN LETTER NGVE=010B24;INSCRIPTIONAL PARTHIAN LETTER TAW=010B55" \o
      ";HANIFI ROHINGYA DIGIT EIGHT=010D38;OLD UYGHUR PUNCTUATION BAR=010F86;TIRHUTA SIGN VIRAMA=0114C2" \o
      ";WARANG CITI SMALL LETTER WI=0118C2;CUNEIFORM SIGN DUG TIMES NI=0124A5" \o
      ";BAMUM LETTER PHASE-C SETFON=0168DC;BAMUM LETTER PHASE-D NGGEUX=01693B" \o
      ";BAMUM LETTER PHASE-E YEUAET=0169CF;KHITAN SMALL SCRIPT CHARACTER-18C9F=018C9F" \o
      ";BYZANTINE MUSICAL SYMBOL THEMATISMOS EXO=01D077" \o
      ";BYZANTINE MUSICAL SYMBOL KENTIMA NEO KATO=01D0F3;MATHEMATICAL ITALIC SMALL Y=01D466" \o
      ";MATHEMATICAL DOUBLE-STRUCK SMALL K=01D55C;MATHEMATICAL SANS-SERIF DIGIT FOUR=01D7E6" \o
      ";OTTOMAN SIYAQ NUMBER TWO THOUSAND=01ED1D;MOBILE PHONE=01F4F1;PRAYER BEADS=01F4FF" \o
      ";COMPRESSION=01F5DC;LEFTWARDS SANS-SERIF ARROW=01F850",
    ";LATIN CAPITAL LETTER C WITH CEDILLA=0000C7;LATIN CAPITAL LETTER Y WITH STROKE=00024E" \o
      ";GREEK SMALL LETTER IOTA WITH TONOS=0003AF;SAMARITAN VOWEL SIGN LONG E=00081C" \o
      ";GURMUKHI ABBREVIATION SIGN=000A76;THAI CHARACTER NO NU=000E19;LAO SIGN PALI VIRAMA=000EBA" \o
      ";TIBETAN MARK GUG RTAGS GYON=000F3A;CHEROKEE LETTER TSV=0013E8;RUNIC ARLAUG SYMBOL=0016EE" \o
      ";MONGOLIAN LETTER ALI GALI INVERTED UBADAMA=001884;LATIN SMALL LETTER B WITH DOT ABOVE=001E03" \o
      ";LATIN SMALL LETTER C WITH CEDILLA AND ACUTE=001E09;GREEK PSILI AND OXIA=001FCE" \o
      ";ROMAN NUMERAL FIFTY=00216C;SUBSET OF WITH NOT EQUAL TO=00228A;WHITE CIRCLE=0025CB" \o
      ";WHITE MEDIUM SQUARE=0025FB;HEAVY DIVISION SIGN=002797;MINUS SIGN WITH COMMA ABOVE=002A29" \o
      ";COPTIC CAPITAL LETTER GAMMA=002C84;HANGUL LETTER RIEUL-TIKEUT=00316A;SAURASHTRA LETTER E=00A88C" \o
      ";ARABIC LIGATURE JEEM WITH HAH WITH ALEF MAKSURA FINAL FORM=00FDA6" \o
      ";FULLWIDTH EXCLAMATION MARK=00FF01;GREEK ACROPHONIC ATTIC FIVE=010143" \o
      ";PHAISTOS DISC SIGN PAPYRUS=0101F4;OSMANYA LETTER CAYN=01048B;CYPRIOT SYLLABLE LE=010810" \o
      ";CYPRIOT SYLLABLE PA=01081E;BRAHMI VOWEL SIGN AA=011038;TIRHUTA DIGIT SEVEN=0114D7" \o
      ";CUNEIFORM SIGN NUNUZ AB2 TIMES KAD3=012273;BAMUM LETTER PHASE-B NGGUOQ=01687A" \o
      ";ZNAMENNY COMBINING MARK MALO POVYSHE S KHOKHLOM ON RIGHT=01CF15" \o
      ";TETRAGRAM FOR DECISIVENESS=01D322;TETRAGRAM FOR ACCUMULATION=01D341" \o
      ";MATHEMATICAL ITALIC SMALL Z=01D467;MATHEMATICAL DOUBLE-STRUCK SMALL L=01D55D" \o
      ";SIGNWRITING MOVEMENT-DIAGONAL BETWEEN AWAY LARGE=01D95F" \o
      ";MENDE KIKAKUI SYLLABLE M161 LONG MBE=01E89C;OTTOMAN SIYAQ NUMBER SEVEN=01ED07" \o
      ";MEDIUM WHITE SQUARE=01F78F;THONG SANDAL=01FA74;LOWER LEFT TRIANGULAR MEDIUM SHADE=01FB9F",
    ";LATIN SMALL LETTER C WITH DOT ABOVE=00010B;LATIN CAPITAL LETTER Z WITH STROKE=0001B5" \o
      ";LATIN SMALL LETTER TURNED A=000250;CYRILLIC SMALL LETTER UKRAINIAN IE=000454" \o
      ";CYRILLIC SMALL LETTER GHE WITH MIDDLE HOOK=000495;SAMARITAN VOWEL SIGN SUKUN=00082C" \o
      ";TELUGU SIGN VISARGA=000C03;RIGHT-FACING SVASTI SIGN WITH DOTS=000FD7" \o
      ";GEORGIAN CAPITAL LETTER KAN=0010A9;HANGUL CHOSEONG SSANGPIEUP=001108" \o
      ";CANADIAN SYLLABICS SAYISI M=0014BF;CANADIAN SYLLABICS WEST-CREE SHWOO=001520" \o
      ";LATIN CAPITAL LETTER D WITH CEDILLA=001E10;GREEK CAPITAL LETTER ETA WITH DASIA=001F29" \o
      ";ZWSP=00200B;DENTISTRY SYMBOL LIGHT VERTICAL AND BOTTOM RIGHT=0023BF;QUADRANT LOWER LEFT=002596" \o
      ";PEACE SYMBOL=00262E;WHITE CIRCLE WITH DOT RIGHT=002686;FLORAL HEART=002766" \o
      ";SUBSET OF ABOVE EQUALS SIGN=002AC5;COPTIC CAPITAL LETTER IAUDA=002C92" \o
      ";IDEOGRAPHIC ANNOTATION MIDDLE MARK=003197;PARENTHESIZED HANGUL NIEUN=003201" \o
      ";HEXAGRAM FOR RETURN=004DD7;LATIN EPIGRAPHIC LETTER REVERSED P=00A7FC" \o
      ";MODIFIER BREVE WITH INVERTED BREVE=00AB5B;ARABIC LETTER HEH WITH YEH ABOVE FINAL FORM=00FBA5" \o
      ";UGARITIC LETTER YOD=01038A;DESERET SMALL LETTER LONG O=01042C;SHAVIAN LETTER THEY=01045E" \o
      ";CYPRIOT SYLLABLE ME=010815;MARCHEN SUBJOINED LETTER BA=011CA0" \o
      ";CUNEIFORM SIGN GIR3 TIMES GAN2 TENU=01210C;CUNEIFORM SIGN DUG TIMES PI=0124A6" \o
      ";PAHAWH HMONG SIGN XYEEM RHO=016B3D;KHITAN SMALL SCRIPT CHARACTER-18BAA=018BAA" \o
      ";MATHEMATICAL DOUBLE-STRUCK SMALL M=01D55E;SIGNWRITING HAND-CUP OPEN NO THUMB=01D870" \o
      ";OTTOMAN SIYAQ NUMBER FIFTY=01ED0E;CIRCLED IDEOGRAPH ADVANTAGE=01F250" \o
      ";ALCHEMICAL SYMBOL FOR EARTH=01F703;ALCHEMICAL SYMBOL FOR ASHES=01F757" \o
      ";LARGE PURPLE SQUARE=01F7EA",
    ";LATIN CAPITAL LETTER E WITH CEDILLA=000228;ARMENIAN CAPITAL LETTER AYB=000531" \o
      ";ARMENIAN CAPITAL LETTER SHA=000547;SYRIAC LETTER MALAYALAM BHA=000866" \o
      ";DEVANAGARI LETTER VOCALIC R=00090B;BENGALI VOWEL SIGN E=0009C7;GURMUKHI LETTER PHA=000A2B" \o
      ";GURMUKHI LETTER LLA=000A33;KANNADA VOWEL SIGN I=000CBF;MYANMAR VOWEL SIGN KAYAH OE=001072" \o
      ";GEORGIAN CAPITAL LETTER HAR=0010C4;CANADIAN SYLLABICS FINAL MIDDLE DOT=001427" \o
      ";OL CHIKI DIGIT SEVEN=001C57;CYRILLIC SMALL LETTER UNBLENDED UK=001C88" \o
      ";COMBINING KAVYKA ABOVE LEFT=001DF7;LATIN SMALL LETTER D WITH DOT ABOVE=001E0B" \o
      ";GREEK SMALL LETTER ETA WITH DASIA AND VARIA=001F23;COUNTERSINK=002335" \o
      ";BOX DRAWINGS VERTICAL LIGHT AND LEFT HEAVY=002525" \o
      ";BOX DRAWINGS VERTICAL HEAVY AND LEFT LIGHT=002528;DOUBLE SQUARE UNION=002A4F" \o
      ";HANGUL LETTER PIEUP-TIKEUT=003173;BOPOMOFO LETTER ONG=0031B2;SQUARE GANMA=00330F" \o
      ";HEXAGRAM FOR DARKENING OF THE LIGHT=004DE3;BAMUM QUESTION MARK=00A6F7" \o
      ";KAYAH LI DIGIT SEVEN=00A907;HANGUL CHOSEONG RIEUL-SSANGTIKEUT=00A967" \o
      ";HALFWIDTH KATAKANA LETTER N=00FF9D;AEGEAN NUMBER SEVEN HUNDRED=01011F" \o
      ";OLD ITALIC LETTER KE=010302;UGARITIC LETTER TET=010389;OSMANYA LETTER MIIN=010491" \o
      ";CYPRIOT SYLLABLE NE=01081A;CYPRIOT SYLLABLE RA=010823;AVESTAN LETTER NGYE=010B23" \o
      ";AVESTAN LETTER SSHE=010B34;INSCRIPTIONAL PARTHIAN LETTER WAW=010B45" \o
      ";PSALTER PAHLAVI NUMBER ONE HUNDRED=010BAF;OLD TURKIC LETTER ORKHON AB=010C09" \o
      ";CHAKMA VOWEL SIGN II=011129;BHAIKSUKI LETTER UU=011C05;MARCHEN SUBJOINED LETTER CA=011C96" \o
      ";CUNEIFORM SIGN KA TIMES LUM=012383;CUNEIFORM NUMERIC SIGN ELAMITE TWO THIRDS=012466" \o
      ";CUNEIFORM SIGN SHE OVER SHE=012532;MEDEFAIDRIN SMALL LETTER OE=016E7A" \o
      ";KHITAN SMALL SCRIPT CHARACTER-18BAB=018BAB;KHITAN SMALL SCRIPT CHARACTER-18BBA=018BBA" \o
      ";KHITAN SMALL SCRIPT CHARACTER-18CAA=018CAA;BYZANTINE MUSICAL SYMBOL THES KAI APOTHES=01D079" \o
      ";MATHEMATICAL DOUBLE-STRUCK SMALL N=01D55F;MATHEMATICAL SANS-SERIF BOLD CAPITAL SIGMA=01D768" \o
      ";NYIAKENG PUACHUE HMONG LETTER NPLA=01E11E;REGIONAL INDICATOR SYMBOL LETTER A=01F1E6" \o
      ";HORSE RACING=01F3C7;BROKEN HEART=01F494;POUTING FACE=01F621" \o
      ";ALCHEMICAL SYMBOL FOR ANTIMONY ORE=01F72B;BOLD SALTIRE=01F7AB;JIGSAW PUZZLE PIECE=01F9E9" \o
      ";NEUTRAL CHESS ROOK ROTATED NINETY DEGREES=01FA17",
    ";END OF TRANSMISSION=000004;LATIN SMALL LETTER E WITH DOT ABOVE=000117" \o
      ";ARMENIAN CAPITAL LETTER GIM=000533;ARMENIAN CAPITAL LETTER PEH=00054A" \o
      ";NKO COMBINING LONG LOW TONE=0007F0;ORIYA SIGN ANUSVARA=000B02;MYANMAR LETTER TTHA=00100C" \o
      ";GEORGIAN CAPITAL LETTER MAN=0010AB;GEORGIAN CAPITAL LETTER HOE=0010C5" \o
      ";CANADIAN SYLLABICS A=00140A;OGHAM REVERSED FEATHER MARK=00169C" \o
      ";HERMITIAN CONJUGATE MATRIX=0022B9;HEADSTONE GRAVEYARD SYMBOL=0026FC" \o
      ";LARGE TRIPLE VERTICAL BAR OPERATOR=002AFC;GLAGOLITIC CAPITAL LETTER I=002C0B" \o
      ";KANGXI RADICAL CLIFF=002F1A;KANGXI RADICAL CHILD=002F26;KANGXI RADICAL FIELD=002F65" \o
      ";BOPOMOFO LETTER INN=0031AA;PARENTHESIZED HANGUL RIEUL=003203" \o
      ";IDEOGRAPHIC TELEGRAPH SYMBOL FOR NOVEMBER=0032CA;SQUARE ANPEA=003302" \o
      ";LATIN EPIGRAPHIC LETTER SIDEWAYS I=00A7F7;ARABIC LIGATURE ALAYHIMAA AS-SALAAM=00FD49" \o
      ";ARABIC LIGATURE HAH WITH MEEM WITH ALEF MAKSURA FINAL FORM=00FD5B" \o
      ";ARABIC LIGATURE NOON WITH JEEM WITH YEH FINAL FORM=00FDC7;HALFWIDTH KATAKANA LETTER O=00FF75" \o
      ";GREEK ACROPHONIC ATTIC TEN STATERS=010150;OLD ITALIC LETTER EL=01030B" \o
      ";CYPRIOT SYLLABLE KI=01080C;CYPRIOT SYLLABLE SA=010828;MARCHEN SUBJOINED LETTER DA=011C9C" \o
      ";CUNEIFORM SIGN MUSH=012232;CUNEIFORM SIGN LAK-617 TIMES DUN3 GUNU GUNU=012504" \o
      ";MEDEFAIDRIN SMALL LETTER NG=016E77;KHITAN SMALL SCRIPT CHARACTER-18BAC=018BAC" \o
      ";KHITAN SMALL SCRIPT CHARACTER-18BBB=018BBB;KHITAN SMALL SCRIPT CHARACTER-18BCA=018BCA" \o
      ";KHITAN SMALL SCRIPT CHARACTER-18CAB=018CAB;KHITAN SMALL SCRIPT CHARACTER-18CBA=018CBA" \o
      ";MATHEMATICAL DOUBLE-STRUCK SMALL O=01D560;MATHEMATICAL BOLD ITALIC SMALL BETA=01D737" \o
      ";MATHEMATICAL BOLD DIGIT TWO=01D7D0;MATHEMATICAL SANS-SERIF DIGIT ZERO=01D7E2" \o
      ";REGIONAL INDICATOR SYMBOL LETTER B=01F1E7;BALLET SHOES=01FA70" \o
      ";UPPER LEFT TRIANGULAR MEDIUM SHADE=01FB9C",
    ";LATIN CAPITAL LETTER G WITH CEDILLA=000122;ARMENIAN CAPITAL LETTER KEN=00053F" \o
      ";SYRIAC HARKLEAN ASTERISCUS=00070D;SAMARITAN VOWEL SIGN LONG I=000829" \o
      ";ARABIC OPEN DAMMATAN=0008F1;THAI CHARACTER SO SO=000E0B;HANGUL JUNGSEONG YO=00116D" \o
      ";LATIN SMALL LETTER E WITH CEDILLA AND BREVE=001E1D;LATIN SMALL LETTER F WITH DOT ABOVE=001E1F" \o
      ";GREEK CAPITAL LETTER ALPHA WITH DASIA AND OXIA AND PROSGEGRAMMENI=001F8D" \o
      ";COMBINING REVERSE SOLIDUS OVERLAY=0020E5;TURNED SANS-SERIF CAPITAL L=002142" \o
      ";RIGHTWARDS ARROW WITH HOOK=0021AA;RIGHT ANGLE WITH ARC=0022BE;BENZENE RING=00232C" \o
      ";QUADRANT UPPER LEFT=002598;TRIGRAM FOR THUNDER=002633;COPTIC OLD NUBIAN FULL STOP=002CF9" \o
      ";CJK RADICAL CIVILIAN=002EA0;SAURASHTRA LETTER I=00A884;ASCIA SYMBOL=01019C" \o
      ";OLD ITALIC LETTER EM=01030C;OLD ITALIC LETTER II=01031D;SHAVIAN LETTER OOZE=010475" \o
      ";CYPRIOT SYLLABLE LI=010811;CYPRIOT SYLLABLE PE=01081F;CYPRIOT SYLLABLE TA=01082D" \o
      ";INSCRIPTIONAL PARTHIAN LETTER NUN=010B4D;OLD TURKIC LETTER ORKHON AD=010C11" \o
      ";SHARADA VOWEL SIGN E=0111BC;COMBINING GRANTHA LETTER KA=011371;NEWA INSERTION SIGN=01145D" \o
      ";WARANG CITI SMALL LETTER PU=0118D8;CUNEIFORM SIGN KA TIMES SHU=012183" \o
      ";CUNEIFORM SIGN KA TIMES USH=01218B;CUNEIFORM SIGN LU2 TIMES ME PLUS EN=01220B" \o
      ";BAMUM LETTER PHASE-E NGKEUX=01697F;BASSA VAH LETTER GBU=016ADD" \o
      ";KHITAN SMALL SCRIPT CHARACTER-18BAD=018BAD;KHITAN SMALL SCRIPT CHARACTER-18BBC=018BBC" \o
      ";KHITAN SMALL SCRIPT CHARACTER-18BCB=018BCB;KHITAN SMALL SCRIPT CHARACTER-18BDA=018BDA" \o
      ";KHITAN SMALL SCRIPT CHARACTER-18CAC=018CAC;KHITAN SMALL SCRIPT CHARACTER-18CBB=018CBB" \o
      ";KHITAN SMALL SCRIPT CHARACTER-18CCA=018CCA;BYZANTINE MUSICAL SYMBOL YPOKRISIS DIPLI=01D00B" \o
      ";BYZANTINE MUSICAL SYMBOL KOUFISMA=01D04A;BYZANTINE MUSICAL SYMBOL IMIFONON=01D0B7" \o
      ";BYZANTINE MUSICAL SYMBOL KENTIMA NEO MESO=01D0F1;TETRAGRAM FOR DIMINISHMENT=01D33C" \o
      ";MATHEMATICAL DOUBLE-STRUCK SMALL P=01D561;ADLAM SMALL LETTER O=01E92E;SQUARED FREE=01F193" \o
      ";REGIONAL INDICATOR SYMBOL LETTER C=01F1E8;SLOT MACHINE=01F3B0",
    ";LATIN SMALL LETTER G WITH DOT ABOVE=000121;LATIN SMALL LETTER TURNED E=0001DD" \o
      ";LATIN CAPITAL LETTER A WITH INVERTED BREVE=000202;ARMENIAN CAPITAL LETTER REH=000550" \o
      ";HEBREW LETTER ZAYIN=0005D6;ARABIC SUKUN=000652;GURMUKHI LETTER SHA=000A36" \o
      ";MALAYALAM LETTER VOCALIC LL=000D61;MYANMAR VOWEL SIGN AITON AI=00109D" \o
      ";CANADIAN SYLLABICS C=0014A1;MONGOLIAN LETTER MANCHU ALI GALI TA=0018A0" \o
      ";LATIN CAPITAL LETTER H WITH CEDILLA=001E28;LATIN SMALL LETTER LONG S WITH HIGH STROKE=001E9D" \o
      ";POP DIRECTIONAL FORMATTING=00202C;DOUBLE PRIME=002033" \o
      ";SINGLE LEFT-POINTING ANGLE QUOTATION MARK=002039;GUARANI SIGN=0020B2" \o
      ";COMBINING RIGHTWARDS HARPOON WITH BARB DOWNWARDS=0020EC" \o
      ";PARENTHESIZED LATIN SMALL LETTER A=00249C;HEAVY WIDE-HEADED RIGHTWARDS ARROW=002794" \o
      ";MEASURED ANGLE OPENING LEFT=00299B;CJK RADICAL C-SIMPLIFIED EAT=002EE0" \o
      ";KANGXI RADICAL DEATH=002F4D;IDEOGRAPHIC LEVEL TONE MARK=00302A" \o
      ";PARENTHESIZED HANGUL PIEUP=003205;IDEOGRAPHIC TELEGRAPH SYMBOL FOR FEBRUARY=0032C1" \o
      ";ARABIC LIGATURE SHEEN WITH ALEF MAKSURA FINAL FORM=00FD19;FULLWIDTH DIGIT SIX=00FF16" \o
      ";FULLWIDTH RIGHT WHITE PARENTHESIS=00FF60;OLD ITALIC LETTER EN=01030D" \o
      ";OLD PERMIC LETTER HA=01036C;CYPRIOT SYLLABLE MI=010816;OLD TURKIC LETTER YENISEI A=010C01" \o
      ";CUNEIFORM SIGN AL TIMES USH=012028;CUNEIFORM SIGN KA TIMES NUN=01217B" \o
      ";CUNEIFORM SIGN SAG TIMES UM=0122A4;CUNEIFORM SIGN U U U=01230D" \o
      ";BAMUM LETTER PHASE-A PON PA NJI PIPAEMGBIEE=016809;KHITAN SMALL SCRIPT CHARACTER-18BAE=018BAE" \o
      ";KHITAN SMALL SCRIPT CHARACTER-18BBD=018BBD;KHITAN SMALL SCRIPT CHARACTER-18BCC=018BCC" \o
      ";KHITAN SMALL SCRIPT CHARACTER-18BDB=018BDB;KHITAN SMALL SCRIPT CHARACTER-18BEA=018BEA" \o
      ";KHITAN SMALL SCRIPT CHARACTER-18CAD=018CAD;KHITAN SMALL SCRIPT CHARACTER-18CBC=018CBC" \o
      ";KHITAN SMALL SCRIPT CHARACTER-18CCB=018CCB;BYZANTINE MUSICAL SYMBOL KREMASTI=01D00C" \o
      ";MATHEMATICAL DOUBLE-STRUCK SMALL Q=01D562;MATHEMATICAL BOLD ITALIC CAPITAL PI=01D72B" \o
      ";MATHEMATICAL MONOSPACE DIGIT THREE=01D7F9;SIGNWRITING MOVEMENT-HINGE UP SEQUENTIAL=01D923" \o
      ";DOMINO TILE HORIZONTAL-00-00=01F031;REGIONAL INDICATOR SYMBOL LETTER D=01F1E9" \o
      ";BLACK SLIGHTLY SMALL CIRCLE=01F784;LARGE YELLOW SQUARE=01F7E8",
    ";MODIFIER LETTER LOW LEFT ARROWHEAD=0002F1;GREEK SMALL LETTER UPSILON WITH DIALYTIKA=0003CB" \o
      ";CYRILLIC CAPITAL LETTER CHE=000427;ARMENIAN CAPITAL LETTER INI=00053B" \o
      ";ARMENIAN CAPITAL LETTER MEN=000544;ARMENIAN CAPITAL LETTER SEH=00054D" \o
      ";SYRIAC SUBLINEAR COLON SKEWED LEFT=000709" \o
      ";ARABIC LETTER SEEN WITH TWO DOTS VERTICALLY ABOVE=00076D;BENGALI VOWEL SIGN I=0009BF" \o
      ";GURMUKHI LETTER NNA=000A23;GURMUKHI LETTER THA=000A25;GURMUKHI DIGIT FOUR=000A6A" \o
      ";ORIYA SIGN OVERLINE=000B55;KANNADA SIGN SIDDHAM=000C84;GEORGIAN CAPITAL LETTER JIL=0010BB" \o
      ";OGHAM LETTER EABHADH=001695;GREEK SUBSCRIPT SMALL LETTER GAMMA=001D67" \o
      ";COMBINING LATIN SMALL LETTER O WITH LIGHT CENTRALIZATION STROKE=001DED" \o
      ";LATIN SMALL LETTER H WITH DOT ABOVE=001E23;BITCOIN SIGN=0020BF" \o
      ";UPWARDS ARROW WITH TIP RIGHTWARDS=0021B1;APL FUNCTIONAL SYMBOL CIRCLE STILE=00233D" \o
      ";SYMBOL FOR LINE FEED=00240A;PARENTHESIZED LATIN SMALL LETTER B=00249D" \o
      ";BLACK DOWN-POINTING SMALL TRIANGLE=0025BE;TURNED ANGLE=0029A2;SUBSET ABOVE SUBSET=002AD5" \o
      ";RIGHTWARDS ARROW WITH TIP UPWARDS=002B0F;HEAVY OVAL WITH OVAL INSIDE=002B56" \o
      ";LATIN SMALL LETTER P WITH FLOURISH=00A753;CHAM LETTER FINAL SS=00AA4B" \o
      ";ARABIC LIGATURE NOON WITH MEEM WITH YEH FINAL FORM=00FD9A;ARABIC LETTER DAD FINAL FORM=00FEBE" \o
      ";OLD PERMIC LETTER IA=010375;UGARITIC LETTER NUN=010390;OLD PERSIAN SIGN AURAMAZDAA=0103C8" \o
      ";SHAVIAN LETTER SURE=010456;SHAVIAN LETTER HA-HA=010463;OSAGE SMALL LETTER A=0104D8" \o
      ";CYPRIOT SYLLABLE NI=01081B;CYPRIOT SYLLABLE RE=010824;INSCRIPTIONAL PARTHIAN NUMBER TWO=010B59" \o
      ";PSALTER PAHLAVI FOUR DOTS WITH DOT=010B9C;HANIFI ROHINGYA DIGIT THREE=010D33" \o
      ";CHAKMA VOWEL SIGN AU=01112F;MARCHEN SUBJOINED LETTER GA=011C94" \o
      ";CUNEIFORM SIGN A TIMES MUSH=012007;CUNEIFORM SIGN DAG KISIM5 TIMES GUD=01205F" \o
      ";CUNEIFORM SIGN GA2 TIMES GI4=0120CE;CUNEIFORM SIGN MUSH TIMES A=012233" \o
      ";CUNEIFORM SIGN ZAMX=012361;BAMUM LETTER PHASE-B NSHUET=016857" \o
      ";MEDEFAIDRIN SMALL LETTER HP=016E76;KHITAN SMALL SCRIPT CHARACTER-18BAF=018BAF" \o
      ";KHITAN SMALL SCRIPT CHARACTER-18BBE=018BBE;KHITAN SMALL SCRIPT CHARACTER-18BCD=018BCD" \o
      ";KHITAN SMALL SCRIPT CHARACTER-18BDC=018BDC;KHITAN SMALL SCRIPT CHARACTER-18BEB=018BEB" \o
      ";KHITAN SMALL SCRIPT CHARACTER-18BFA=018BFA;KHITAN SMALL SCRIPT CHARACTER-18CAE=018CAE" \o
      ";KHITAN SMALL SCRIPT CHARACTER-18CBD=018CBD;KHITAN SMALL SCRIPT CHARACTER-18CCC=018CCC" \o
      ";BYZANTINE MUSICAL SYMBOL KATHISTI=01D007" \o
      ";MUSICAL SYMBOL TEMPUS PERFECTUM CUM PROLATIONE PERFECTA=01D1C7" \o
      ";COUNTING ROD TENS DIGIT ONE=01D369;MATHEMATICAL SCRIPT SMALL A=01D4B6" \o
      ";MATHEMATICAL DOUBLE-STRUCK SMALL R=01D563" \o
      ";SIGNWRITING HAND-FIST INDEX THUMB SIDE THUMB BENT=01D8E0;DOMINO TILE HORIZONTAL-00-01=01F032" \o
      ";DOMINO TILE HORIZONTAL-01-00=01F038;REGIONAL INDICATOR SYMBOL LETTER E=01F1EA" \o
      ";FACE WITH STUCK-OUT TONGUE AND WINKING EYE=01F61C;UPWARDS TRIANGLE ARROWHEAD=01F891",
    ";COMBINING DOUBLE RING BELOW=00035A;TAMIL AU LENGTH MARK=000BD7" \o
      ";GEORGIAN CAPITAL LETTER LAS=0010AA;CANADIAN SYLLABICS E=001401;RUNIC LETTER HAEGL H=0016BB" \o
      ";MONGOLIAN FOUR DOTS=001805;TAI THAM LETTER RANA=001A31;LATIN SMALL LETTER TURNED G=001D77" \o
      ";GREEK CAPITAL LETTER OMEGA WITH DASIA AND OXIA AND PROSGEGRAMMENI=001FAD;CIRCLED PLUS=002295" \o
      ";PARENTHESIZED LATIN SMALL LETTER C=00249E;NEGATIVE CIRCLED DIGIT ZERO=0024FF" \o
      ";BOX DRAWINGS LIGHT TRIPLE DASH HORIZONTAL=002504" \o
      ";RIGHTWARDS TWO-HEADED ARROW WITH VERTICAL STROKE=002900" \o
      ";RIGHT SQUARE BRACKET WITH UNDERBAR=00298C;BLACK MEDIUM DIAMOND=002B25" \o
      ";COPTIC CAPITAL LETTER OLD COPTIC HA=002CCE;INVERTED LOW KAVYKA=002E45" \o
      ";KANGXI RADICAL TABLE=002F0F;KANGXI RADICAL SHORT THREAD=002F33;YI RADICAL GA=00A4A1" \o
      ";LINEAR B IDEOGRAM B121 BARLEY=01008F;AEGEAN NUMBER FIVE THOUSAND=010126" \o
      ";AEGEAN NUMBER NINE THOUSAND=01012A;OLD ITALIC LETTER PE=010310;GOTHIC LETTER TEIWS=010344" \o
      ";OLD PERMIC LETTER EF=01036B;CYPRIOT SYLLABLE SE=010829;CYPRIOT SYLLABLE WA=010832" \o
      ";MEROITIC CURSIVE NUMBER SEVENTY THOUSAND=0109EA;OLD TURKIC LETTER ORKHON AG=010C0D" \o
      ";OLD TURKIC LETTER ORKHON EC=010C32;KAITHI VOWEL SIGN AA=0110B0;MAHAJANI LETTER DDHA=011161" \o
      ";COMBINING GRANTHA LETTER NA=011372;WARANG CITI SMALL LETTER YO=0118C5" \o
      ";MARCHEN SUBJOINED LETTER HA=011CAE;PAHAWH HMONG SIGN AV=016B6C" \o
      ";KHITAN SMALL SCRIPT CHARACTER-18BBF=018BBF;KHITAN SMALL SCRIPT CHARACTER-18BCE=018BCE" \o
      ";KHITAN SMALL SCRIPT CHARACTER-18BDD=018BDD;KHITAN SMALL SCRIPT CHARACTER-18BEC=018BEC" \o
      ";KHITAN SMALL SCRIPT CHARACTER-18BFB=018BFB;KHITAN SMALL SCRIPT CHARACTER-18CAF=018CAF" \o
      ";KHITAN SMALL SCRIPT CHARACTER-18CBE=018CBE;KHITAN SMALL SCRIPT CHARACTER-18CCD=018CCD" \o
      ";ZNAMENNY NEUME DVA V CHELNU=01CF53;MUSICAL SYMBOL COMBINING TREMOLO-1=01D167" \o
      ";IDEOGRAPHIC TALLY MARK FIVE=01D376;MATHEMATICAL SCRIPT SMALL B=01D4B7" \o
      ";MATHEMATICAL DOUBLE-STRUCK SMALL S=01D564;MATHEMATICAL BOLD PI SYMBOL=01D6E1" \o
      ";MATHEMATICAL SANS-SERIF BOLD CAPITAL THETA=01D75D;SIGNWRITING HAND-FIST INDEX HINGED=01D80B" \o
      ";SIGNWRITING HAND-FIST INDEX MIDDLE=01D80E;SIGNWRITING DREAMY EYEBROWS NEUTRAL DOWN=01DA0D" \o
      ";SIGNWRITING DREAMY EYEBROWS DOWN NEUTRAL=01DA0E;MAHJONG TILE CHRYSANTHEMUM=01F025" \o
      ";DOMINO TILE HORIZONTAL-00-02=01F033;DOMINO TILE HORIZONTAL-01-01=01F039" \o
      ";DOMINO TILE HORIZONTAL-02-00=01F03F;REGIONAL INDICATOR SYMBOL LETTER F=01F1EB" \o
      ";CLOCKWISE RIGHTWARDS AND LEFTWARDS OPEN CIRCLE ARROWS WITH CIRCLED ONE OVERLAY=01F502" \o
      ";ALCHEMICAL SYMBOL FOR NIGHT=01F76F",
    ";LATIN CAPITAL LETTER K WITH CEDILLA=000136;LATIN SMALL LETTER TURNED H=000265" \o
      ";MODIFIER LETTER SMALL GAMMA=0002E0;ARABIC OPEN FATHATAN=0008F0;ORIYA AI LENGTH MARK=000B56" \o
      ";ORIYA VOWEL SIGN VOCALIC LL=000B63;KANNADA VOWEL SIGN O=000CCA;MYANMAR LETTER NNYA=00100A" \o
      ";GEORGIAN CAPITAL LETTER DON=0010A3;GEORGIAN CAPITAL LETTER NAR=0010AC" \o
      ";CANADIAN SYLLABICS F=00155D;OGHAM LETTER EADHADH=001693;VEDIC SIGN VISARGA ANUDATTA=001CE5" \o
      ";GREEK SMALL LETTER ALPHA WITH DASIA=001F01;SYMBOL FOR GROUP SEPARATOR=00241D" \o
      ";PARENTHESIZED LATIN SMALL LETTER D=00249F;MEDIUM LEFT CURLY BRACKET ORNAMENT=002774" \o
      ";INTEGRAL WITH UNION=002A1A;LESS-THAN WITH QUESTION MARK ABOVE=002A7B;SMALLER THAN=002AAA" \o
      ";DIAMOND WITH LEFT HALF BLACK=002B16;ANTICLOCKWISE TRIANGLE-HEADED LEFT U-SHAPED ARROW=002B8E" \o
      ";RIGHT DOTTED SUBSTITUTION BRACKET=002E05;CJK RADICAL C-SIMPLIFIED SEE=002EC5" \o
      ";REJANG VOWEL SIGN EA=00A94E;LATIN SMALL LETTER X WITH LONG LEFT LEG AND LOW RIGHT RING=00AB58" \o
      ";SHAVIAN LETTER WOOL=01046B;CYPRIOT SYLLABLE JO=010808;CYPRIOT SYLLABLE PI=010820" \o
      ";CYPRIOT SYLLABLE TE=01082E;CYPRIOT SYLLABLE XA=010837;AVESTAN LETTER SHYE=010B33" \o
      ";SOGDIAN COMBINING DOT BELOW=010F46;BRAHMI VOWEL SIGN AI=011043;CHAKMA VOWEL SIGN OI=011130" \o
      ";SHARADA VOWEL SIGN I=0111B4;SHARADA VOWEL MODIFIER MARK=0111CB;MULTANI LETTER TTHA=011291" \o
      ";PAU CIN HAU SANDHI TONE LONG=011AEB;MASARAM GONDI VOWEL SIGN UU=011D35" \o
      ";GUNJALA GONDI VOWEL SIGN UU=011D8E;KHITAN SMALL SCRIPT CHARACTER-18BCF=018BCF" \o
      ";KHITAN SMALL SCRIPT CHARACTER-18BDE=018BDE;KHITAN SMALL SCRIPT CHARACTER-18BED=018BED" \o
      ";KHITAN SMALL SCRIPT CHARACTER-18BFC=018BFC;KHITAN SMALL SCRIPT CHARACTER-18CBF=018CBF" \o
      ";KHITAN SMALL SCRIPT CHARACTER-18CCE=018CCE;ZNAMENNY NEUME PAUK=01CFC3" \o
      ";MUSICAL SYMBOL COMBINING TREMOLO-2=01D168;MUSICAL SYMBOL NEBENSTIMME=01D1A7" \o
      ";MATHEMATICAL SCRIPT SMALL C=01D4B8;MATHEMATICAL DOUBLE-STRUCK SMALL T=01D565" \o
      ";DOMINO TILE HORIZONTAL-00-03=01F034;DOMINO TILE HORIZONTAL-01-02=01F03A" \o
      ";DOMINO TILE HORIZONTAL-02-01=01F040;DOMINO TILE HORIZONTAL-03-00=01F046" \o
      ";PLAYING CARD ACE OF DIAMONDS=01F0C1;REGIONAL INDICATOR SYMBOL LETTER G=01F1EC" \o
      ";LEVEL SLIDER=01F39A;FACE WITH COWBOY HAT=01F920;BAGEL=01F96F;PREGNANT MAN=01FAC3" \o
      ";DOWNWARDS ARROW AND RIGHT ONE EIGHTH BLOCK=01FBB7;TAG REVERSE SOLIDUS=0E005C",
    ";LATIN CAPITAL LETTER L WITH CEDILLA=00013B;LATIN CAPITAL LETTER E WITH INVERTED BREVE=000206" \o
      ";CYRILLIC CAPITAL LETTER DJE=000402;ARABIC SMALL LOW WAW=0008D3" \o
      ";GEORGIAN CAPITAL LETTER SAN=0010B1;HANGUL JONGSEONG YESIEUNG-PANSIOS=0011F2" \o
      ";LIMBU QUESTION MARK=001945;BALINESE VOWEL SIGN LA LENGA TEDUNG=001B3D" \o
      ";LATIN SMALL LETTER TURNED I=001D09;LATIN CAPITAL LETTER A WITH BREVE AND ACUTE=001EAE" \o
      ";LATIN CAPITAL LETTER A WITH BREVE AND TILDE=001EB4;SERVICE MARK=002120" \o
      ";QUESTIONED EQUAL TO=00225F;BOTTOM RIGHT CORNER=00231F;PARENTHESIZED LATIN SMALL LETTER E=0024A0" \o
      ";RIGHTWARDS HARPOON WITH BARB UP ABOVE RIGHTWARDS HARPOON WITH BARB DOWN=002964" \o
      ";LESS-THAN ABOVE SIMILAR ABOVE GREATER-THAN=002A8F" \o
      ";GREATER-THAN ABOVE SIMILAR ABOVE LESS-THAN=002A90;IDEOGRAPHIC ANNOTATION HEAVEN MARK=00319D" \o
      ";BOPOMOFO LETTER ONN=0031A7;PHAGS-PA LETTER CANDRABINDU=00A873" \o
      ";HANGUL JONGSEONG SSANGSIOS-KIYEOK=00D7EC;ARABIC LETTER KIRGHIZ OE FINAL FORM=00FBE1" \o
      ";SMALL QUESTION MARK=00FE56;HALFWIDTH KATAKANA LETTER U=00FF73;OLD ITALIC LETTER ER=010313" \o
      ";CYPRIOT SYLLABLE KO=01080D;OLD TURKIC LETTER YENISEI E=010C05" \o
      ";BRAHMI VOWEL SIGN OLD TAMIL SHORT E=011073;COMBINING GRANTHA LETTER PA=011374" \o
      ";WARANG CITI SMALL LETTER UU=0118C7;ZANABAZAR SQUARE SUBJOINER=011A47" \o
      ";MARCHEN SUBJOINED LETTER JA=011C98;CUNEIFORM SIGN GA2 TIMES BAD=0120BF" \o
      ";BAMUM LETTER PHASE-E FU CALL=0169D2;MEDEFAIDRIN SMALL LETTER KP=016E66" \o
      ";KHITAN SMALL SCRIPT CHARACTER-18BDF=018BDF;KHITAN SMALL SCRIPT CHARACTER-18BEE=018BEE" \o
      ";KHITAN SMALL SCRIPT CHARACTER-18BFD=018BFD;KHITAN SMALL SCRIPT CHARACTER-18CCF=018CCF" \o
      ";MUSICAL SYMBOL COMBINING TREMOLO-3=01D169;MUSICAL SYMBOL MINIMA BLACK=01D1BC" \o
      ";MATHEMATICAL SCRIPT SMALL D=01D4B9;MATHEMATICAL DOUBLE-STRUCK SMALL U=01D566" \o
      ";SIGNWRITING HAND-ANGLE INDEX THUMB=01D8F4;MENDE KIKAKUI SYLLABLE M142 LONG MBO=01E89E" \o
      ";DOMINO TILE HORIZONTAL-00-04=01F035;DOMINO TILE HORIZONTAL-01-03=01F03B" \o
      ";DOMINO TILE HORIZONTAL-02-02=01F041;DOMINO TILE HORIZONTAL-03-01=01F047" \o
      ";DOMINO TILE HORIZONTAL-04-00=01F04D;REGIONAL INDICATOR SYMBOL LETTER H=01F1ED" \o
      ";LAST QUARTER MOON WITH FACE=01F31C;FACE THROWING A KISS=01F618" \o
      ";HEAVY INTERROBANG ORNAMENT=01F679;ALCHEMICAL SYMBOL FOR BORAX=01F742" \o
      ";RIGHTWARDS HEAVY COMPRESSED ARROW=01F842",
    ";LATIN SMALL LETTER SCRIPT G=000261;CYRILLIC CAPITAL LETTER GHE=000413" \o
      ";GURMUKHI DIGIT ZERO=000A66;TELUGU FRACTION DIGIT TWO FOR EVEN POWERS OF FOUR=000C7D" \o
      ";TIBETAN SUBJOINED LETTER BA=000FA6;GEORGIAN CAPITAL LETTER TAN=0010A7" \o
      ";GEORGIAN CAPITAL LETTER PAR=0010AE;HANGUL JUNGSEONG YU=001172;MONGOLIAN FULL STOP=001803" \o
      ";COMBINING NUMBER SIGN ABOVE=001AC6;ROMAN NUMERAL REVERSED ONE HUNDRED=002183" \o
      ";OPEN-CIRCUIT-OUTPUT H-TYPE SYMBOL=00238F;PARENTHESIZED LATIN SMALL LETTER F=0024A1" \o
      ";TIGHT TRIFOLIATE SNOWFLAKE=002745;DINGBAT NEGATIVE CIRCLED DIGIT FIVE=00277A" \o
      ";DINGBAT NEGATIVE CIRCLED DIGIT NINE=00277E;RULE-DELAYED=0029F4;NEWLINE LEFT=002B92" \o
      ";SAURASHTRA LETTER O=00A88F;LATIN SMALL LETTER X WITH LONG LEFT LEG WITH SERIF=00AB59" \o
      ";ARABIC LIGATURE AIN WITH MEEM WITH ALEF MAKSURA FINAL FORM=00FD78;OLD ITALIC LETTER ES=010314" \o
      ";OLD PERMIC LETTER IE=010372;OSAGE SMALL LETTER E=0104DF;CYPRIOT SYLLABLE LO=010812" \o
      ";CYPRIOT SYLLABLE RI=010825;CYPRIOT SYLLABLE ZA=01083C;IMPERIAL ARAMAIC LETTER TAW=010855" \o
      ";BRAHMI NUMBER SIXTY=011060;SIDDHAM VOWEL SIGN E=0115B8;MARCHEN SUBJOINED LETTER KA=011C92" \o
      ";CUNEIFORM SIGN HI TIMES NUN=012134;CUNEIFORM SIGN SAG TIMES UR=0122A5" \o
      ";CUNEIFORM SIGN UMUM=012323;CUNEIFORM SIGN HA TENU GUNU=0124CE" \o
      ";CUNEIFORM SIGN ZU OVER ZU PLUS SAR=012542;BAMUM LETTER PHASE-B KEUPUQ=01686E" \o
      ";KHITAN SMALL SCRIPT CHARACTER-18BEF=018BEF;KHITAN SMALL SCRIPT CHARACTER-18BFE=018BFE" \o
      ";BYZANTINE MUSICAL SYMBOL KONTEVMA=01D03A;BYZANTINE MUSICAL SYMBOL TETRAPLI=01D088" \o
      ";MUSICAL SYMBOL LONGA PERFECTA REST=01D1C1;MATHEMATICAL DOUBLE-STRUCK SMALL V=01D567" \o
      ";SIGNWRITING HAND-HOOK MIDDLE THUMB=01D8CA;ADLAM SMALL LETTER U=01E935" \o
      ";DOMINO TILE HORIZONTAL-00-05=01F036;DOMINO TILE HORIZONTAL-01-04=01F03C" \o
      ";DOMINO TILE HORIZONTAL-02-03=01F042;DOMINO TILE HORIZONTAL-03-02=01F048" \o
      ";DOMINO TILE HORIZONTAL-04-01=01F04E;DOMINO TILE HORIZONTAL-05-00=01F054" \o
      ";REGIONAL INDICATOR SYMBOL LETTER I=01F1EE;FRIED SHRIMP=01F364;CRYSTAL BALL=01F52E" \o
      ";LOWER LEFT BLOCK DIAGONAL UPPER MIDDLE LEFT TO LOWER MIDDLE RIGHT=01FB51",
    ";LATIN CAPITAL LETTER N WITH CEDILLA=000145;LATIN SMALL LETTER TURNED K=00029E" \o
      ";CYRILLIC SMALL LETTER YERU WITH DIAERESIS=0004F9;CYRILLIC CAPITAL LETTER LHA=000514" \o
      ";ARMENIAN CAPITAL LETTER XEH=00053D;ARABIC TRIPLE DOT PUNCTUATION MARK=00061E" \o
      ";SYRIAC RWAHA=00073F;DEVANAGARI SIGN CANDRABINDU=000901;GUJARATI SIGN SUKUN=000AFA" \o
      ";TIBETAN SUBJOINED LETTER CA=000F95;GEORGIAN CAPITAL LETTER QAR=0010B7" \o
      ";CANADIAN SYLLABICS I=001403;MONGOLIAN LETTER MANCHU ALI GALI ZA=0018A5" \o
      ";CANADIAN SYLLABICS FINAL RAISED DOT=0018DF;MODIFIER LETTER SMALL ALPHA=001D45" \o
      ";LATIN SMALL LETTER M WITH DOT ABOVE=001E41;LATIN SMALL LETTER A WITH DOT BELOW=001EA1" \o
      ";GREEK SMALL LETTER OMEGA WITH DASIA=001F61;NABLA=002207;BLANK SYMBOL=002422" \o
      ";PARENTHESIZED LATIN SMALL LETTER G=0024A2;RISING DIAGONAL CROSSING SOUTH EAST ARROW=002930" \o
      ";EQUALS SIGN ABOVE PLUS SIGN=002A71;PLUS SIGN ABOVE EQUALS SIGN=002A72" \o
      ";CIRCLED HANGUL CIEUC=003268;ARABIC LETTER GAF FINAL FORM=00FB93" \o
      ";ARABIC LIGATURE TEH WITH KHAH WITH ALEF MAKSURA FINAL FORM=00FDA2;FULLWIDTH DIGIT TWO=00FF12" \o
      ";OLD ITALIC LETTER TE=010315;OLD PERMIC LETTER AN=010350;OLD PERSIAN SIGN SHA=0103C1" \o
      ";CYPRIOT SYLLABLE MO=010817;CYPRIOT SYLLABLE SI=01082A;CYPRIOT SYLLABLE WE=010833" \o
      ";OLD TURKIC LETTER ORKHON IC=010C31;MARCHEN SUBJOINED LETTER LA=011CAB" \o
      ";MIAO VOWEL SIGN ROUNDED ERR=016F76;KHITAN SMALL SCRIPT CHARACTER-18BFF=018BFF" \o
      ";BYZANTINE MUSICAL SYMBOL VAREIAI ARCHAION=01D021;BYZANTINE MUSICAL SYMBOL PELASTON=01D038" \o
      ";MATHEMATICAL SCRIPT SMALL F=01D4BB;MATHEMATICAL DOUBLE-STRUCK SMALL W=01D568" \o
      ";SIGNWRITING MOVEMENT-HINGE SIDE TO SIDE SCISSORS=01D927;DOMINO TILE HORIZONTAL-00-06=01F037" \o
      ";DOMINO TILE HORIZONTAL-01-05=01F03D;DOMINO TILE HORIZONTAL-02-04=01F043" \o
      ";DOMINO TILE HORIZONTAL-03-03=01F049;DOMINO TILE HORIZONTAL-04-02=01F04F" \o
      ";DOMINO TILE HORIZONTAL-05-01=01F055;DOMINO TILE HORIZONTAL-06-00=01F05B" \o
      ";REGIONAL INDICATOR SYMBOL LETTER J=01F1EF;BREAD=01F35E;CELTIC CROSS=01F548" \o
      ";SIDEWAYS BLACK DOWN POINTING INDEX=01F5A1;EAGLE=01F985",
    ";CYRILLIC CAPITAL LETTER GJE=000403;BENGALI VOWEL SIGN O=0009CB" \o
      ";BENGALI CURRENCY NUMERATOR ONE LESS THAN THE DENOMINATOR=0009F8" \o
      ";TIBETAN SUBJOINED LETTER DA=000FA1;OL CHIKI MU-GAAHLAA TTUDDAAG=001C7A" \o
      ";VEDIC TONE YAJURVEDIC INDEPENDENT SVARITA=001CD6" \o
      ";COMBINING LATIN SMALL LETTER U WITH LIGHT CENTRALIZATION STROKE=001DF0" \o
      ";LATIN SMALL LETTER B WITH DOT BELOW=001E05;LATIN SMALL LETTER N WITH DOT ABOVE=001E45" \o
      ";LATIN CAPITAL LETTER A WITH BREVE AND GRAVE=001EB0;ROMAN NUMERAL SIX LATE FORM=002185" \o
      ";GREATER-THAN BUT NOT EQUIVALENT TO=0022E7;PARENTHESIZED LATIN SMALL LETTER H=0024A3" \o
      ";BOX DRAWINGS HEAVY TRIPLE DASH HORIZONTAL=002505;OUTLINED WHITE STAR=00269D;WRITING HAND=00270D" \o
      ";DOUBLE VERTICAL BAR LEFT TURNSTILE=002AE3;VERTICAL BAR DOUBLE LEFT TURNSTILE=002AE4" \o
      ";COPTIC CAPITAL LETTER LAULA=002C96;TURNED COMMA=002E32;KANGXI RADICAL KNIFE=002F11" \o
      ";SQUARE DAASU=003324;SQUARE YAADO=00334E;CYRILLIC SMALL LETTER IOTIFIED YAT=00A653" \o
      ";MODIFIER LETTER EXTRA-HIGH DOTTED TONE BAR=00A708;LATIN SMALL LETTER TURNED L=00A781" \o
      ";REJANG VOWEL SIGN AI=00A94A;ARABIC LIGATURE YEH WITH HAMZA ABOVE WITH MEEM MEDIAL FORM=00FCDF" \o
      ";PRESENTATION FORM FOR VERTICAL LEFT ANGLE BRACKET=00FE3F;ARABIC LETTER BEH FINAL FORM=00FE90" \o
      ";OLD PERSIAN SIGN THA=0103B0;CYPRIOT SYLLABLE NO=01081C;CYPRIOT SYLLABLE TI=01082F" \o
      ";CYPRIOT SYLLABLE XE=010838;OLD TURKIC LETTER ORKHON AL=010C1E" \o
      ";OLD HUNGARIAN SMALL LETTER ENT-SHAPED SIGN=010CF1;CHAKMA O MARK=011131" \o
      ";SHARADA SIGN SIDDHAM=0111DB;MARCHEN SUBJOINED LETTER MA=011CA1" \o
      ";CUNEIFORM SIGN URU TIMES GA=01233C;TETRAGRAM FOR STOVE=01D331" \o
      ";COUNTING ROD UNIT DIGIT ONE=01D360;MATHEMATICAL DOUBLE-STRUCK SMALL X=01D569" \o
      ";MATHEMATICAL BOLD SMALL FINAL SIGMA=01D6D3" \o
      ";MATHEMATICAL SANS-SERIF BOLD ITALIC SMALL UPSILON=01D7BE;DOMINO TILE HORIZONTAL-01-06=01F03E" \o
      ";DOMINO TILE HORIZONTAL-02-05=01F044;DOMINO TILE HORIZONTAL-03-04=01F04A" \o
      ";DOMINO TILE HORIZONTAL-04-03=01F050;DOMINO TILE HORIZONTAL-05-02=01F056" \o
      ";DOMINO TILE HORIZONTAL-06-01=01F05C;REGIONAL INDICATOR SYMBOL LETTER K=01F1F0" \o
      ";HINDU TEMPLE=01F6D5;DOWNWARDS SANS-SERIF ARROW=01F853" \o
      ";LEFT HALF INVERSE MEDIUM SHADE AND RIGHT HALF BLOCK=01FB94",
    ";LATIN CAPITAL LETTER I WITH INVERTED BREVE=00020A;LATIN SMALL LETTER O WITH DOT ABOVE=00022F" \o
      ";LATIN SMALL LETTER TURNED M=00026F;GREEK CAPITAL REVERSED DOTTED LUNATE SIGMA SYMBOL=0003FF" \o
      ";CYRILLIC SMALL LETTER IOTIFIED LITTLE YUS=000469;ARMENIAN CAPITAL LETTER ZHE=00053A" \o
      ";SAMARITAN PUNCTUATION ZAEF=00083A;SYRIAC LETTER MALAYALAM NGA=000860" \o
      ";ARABIC LETTER ALEF WITH ATTACHED LEFT HAMZA=000882;GURMUKHI SIGN NUKTA=000A3C" \o
      ";CANADIAN SYLLABICS K=001483;TAI THAM LETTER RATA=001A2D" \o
      ";COMBINING DOUBLE PARENTHESES ABOVE=001ABC;DALET SYMBOL=002138;RIGHTWARDS ARROW WITH LOOP=0021AC" \o
      ";PARENTHESIZED LATIN SMALL LETTER I=0024A4;TOP ARC CLOCKWISE ARROW WITH MINUS=00293C" \o
      ";Z NOTATION DOMAIN ANTIRESTRICTION=002A64;LEFT LOW PARAPHRASE BRACKET=002E1C" \o
      ";ARABIC TAIL FRAGMENT=00FE73;OLD ITALIC LETTER VE=010305;DESERET CAPITAL LETTER THEE=01041C" \o
      ";MODIFIER LETTER SMALL TC DIGRAPH WITH CURL=0107AB;IMPERIAL ARAMAIC LETTER WAW=010845" \o
      ";MANICHAEAN LETTER FE=010ADC;OLD TURKIC LETTER YENISEI I=010C04" \o
      ";YEZIDI COMBINING HAMZA MARK=010EAB;KHOJKI VOWEL SIGN AA=01122C" \o
      ";COMBINING GRANTHA DIGIT SIX=01136C;SIDDHAM SECTION MARK DOUBLE RING WITH RAYS=0115D0" \o
      ";WARANG CITI SMALL LETTER YU=0118C3;MARCHEN SUBJOINED LETTER NA=011C9D" \o
      ";CUNEIFORM SIGN URU TIMES HA=012341;CUNEIFORM NUMERIC SIGN THREE GESHU=012420" \o
      ";BASSA VAH LETTER YIE=016AD5;MUSICAL SYMBOL COMBINING MARCATO-STACCATO=01D180" \o
      ";MATHEMATICAL SCRIPT SMALL H=01D4BD;MATHEMATICAL DOUBLE-STRUCK SMALL Y=01D56A" \o
      ";MATHEMATICAL BOLD ITALIC CAPITAL XI=01D729" \o
      ";MATHEMATICAL SANS-SERIF BOLD PARTIAL DIFFERENTIAL=01D789" \o
      ";SIGNWRITING HAND-HINGE INDEX THUMB=01D8F0" \o
      ";SIGNWRITING MOVEMENT-FLOORPLANE DOUBLE STRAIGHT=01D96A" \o
      ";NYIAKENG PUACHUE HMONG LETTER NTSA=01E10D;DOMINO TILE HORIZONTAL-02-06=01F045" \o
      ";DOMINO TILE HORIZONTAL-03-05=01F04B;DOMINO TILE HORIZONTAL-04-04=01F051" \o
      ";DOMINO TILE HORIZONTAL-05-03=01F057;DOMINO TILE HORIZONTAL-06-02=01F05D" \o
      ";REGIONAL INDICATOR SYMBOL LETTER L=01F1F1;FERRIS WHEEL=01F3A1;LABEL=01F3F7" \o
      ";HEAVY ARROW SHAFT WIDTH ONE=01F89C" \o
      ";UPPER LEFT BLOCK DIAGONAL LOWER MIDDLE LEFT TO UPPER MIDDLE RIGHT=01FB5C;STICK FIGURE=01FBC5",
    ";CYRILLIC CAPITAL LETTER BYELORUSSIAN-UKRAINIAN I=000406;GURMUKHI LETTER RRA=000A5C" \o
      ";TELUGU VOWEL SIGN VOCALIC L=000C62;KANNADA VOWEL SIGN U=000CC1" \o
      ";SINHALA LETTER ALPAPRAANA TTAYANNA=000DA7;LAO ELLIPSIS=000EAF" \o
      ";GEORGIAN CAPITAL LETTER TAR=0010B2;GEORGIAN CAPITAL LETTER XAN=0010BE" \o
      ";ETHIOPIC COMBINING GEMINATION MARK=00135F;CANADIAN SYLLABICS L=0014EA" \o
      ";RUNIC LETTER INGWAZ=0016DC;RUNIC LETTER SHORT-TWIG-YR=0016E7;KHMER SYMBOL BEI ROC=0019F3" \o
      ";BATAK SYMBOL BINDU PANGOLAT=001BFF;VEDIC TONE DOT BELOW=001CDD" \o
      ";LATIN SMALL LETTER D WITH DOT BELOW=001E0D;LATIN SMALL LETTER P WITH DOT ABOVE=001E57" \o
      ";OPEN-CIRCUIT-OUTPUT L-TYPE SYMBOL=002390;EJECT SYMBOL=0023CF;OBSERVER EYE SYMBOL=0023FF" \o
      ";PARENTHESIZED LATIN SMALL LETTER J=0024A5;IDEOGRAPHIC ANNOTATION SECOND MARK=00319A" \o
      ";PARENTHESIZED IDEOGRAPH REPRESENT=003239;SQUARE KAIRI=00330B;SQUARE GINII=003311" \o
      ";JAVANESE PADA LINGSA=00A9C8;ARABIC LETTER HAH FINAL FORM=00FEA2" \o
      ";ARABIC LETTER DAL FINAL FORM=00FEAA;LINEAR B IDEOGRAM B191 HELMET=0100C3" \o
      ";OSAGE SMALL LETTER I=0104E3;CYPRIOT SYLLABLE PO=010821;OLD TURKIC LETTER ORKHON AN=010C23" \o
      ";SHARADA VOWEL SIGN O=0111BE;SIDDHAM VOWEL SIGN I=0115B0;MARCHEN VOWEL SIGN E=011CB3" \o
      ";CUNEIFORM SIGN BARA2=012048;CUNEIFORM SIGN USHX=012356;DUPLOYAN LETTER AOU=01BC45" \o
      ";DUPLOYAN LETTER WEI=01BC5F;MUSICAL SYMBOL SORI=01D1E9;MATHEMATICAL SCRIPT SMALL I=01D4BE" \o
      ";MATHEMATICAL DOUBLE-STRUCK SMALL Z=01D56B;MATHEMATICAL BOLD ITALIC CAPITAL MU=01D727" \o
      ";MATHEMATICAL MONOSPACE DIGIT SEVEN=01D7FD" \o
      ";SIGNWRITING MOVEMENT-DIAGONAL BETWEEN AWAY SMALL=01D95D" \o
      ";SIGNWRITING MOVEMENT-WALLPLANE WAVE CURVE DOUBLE MEDIUM=01D99A" \o
      ";DOMINO TILE HORIZONTAL-03-06=01F04C;DOMINO TILE HORIZONTAL-04-05=01F052" \o
      ";DOMINO TILE HORIZONTAL-05-04=01F058;DOMINO TILE HORIZONTAL-06-03=01F05E" \o
      ";REGIONAL INDICATOR SYMBOL LETTER M=01F1F2;PEACH=01F351;DOVE OF PEACE=01F54A" \o
      ";SPEAKING HEAD IN SILHOUETTE=01F5E3",
    ";PERCENT SIGN=000025;LATIN SMALL LETTER A=000061;LATIN CAPITAL LETTER R WITH CEDILLA=000156" \o
      ";GREEK YPOGEGRAMMENI=00037A;COPTIC CAPITAL LETTER SHIMA=0003EC" \o
      ";CYRILLIC CAPITAL LETTER CHE WITH DESCENDER=0004B6;TIBETAN SUBJOINED LETTER GA=000F92" \o
      ";CANADIAN SYLLABICS M=0014BB;MODIFIER LETTER SMALL DELTA=001D5F" \o
      ";LATIN SMALL LETTER E WITH DOT BELOW=001EB9;DOUBLE LOW-9 QUOTATION MARK=00201E" \o
      ";TRIPLE TILDE=00224B;UP ARROWHEAD=002303;PARENTHESIZED LATIN SMALL LETTER K=0024A6" \o
      ";UP-POINTING TRIANGLE WITH RIGHT HALF BLACK=0025EE;COMBINING CYRILLIC LETTER A=002DF6" \o
      ";TILDE WITH DOT ABOVE=002E1E;KANGXI RADICAL SLICE=002F5A;KANGXI RADICAL BLOOD=002F8E" \o
      ";BOPOMOFO LETTER UNN=0031AB;YI RADICAL KE=00A4C6" \o
      ";PRESENTATION FORM FOR VERTICAL LEFT WHITE CORNER BRACKET=00FE43" \o
      ";ARABIC LETTER KAF FINAL FORM=00FEDA;CYPRIOT SYLLABLE KU=01080E;CYPRIOT SYLLABLE WI=010834" \o
      ";IMPERIAL ARAMAIC LETTER NUN=01084D;MANICHAEAN LETTER HE=010AC6" \o
      ";HANIFI ROHINGYA DIGIT SEVEN=010D37;KAITHI VOWEL SIGN AI=0110B6;TIRHUTA LETTER TTHA=01149A" \o
      ";MARCHEN SUBJOINED LETTER PA=011C9E;BAMUM LETTER PHASE-E NSHUOP=01696F" \o
      ";DUPLOYAN LETTER OOH=01BC59;MATHEMATICAL SCRIPT SMALL J=01D4BF" \o
      ";MATHEMATICAL BOLD ITALIC CAPITAL NU=01D728;SIGNWRITING HAND-ANGLE RING LITTLE=01D8B3" \o
      ";DOMINO TILE HORIZONTAL-04-06=01F053;DOMINO TILE HORIZONTAL-05-05=01F059" \o
      ";DOMINO TILE HORIZONTAL-06-04=01F05F;SQUARED COOL=01F192" \o
      ";REGIONAL INDICATOR SYMBOL LETTER N=01F1F3;EARTH GLOBE AMERICAS=01F30E" \o
      ";VERY HEAVY REVERSE SOLIDUS=01F67D;ALCHEMICAL SYMBOL FOR NITRE=01F715" \o
      ";MEDIUM THREE POINTED PINWHEEL STAR=01F7C3" \o
      ";LEFTWARDS ARROW WITH SMALL EQUILATERAL ARROWHEAD=01F810;TAG ASTERISK=0E002A",
    ";LATIN SMALL LETTER B=000062;LATIN CAPITAL LETTER S WITH CEDILLA=00015E" \o
      ";CYRILLIC CAPITAL LETTER KJE=00040C;HEBREW ACCENT MERKHA=0005A5;THAANA SUKUN=0007B0" \o
      ";SAMARITAN VOWEL SIGN LONG U=000826;SYRIAC LETTER MALAYALAM LLA=000868" \o
      ";LAO LETTER PALI TTHA=000E90;TIBETAN SUBJOINED LETTER HA=000FB7" \o
      ";HANGUL CHOSEONG IEUNG-CIEUC=001148;HANGUL CHOSEONG CIEUC-IEUNG=00114D" \o
      ";HANGUL JONGSEONG SSANGSIOS=0011BB;CANADIAN SYLLABICS N=0014D0" \o
      ";TAI THAM VOWEL SIGN OA ABOVE=001A73;TAI THAM SIGN RA HAAM=001A7A" \o
      ";LATIN SMALL LETTER R WITH DOT ABOVE=001E59" \o
      ";LATIN SMALL LETTER A WITH CIRCUMFLEX AND DOT BELOW=001EAD" \o
      ";GREEK CAPITAL LETTER RHO WITH DASIA=001FEC;ROMAN NUMERAL ONE HUNDRED THOUSAND=002188" \o
      ";LEFT-POINTING ANGLE BRACKET=002329;PRINT SCREEN SYMBOL=002399;EARTH GROUND=0023DA" \o
      ";PARENTHESIZED LATIN SMALL LETTER L=0024A7;STRESS OUTLINED WHITE STAR=002729" \o
      ";RIGHTWARDS ARROW THROUGH X=002947;DOUBLE SQUARE INTERSECTION=002A4E;KANGXI RADICAL EIGHT=002F0B" \o
      ";KANGXI RADICAL GRAIN=002F72;SAURASHTRA LETTER U=00A886" \o
      ";ARABIC LIGATURE TEH WITH JEEM WITH ALEF MAKSURA FINAL FORM=00FDA0" \o
      ";ARABIC LETTER FEH FINAL FORM=00FED2;PHAISTOS DISC SIGN MANACLES=0101DD" \o
      ";OLD ITALIC LETTER YE=01032D;UGARITIC LETTER SSU=01039D;CYPRIOT SYLLABLE LU=010813" \o
      ";CYPRIOT SYLLABLE RO=010826;BRAHMI VOWEL SIGN II=01103B;TIRHUTA ANJI=011480" \o
      ";SOYOMBO HEAD MARK WITH MOON AND SUN=011AA0;MAKASAR VOWEL SIGN E=011EF5" \o
      ";CUNEIFORM SIGN SHE PLUS SAR=012535;BAMUM LETTER PHASE-B LAM NSHUT NYAM=016863" \o
      ";MIAO VOWEL SIGN IANG=016F64;ZNAMENNY NEUME VRAKHIYA KLYUCHEVAYA TRESVETLAYA=01CF6A" \o
      ";MATHEMATICAL SCRIPT SMALL K=01D4C0;SIGNWRITING HAND-FIST INDEX MIDDLE RING CONJOINED=01D88C" \o
      ";SIGNWRITING CHEEKS NEUTRAL=01DA2B;SIGNWRITING LOCATION DEPTH=01DA83" \o
      ";LATIN SMALL LETTER FENG DIGRAPH WITH TRILL=01DF00;DOMINO TILE HORIZONTAL-05-06=01F05A" \o
      ";DOMINO TILE HORIZONTAL-06-05=01F060;REGIONAL INDICATOR SYMBOL LETTER O=01F1F4" \o
      ";SPIRAL SHELL=01F41A;ANGER SYMBOL=01F4A2;LARGE ORANGE DIAMOND=01F536;CARD FILE BOX=01F5C3" \o
      ";ALCHEMICAL SYMBOL FOR WATER=01F704;ALCHEMICAL SYMBOL FOR URINE=01F755;BACON=01F953",
    ";LATIN SMALL LETTER C=000063;LATIN CAPITAL LETTER T WITH CEDILLA=000162" \o
      ";LATIN LETTER ALVEOLAR CLICK=0001C2;MODIFIER LETTER APOSTROPHE=0002BC" \o
      ";CYRILLIC CAPITAL LETTER LJE=000409;CYRILLIC CAPITAL LETTER STRAIGHT U=0004AE" \o
      ";CYRILLIC CAPITAL LETTER RHA=000516;THAANA LETTER DAADHU=00079F;MANDAIC LETTER HALQA=000840" \o
      ";DEVANAGARI LETTER AA=000906;GURMUKHI LETTER NYA=000A1E;MALAYALAM LETTER CHILLU LLL=000D56" \o
      ";MALAYALAM LETTER VOCALIC RR=000D60;CANADIAN SYLLABICS O=001405" \o
      ";LATIN SMALL LETTER S WITH DOT ABOVE=001E61;GIMEL SYMBOL=002137" \o
      ";TURNED SANS-SERIF CAPITAL Y=002144;CLOCKWISE CONTOUR INTEGRAL=002232;DOUBLE UNION=0022D3" \o
      ";PARENTHESIZED LATIN SMALL LETTER M=0024A8;WHITE PARALLELOGRAM=0025B1" \o
      ";CIRCLE WITH RIGHT HALF BLACK=0025D1;CAUTION SIGN=002621;BRAILLE PATTERN DOTS-12345678=0028FF" \o
      ";LESS-THAN OR SLANTED EQUAL TO WITH DOT ABOVE RIGHT=002A83;GLAGOLITIC SMALL LETTER SHA=002C4E" \o
      ";LEFT TRANSPOSITION BRACKET=002E09;KANGXI RADICAL FIGHT=002FBE" \o
      ";SMALL RIGHT TORTOISE SHELL BRACKET=00FE5E;FULLWIDTH LEFT PARENTHESIS=00FF08" \o
      ";OLD ITALIC LETTER ZE=010306;CYPRIOT SYLLABLE MU=010818;CYPRIOT SYLLABLE SO=01082B" \o
      ";IMPERIAL ARAMAIC NUMBER TWO=010859;OLD TURKIC LETTER ORKHON EM=010C22" \o
      ";OLD TURKIC LETTER ORKHON AQ=010C34;ZANABAZAR SQUARE LETTER DDA=011A16" \o
      ";MARCHEN SUBJOINED LETTER RA=011CAA;CUNEIFORM SIGN DARA3=012070" \o
      ";PAHAWH HMONG SIGN XYEEM TOV=016B3E;TANGUT COMPONENT-001=018800;TANGUT COMPONENT-010=018809" \o
      ";TANGUT COMPONENT-100=018863;DUPLOYAN AFFIX LOW VERTICAL SECANT=01BC73" \o
      ";MATHEMATICAL SCRIPT SMALL L=01D4C1;DOMINO TILE HORIZONTAL-06-06=01F061" \o
      ";PLAYING CARD TRUMP-1=01F0E1;REGIONAL INDICATOR SYMBOL LETTER P=01F1F5;MUSICAL NOTE=01F3B5" \o
      ";FACE WITH OK GESTURE=01F646;ONCOMING BUS=01F68D;BAGGAGE CLAIM=01F6C4" \o
      ";WHITE ARROW SHAFT WIDTH ONE=01F8AC;BOXING GLOVE=01F94A;CHILD=01F9D2;NAZAR AMULET=01F9FF",
    ";LATIN SMALL LETTER D=000064;LATIN SMALL LETTER TURNED R=000279" \o
      ";CYRILLIC CAPITAL LETTER SHA=000428;COMBINING CYRILLIC HUNDRED THOUSANDS SIGN=000488" \o
      ";ARABIC DOUBLE RIGHT ARROWHEAD ABOVE=0008FB;DEVANAGARI LETTER BA=00092C" \o
      ";DEVANAGARI DIGIT ONE=000967;BENGALI VOWEL SIGN U=0009C1;GURMUKHI LETTER TTA=000A1F" \o
      ";TIBETAN SUBJOINED LETTER JA=000F97;TIBETAN MARK BSKA- SHOG GI MGO RGYAN=000FD0" \o
      ";ETHIOPIC SYLLABLE GLOTTAL A=0012A0;CANADIAN SYLLABICS P=001449" \o
      ";KHMER INDEPENDENT VOWEL QAA=0017A4;BALINESE DIGIT EIGHT=001B58" \o
      ";LATIN SMALL LETTER H WITH DOT BELOW=001E25;LATIN SMALL LETTER T WITH DOT ABOVE=001E6B" \o
      ";GREEK CAPITAL LETTER ETA WITH VARIA=001FCA;DOUBLE-STRUCK CAPITAL GAMMA=00213E" \o
      ";SYMBOL FOR FORM FEED=00240C;PARENTHESIZED LATIN SMALL LETTER N=0024A9" \o
      ";CIRCLED VERTICAL BAR=0029B6;Z NOTATION RELATIONAL COMPOSITION=002A3E;HADES=002BE1" \o
      ";CJK RADICAL WEST TWO=002EC4;MODIFIER LETTER DOT HORIZONTAL BAR=00A719" \o
      ";ARABIC LETTER HEH FINAL FORM=00FEEA;HALFWIDTH RIGHTWARDS ARROW=00FFEB;NOMISMA SIGN=01018E" \o
      ";OLD ITALIC LETTER KU=010312;CYPRIOT SYLLABLE NU=01081D;CYPRIOT SYLLABLE TO=010830" \o
      ";MANICHAEAN PUNCTUATION LINE FILLER=010AF6;OLD TURKIC LETTER ORKHON AR=010C3A" \o
      ";SIDDHAM SIGN SIDDHAM=0115C1;ZANABAZAR SQUARE VOWEL LENGTH MARK=011A0A" \o
      ";MARCHEN SUBJOINED LETTER SA=011CAD;MARCHEN VOWEL SIGN I=011CB1" \o
      ";MASARAM GONDI SIGN ANUSVARA=011D40;GUNJALA GONDI SIGN ANUSVARA=011D95" \o
      ";CUNEIFORM SIGN DARA4=012071;CUNEIFORM SIGN KA TIMES GISH CROSSING GISH=01216A" \o
      ";BAMUM LETTER PHASE-C KEN LAW=0168E9;TANGUT COMPONENT-002=018801;TANGUT COMPONENT-011=01880A" \o
      ";TANGUT COMPONENT-020=018813;TANGUT COMPONENT-101=018864;TANGUT COMPONENT-110=01886D" \o
      ";TANGUT COMPONENT-200=0188C7;ZNAMENNY NEUME SKAMEYTSA SVETLAYA=01CF72" \o
      ";MATHEMATICAL SCRIPT SMALL M=01D4C2;SIGNWRITING LIPS PRESSED TOGETHER=01DA53" \o
      ";NYIAKENG PUACHUE HMONG LETTER NTXA=01E113;PLAYING CARD TRUMP-2=01F0E2" \o
      ";REGIONAL INDICATOR SYMBOL LETTER Q=01F1F6;SPEAKER WITH ONE SOUND WAVE=01F509",
    ";LATIN SMALL LETTER E=000065;NO BREAK HERE=000083;SECTION SIGN=0000A7" \o
      ";LATIN CAPITAL LETTER O WITH INVERTED BREVE=00020E;MODIFIER LETTER LOW DOWN ARROWHEAD=0002EF" \o
      ";CYRILLIC CAPITAL LETTER NJE=00040A;CYRILLIC CAPITAL LETTER GHE WITH DESCENDER=0004F6" \o
      ";HEBREW ACCENT TIPEHA=000596;ARABIC VERTICAL TAIL=00088E;DEVANAGARI LETTER CA=00091A" \o
      ";TIBETAN SUBJOINED LETTER KA=000F90;HANGUL JUNGSEONG I-A=001198;CANADIAN SYLLABICS Q=001585" \o
      ";TAGALOG VOWEL SIGN I=001712;KHMER SYMBOL DAP ROC=0019FA" \o
      ";SUNDANESE PUNCTUATION BINDU SURYA=001CC0;LATIN SMALL LETTER I WITH DOT BELOW=001ECB" \o
      ";GREEK SMALL LETTER IOTA WITH DASIA AND OXIA=001F35;COLON EQUALS=002254;EQUALS COLON=002255" \o
      ";APL FUNCTIONAL SYMBOL JOT UNDERBAR=00235B;PARENTHESIZED LATIN SMALL LETTER O=0024AA" \o
      ";RIGHTHAND INTERIOR PRODUCT=002A3D;KANGXI RADICAL EARTH=002F1F;KANGXI RADICAL HEART=002F3C" \o
      ";NORTH INDIC FRACTION ONE SIXTEENTH=00A833" \o
      ";LATIN SMALL LETTER DZ DIGRAPH WITH RETROFLEX HOOK=00AB66" \o
      ";HANGUL JONGSEONG SSANGSIOS-TIKEUT=00D7ED" \o
      ";ARABIC LIGATURE TEH WITH MEEM WITH ALEF MAKSURA FINAL FORM=00FDA4" \o
      ";DESERET CAPITAL LETTER ZHEE=010420;NABATAEAN NUMBER ONE=0108A7" \o
      ";OLD TURKIC LETTER ORKHON OE=010C07;OLD TURKIC LETTER ORKHON AS=010C3D" \o
      ";BRAHMI VOWEL SIGN OLD TAMIL SHORT O=011074;COMBINING GRANTHA DIGIT TWO=011368" \o
      ";ZANABAZAR SQUARE LETTER BHA=011A21;MARCHEN SUBJOINED LETTER TA=011C9A" \o
      ";CUNEIFORM SIGN BU OVER BU AB=01204E;CUNEIFORM SIGN UD SHESHIG TIMES BAD=01231B" \o
      ";PAHAWH HMONG CONSONANT CHAU=016B27;TANGUT COMPONENT-003=018802;TANGUT COMPONENT-012=01880B" \o
      ";TANGUT COMPONENT-021=018814;TANGUT COMPONENT-030=01881D;TANGUT COMPONENT-102=018865" \o
      ";TANGUT COMPONENT-111=01886E;TANGUT COMPONENT-120=018877;TANGUT COMPONENT-201=0188C8" \o
      ";TANGUT COMPONENT-210=0188D1;TANGUT COMPONENT-300=01892B" \o
      ";ZNAMENNY NEUME OSOKA KRYUKOVAYA SVETLAYA=01CFB2" \o
      ";ZNAMENNY NEUME OSOKA KLYUCHEVAYA NEPOSTOYANNAYA=01CFB4" \o
      ";BYZANTINE MUSICAL SYMBOL KENTIMA ARCHAION=01D01B" \o
      ";BYZANTINE MUSICAL SYMBOL KRATIMA ARCHAION=01D081;MUSICAL SYMBOL MOON NOTEHEAD WHITE=01D152" \o
      ";MATHEMATICAL SCRIPT SMALL N=01D4C3;OTTOMAN SIYAQ NUMBER FORTY=01ED0D" \o
      ";PLAYING CARD TRUMP-3=01F0E3;REGIONAL INDICATOR SYMBOL LETTER R=01F1F7;CANOE=01F6F6" \o
      ";ALCHEMICAL SYMBOL FOR MONTH=01F771;HEAVY LEFTWARDS ARROW WITH EQUILATERAL ARROWHEAD=01F818" \o
      ";HEAVY ARROW SHAFT WIDTH TWO THIRDS=01F89D",
    ";LATIN SMALL LETTER F=000066;LATIN SMALL LETTER N WITH LEFT HOOK=000272" \o
      ";LATIN SMALL LETTER TURNED T=000287;ARABIC SHADDA=000651;MANDAIC PUNCTUATION=00085E" \o
      ";SYRIAC LETTER MALAYALAM NNA=000864;ARABIC SMALL HIGH WORD WAQFA=0008DF" \o
      ";DEVANAGARI LETTER DA=000926;GUJARATI SIGN MADDAH=000AFC;ORIYA VOWEL SIGN VOCALIC RR=000B44" \o
      ";ORIYA AU LENGTH MARK=000B57;TELUGU VOWEL SIGN VOCALIC R=000C43" \o
      ";TIBETAN SUBJOINED LETTER LA=000FB3;GEORGIAN CAPITAL LETTER VIN=0010A5" \o
      ";GEORGIAN CAPITAL LETTER ZEN=0010A6;CANADIAN SYLLABICS R=001550" \o
      ";LATIN SMALL LETTER E WITH CIRCUMFLEX AND DOT BELOW=001EC7;PARAGRAPH SEPARATOR=002029" \o
      ";ANGLE=002220;PRECEDES OR EQUAL TO=00227C;EQUAL TO OR PRECEDES=0022DE" \o
      ";PARENTHESIZED LATIN SMALL LETTER P=0024AB;WARNING SIGN=0026A0" \o
      ";SHORT UP TACK WITH UNDERBAR=002AE8;DOUBLE STACKED COMMA=002E49;KANGXI RADICAL TRACK=002F71" \o
      ";KANGXI RADICAL SHEEP=002F7A;IDEOGRAPHIC TELEGRAPH SYMBOL FOR DAY EIGHT=0033E7" \o
      ";YI RADICAL LI=00A491;CYRILLIC SMALL LETTER REVERSED DZE=00A645" \o
      ";MODIFIER LETTER CYRILLIC SOFT SIGN=00A69D;ARABIC LETTER JEH FINAL FORM=00FB8B" \o
      ";ARABIC LETTER NG MEDIAL FORM=00FBD6;HALFWIDTH IDEOGRAPHIC COMMA=00FF64" \o
      ";HALFWIDTH HANGUL LETTER WAE=00FFCE;PHAISTOS DISC SIGN CARPENTRY PLANE=0101E2" \o
      ";OSAGE SMALL LETTER O=0104EA;MODIFIER LETTER SMALL DZ DIGRAPH WITH CURL=010789" \o
      ";CYPRIOT SYLLABLE PU=010822;OLD TURKIC LETTER ORKHON EP=010C2F" \o
      ";OLD TURKIC LETTER ORKHON AT=010C43;BRAHMI VOWEL SIGN AU=011045;SHARADA VOWEL SIGN U=0111B6" \o
      ";KHUDAWADI LETTER BBA=0112D5;SIDDHAM VOWEL SIGN O=0115BA;ZANABAZAR SQUARE LETTER CHA=011A11" \o
      ";MAKASAR VOWEL SIGN I=011EF3;CUNEIFORM SIGN DAG KISIM5 TIMES A PLUS MASH=012057" \o
      ";CUNEIFORM SIGN DAG KISIM5 TIMES LUM=012067;CUNEIFORM SIGN NU11 ROTATED NINETY DEGREES=012393" \o
      ";CUNEIFORM NUMERIC SIGN THREE SHARU=01242E;TANGUT COMPONENT-004=018803" \o
      ";TANGUT COMPONENT-013=01880C;TANGUT COMPONENT-022=018815;TANGUT COMPONENT-031=01881E" \o
      ";TANGUT COMPONENT-040=018827;TANGUT COMPONENT-103=018866;TANGUT COMPONENT-112=01886F" \o
      ";TANGUT COMPONENT-121=018878;TANGUT COMPONENT-130=018881;TANGUT COMPONENT-202=0188C9" \o
      ";TANGUT COMPONENT-211=0188D2;TANGUT COMPONENT-220=0188DB;TANGUT COMPONENT-301=01892C" \o
      ";TANGUT COMPONENT-310=018935;TANGUT COMPONENT-400=01898F" \o
      ";BYZANTINE MUSICAL SYMBOL ISAKIA TELOUS ICHIMATOS=01D0AC;TETRAGRAM FOR UNITY=01D33B" \o
      ";MATHEMATICAL BOLD ITALIC SMALL IOTA=01D73E" \o
      ";SIGNWRITING HAND-FLAT FIVE FINGERS SPREAD HINGED NO THUMB=01D859" \o
      ";INDIC SIYAQ NUMBER EIGHTY THOUSAND=01EC9C;PLAYING CARD TRUMP-4=01F0E4" \o
      ";REGIONAL INDICATOR SYMBOL LETTER S=01F1F8;MUSICAL KEYBOARD WITH JACKS=01F398" \o
      ";BLACK RIGHT POINTING BACKHAND INDEX=01F59D;THIN SALTIRE=01F7A8;LLAMA=01F999;CHAIR=01FA91",
    ";LATIN SMALL LETTER G=000067;LATIN CAPITAL LETTER AE WITH MACRON=0001E2" \o
      ";CYRILLIC CAPITAL LETTER YAE=000518;SAMARITAN MODIFIER LETTER I=000828" \o
      ";MALAYALAM LETTER DDA=000D21;TIBETAN SUBJOINED LETTER MA=000FA8;CANADIAN SYLLABICS S=001505" \o
      ";OGHAM LETTER NGEADAL=00168D;KHMER SYMBOL LEK ATTAK MUOY=0017F1" \o
      ";CANADIAN SYLLABICS FINAL SMALL RING=0018DE;CANADIAN SYLLABICS CARRIER DENTAL S=0018F5" \o
      ";OL CHIKI PUNCTUATION MUCAAD=001C7E;LATIN SMALL LETTER K WITH DOT BELOW=001E33" \o
      ";LATIN CAPITAL LETTER O WITH TILDE AND ACUTE=001E4C;LATIN SMALL LETTER W WITH DOT ABOVE=001E87" \o
      ";PARENTHESIZED LATIN SMALL LETTER Q=0024AC;INTEGRAL AVERAGE WITH SLASH=002A0F" \o
      ";CIRCLED HANGUL HIEUH=00326D;SQUARE GARON=00330E" \o
      ";IDEOGRAPHIC TELEGRAPH SYMBOL FOR HOUR TWENTY-TWO=00336E;YI RADICAL MI=00A498" \o
      ";MODIFIER LETTER MID DOTTED TONE BAR=00A70A;LATIN SMALL LETTER SCRIPT R=00AB4B" \o
      ";ARABIC LETTER SAD FINAL FORM=00FEBA;ARABIC LETTER AIN FINAL FORM=00FECA" \o
      ";ARABIC LETTER QAF FINAL FORM=00FED6;FULLWIDTH PLUS SIGN=00FF0B;CYPRIOT SYLLABLE WO=010835" \o
      ";KHOJKI VOWEL SIGN AI=011231;ZANABAZAR SQUARE LETTER DHA=011A1C;SOYOMBO LETTER TSHA=011A76" \o
      ";CUNEIFORM SIGN URU TIMES PA=012348;BAMUM LETTER PHASE-D REN OLD=01694A" \o
      ";MEDEFAIDRIN SMALL LETTER NY=016E77;TANGUT COMPONENT-005=018804;TANGUT COMPONENT-014=01880D" \o
      ";TANGUT COMPONENT-023=018816;TANGUT COMPONENT-032=01881F;TANGUT COMPONENT-041=018828" \o
      ";TANGUT COMPONENT-050=018831;TANGUT COMPONENT-104=018867;TANGUT COMPONENT-113=018870" \o
      ";TANGUT COMPONENT-122=018879;TANGUT COMPONENT-131=018882;TANGUT COMPONENT-140=01888B" \o
      ";TANGUT COMPONENT-203=0188CA;TANGUT COMPONENT-212=0188D3;TANGUT COMPONENT-221=0188DC" \o
      ";TANGUT COMPONENT-230=0188E5;TANGUT COMPONENT-302=01892D;TANGUT COMPONENT-311=018936" \o
      ";TANGUT COMPONENT-320=01893F;TANGUT COMPONENT-401=018990;TANGUT COMPONENT-410=018999" \o
      ";TANGUT COMPONENT-500=0189F3;BYZANTINE MUSICAL SYMBOL DIESIS APLI DYO DODEKATA=01D0D0" \o
      ";MATHEMATICAL SCRIPT SMALL P=01D4C5;COMBINING GLAGOLITIC LETTER ZEMLJA=01E008" \o
      ";PLAYING CARD TRUMP-5=01F0E5;REGIONAL INDICATOR SYMBOL LETTER T=01F1F9;KOALA=01F428" \o
      ";CLOSED LOCK WITH KEY=01F510;GRINNING CAT FACE WITH SMILING EYES=01F638;ROLLER SKATE=01F6FC" \o
      ";LEFTWARDS TRIANGLE-HEADED ARROW WITH MEDIUM SHAFT=01F824;GENIE=01F9DE" \o
      ";RIGHT TRIANGULAR ONE QUARTER BLOCK=01FB6E",
    ";LATIN SMALL LETTER H=000068;LATIN CAPITAL LETTER R WITH INVERTED BREVE=000212" \o
      ";LATIN SMALL LETTER Q WITH HOOK TAIL=00024B;LATIN SMALL LETTER TURNED V=00028C" \o
      ";HEBREW ACCENT GERESH=00059C;ARABIC LETTER HIGH HAMZA YEH=000678" \o
      ";ARABIC LARGE ROUND DOT ABOVE=0008CE;ARABIC OPEN KASRATAN=0008F2;DEVANAGARI LETTER FA=00095E" \o
      ";SINHALA VOWEL SIGN KETTI AEDA-PILLA=000DD0;TIBETAN SUBJOINED LETTER NA=000FA3" \o
      ";ETHIOPIC SYLLABLE GLOTTAL E=0012A5;CANADIAN SYLLABICS T=001466;LEPCHA VOWEL SIGN OO=001C29" \o
      ";COMBINING ACUTE-GRAVE-ACUTE=001DC9;LATIN SMALL LETTER L WITH DOT BELOW=001E37" \o
      ";LATIN SMALL LETTER X WITH DOT ABOVE=001E8B;SINGLE LOW-9 QUOTATION MARK=00201A" \o
      ";PARENTHESIZED LATIN SMALL LETTER R=0024AD;WHITE BULLET=0025E6;SQUARE FOUR CORNERS=0026F6" \o
      ";INTEGRAL WITH INTERSECTION=002A19;CJK RADICAL C-SIMPLIFIED FLY=002EDC" \o
      ";CYRILLIC CAPITAL LETTER DWE=00A680;ARABIC LIGATURE DAD WITH KHAH ISOLATED FORM=00FC24" \o
      ";ARABIC LIGATURE AKBAR ISOLATED FORM=00FDF3;HALFWIDTH HANGUL LETTER YAE=00FFC5" \o
      ";OLD PERMIC LETTER YA=010374;OLD PERSIAN SIGN SSA=0103C2;CYPRIOT SYLLABLE RU=010827" \o
      ";SOYOMBO LETTER TTHA=011A67;MARCHEN SUBJOINED LETTER WA=011CA5" \o
      ";CUNEIFORM SIGN DAG KISIM5 TIMES USH=01206D;BAMUM LETTER PHASE-E GHAAMAE=0169A2" \o
      ";TANGUT COMPONENT-006=018805;TANGUT COMPONENT-015=01880E;TANGUT COMPONENT-024=018817" \o
      ";TANGUT COMPONENT-033=018820;TANGUT COMPONENT-042=018829;TANGUT COMPONENT-051=018832" \o
      ";TANGUT COMPONENT-060=01883B;TANGUT COMPONENT-105=018868;TANGUT COMPONENT-114=018871" \o
      ";TANGUT COMPONENT-123=01887A;TANGUT COMPONENT-132=018883;TANGUT COMPONENT-141=01888C" \o
      ";TANGUT COMPONENT-150=018895;TANGUT COMPONENT-204=0188CB;TANGUT COMPONENT-213=0188D4" \o
      ";TANGUT COMPONENT-222=0188DD;TANGUT COMPONENT-231=0188E6;TANGUT COMPONENT-240=0188EF" \o
      ";TANGUT COMPONENT-303=01892E;TANGUT COMPONENT-312=018937;TANGUT COMPONENT-321=018940" \o
      ";TANGUT COMPONENT-330=018949;TANGUT COMPONENT-402=018991;TANGUT COMPONENT-411=01899A" \o
      ";TANGUT COMPONENT-420=0189A3;TANGUT COMPONENT-501=0189F4;TANGUT COMPONENT-510=0189FD" \o
      ";TANGUT COMPONENT-600=018A57;ZNAMENNY COMBINING MARK PODCHASHIE=01CF36" \o
      ";ZNAMENNY NEUME KRYUK TIKHY=01CF51;MATHEMATICAL SCRIPT SMALL Q=01D4C6" \o
      ";MATHEMATICAL BOLD FRAKTUR CAPITAL A=01D56C;COMBINING GLAGOLITIC LETTER DJERVI=01E00C" \o
      ";PLAYING CARD TRUMP-6=01F0E6;REGIONAL INDICATOR SYMBOL LETTER U=01F1FA;DANGO=01F361" \o
      ";ROLLED-UP NEWSPAPER=01F5DE;BEANS=01FAD8" \o
      ";BOX DRAWINGS LIGHT DIAGONAL UPPER CENTRE TO MIDDLE RIGHT TO LOWER CENTRE=01FBA5",
    ";LATIN SMALL LETTER I=000069;LATIN SMALL LETTER TURNED W=00028D;DEVANAGARI LETTER GA=000917" \o
      ";MALAYALAM LETTER BHA=000D2D;MALAYALAM DIGIT FIVE=000D6B;MALAYALAM DIGIT NINE=000D6F" \o
      ";TIBETAN VOWEL SIGN E=000F7A;HANGUL CHOSEONG NIEUN-CIEUC=00115C" \o
      ";CANADIAN SYLLABICS R-CREE RE=001543;COMBINING WIGGLY LINE BELOW=001AB6" \o
      ";LATIN SMALL LETTER M WITH DOT BELOW=001E43;LATIN SMALL LETTER Y WITH DOT ABOVE=001E8F" \o
      ";PARENTHESIZED LATIN SMALL LETTER S=0024AE;LIBRA=00264E" \o
      ";HEAVY EIGHT POINTED RECTILINEAR BLACK STAR=002738;LOZENGE DIVIDED BY HORIZONTAL RULE=0027E0" \o
      ";DOWNWARDS HARPOON WITH BARB RIGHT FROM BAR=00295D" \o
      ";RIGHTWARDS HARPOON WITH BARB DOWN FROM BAR=00295F;COPTIC CAPITAL LETTER SAMPI=002CC0" \o
      ";KANGXI RADICAL SHELL=002F99;COMBINING CYRILLIC LETTER I=00A675;CHAM LETTER A=00AA00" \o
      ";ARABIC LIGATURE YEH WITH HAMZA ABOVE WITH AE ISOLATED FORM=00FBEC" \o
      ";ARABIC LIGATURE YEH WITH HAMZA ABOVE WITH HAH INITIAL FORM=00FC98" \o
      ";ARABIC LIGATURE SHEEN WITH KHAH MEDIAL FORM=00FD39;ARABIC LIGATURE ALLAH ISOLATED FORM=00FDF2" \o
      ";ARABIC LETTER LAM FINAL FORM=00FEDE;CYPRIOT SYLLABLE SU=01082C;NABATAEAN LETTER MEM=010893" \o
      ";MANICHAEAN LETTER PE=010ADB;YEZIDI LETTER XHEYN=010E98;KAITHI VOWEL SIGN II=0110B2" \o
      ";COMBINING GRANTHA LETTER VI=011373;SOYOMBO LETTER KSSA=011A83" \o
      ";CUNEIFORM SIGN GA2 TIMES HAL=0120D2;CUNEIFORM SIGN LAGAB TIMES IGI GUNU=0121CB" \o
      ";MEDEFAIDRIN NUMBER EIGHTEEN=016E92;TANGUT COMPONENT-007=018806;TANGUT COMPONENT-016=01880F" \o
      ";TANGUT COMPONENT-025=018818;TANGUT COMPONENT-034=018821;TANGUT COMPONENT-043=01882A" \o
      ";TANGUT COMPONENT-052=018833;TANGUT COMPONENT-061=01883C;TANGUT COMPONENT-070=018845" \o
      ";TANGUT COMPONENT-106=018869;TANGUT COMPONENT-115=018872;TANGUT COMPONENT-124=01887B" \o
      ";TANGUT COMPONENT-133=018884;TANGUT COMPONENT-142=01888D;TANGUT COMPONENT-151=018896" \o
      ";TANGUT COMPONENT-160=01889F;TANGUT COMPONENT-205=0188CC;TANGUT COMPONENT-214=0188D5" \o
      ";TANGUT COMPONENT-223=0188DE;TANGUT COMPONENT-232=0188E7;TANGUT COMPONENT-241=0188F0" \o
      ";TANGUT COMPONENT-250=0188F9;TANGUT COMPONENT-304=01892F;TANGUT COMPONENT-313=018938" \o
      ";TANGUT COMPONENT-322=018941;TANGUT COMPONENT-331=01894A;TANGUT COMPONENT-340=018953" \o
      ";TANGUT COMPONENT-403=018992;TANGUT COMPONENT-412=01899B;TANGUT COMPONENT-421=0189A4" \o
      ";TANGUT COMPONENT-430=0189AD;TANGUT COMPONENT-502=0189F5;TANGUT COMPONENT-511=0189FE" \o
      ";TANGUT COMPONENT-520=018A07;TANGUT COMPONENT-601=018A58;TANGUT COMPONENT-610=018A61" \o
      ";TANGUT COMPONENT-700=018ABB;ZNAMENNY COMBINING MARK GORAZDO NIZKO S KRYZHEM ON RIGHT=01CF0C" \o
      ";ZNAMENNY NEUME STRELA KRYUKOVAYA TRYASKA=01CFBE;TETRAGRAM FOR KEEPING SMALL=01D30A" \o
      ";MATHEMATICAL SCRIPT SMALL R=01D4C7;MATHEMATICAL BOLD FRAKTUR CAPITAL B=01D56D" \o
      ";SIGNWRITING HAND-FIST RING MIDDLE RAISED KNUCKLES=01D8B6" \o
      ";SIGNWRITING TRAVEL-FLOORPLANE ROTATION-FLOORPLANE ALTERNATING=01D983" \o
      ";SIGNWRITING FILL MODIFIER-2=01DA9B;COMBINING GLAGOLITIC LETTER CHRIVI=01E01D" \o
      ";PLAYING CARD TRUMP-7=01F0E7;REGIONAL INDICATOR SYMBOL LETTER V=01F1FB" \o
      ";SMILING FACE WITH HEART-SHAPED EYES=01F60D;FACE WITH OPEN MOUTH=01F62E" \o
      ";WHITE ARROW SHAFT WIDTH TWO THIRDS=01F8AD;BANJO=01FA95;HAMSA=01FAAC",
    ";LATIN SMALL LETTER J=00006A;LATIN SMALL LETTER Z WITH DOT ABOVE=00017C" \o
      ";LATIN SMALL LETTER TONE SIX=000185;COMBINING EQUALS SIGN BELOW=000347" \o
      ";CYRILLIC SMALL LETTER SHCHA=000449;ARMENIAN CAPITAL LETTER VEW=00054E" \o
      ";HEBREW POINT QUBUTS=0005BB;ARABIC SMALL HIGH WORD SAKTA=0008DD;DEVANAGARI LETTER HA=000939" \o
      ";MALAYALAM LETTER CHA=000D1B;TIBETAN MARK HALANTA=000F84;TIBETAN SUBJOINED LETTER PA=000FA4" \o
      ";RUNIC LETTER JERAN J=0016C3;MONGOLIAN LETTER ALI GALI CA=00188B" \o
      ";LATIN SMALL LETTER N WITH DOT BELOW=001E47;SUCCEEDS OR EQUAL TO=00227D" \o
      ";EQUAL TO OR SUCCEEDS=0022DF;OCR DOUBLE BACKSLASH=00244A" \o
      ";PARENTHESIZED LATIN SMALL LETTER T=0024AF;FARSI SYMBOL=00262B;VICTORY HAND=00270C;SEDNA=002BF2" \o
      ";TIFINAGH LETTER TUAREG YAGH=002D57;KANGXI RADICAL SMALL=002F29;KANGXI RADICAL WHEAT=002FC6" \o
      ";YI RADICAL JO=00A4B3;YI RADICAL DU=00A4B9;CYRILLIC CAPITAL LETTER YERU WITH BACK YER=00A650" \o
      ";REJANG VOWEL SIGN AU=00A94C;SMALL EM DASH=00FE58;LINEAR B IDEOGRAM VESSEL B200=0100DF" \o
      ";LINEAR A SIGN A709-2 L2=010749;CYPRIOT SYLLABLE TU=010831;CYPRIOT SYLLABLE ZO=01083F" \o
      ";NABATAEAN NUMBER TEN=0108AD;INSCRIPTIONAL PARTHIAN NUMBER ONE HUNDRED=010B5E" \o
      ";KHUDAWADI LETTER DDA=0112C8;ZANABAZAR SQUARE LETTER GHA=011A0E" \o
      ";MARCHEN SUBJOINED LETTER YA=011CA9;MARCHEN VOWEL SIGN O=011CB4" \o
      ";CUNEIFORM SIGN AL TIMES KAD3=012025;CUNEIFORM SIGN URU TIMES KI=012345" \o
      ";CUNEIFORM SIGN USH TIMES KU=012353;BAMUM LETTER PHASE-B MBAARAE=01685F" \o
      ";TANGUT COMPONENT-008=018807;TANGUT COMPONENT-017=018810;TANGUT COMPONENT-026=018819" \o
      ";TANGUT COMPONENT-035=018822;TANGUT COMPONENT-044=01882B;TANGUT COMPONENT-053=018834" \o
      ";TANGUT COMPONENT-062=01883D;TANGUT COMPONENT-071=018846;TANGUT COMPONENT-080=01884F" \o
      ";TANGUT COMPONENT-107=01886A;TANGUT COMPONENT-116=018873;TANGUT COMPONENT-125=01887C" \o
      ";TANGUT COMPONENT-134=018885;TANGUT COMPONENT-143=01888E;TANGUT COMPONENT-152=018897" \o
      ";TANGUT COMPONENT-161=0188A0;TANGUT COMPONENT-170=0188A9;TANGUT COMPONENT-206=0188CD" \o
      ";TANGUT COMPONENT-215=0188D6;TANGUT COMPONENT-224=0188DF;TANGUT COMPONENT-233=0188E8" \o
      ";TANGUT COMPONENT-242=0188F1;TANGUT COMPONENT-251=0188FA;TANGUT COMPONENT-260=018903" \o
      ";TANGUT COMPONENT-305=018930;TANGUT COMPONENT-314=018939;TANGUT COMPONENT-323=018942" \o
      ";TANGUT COMPONENT-332=01894B;TANGUT COMPONENT-341=018954;TANGUT COMPONENT-350=01895D" \o
      ";TANGUT COMPONENT-404=018993;TANGUT COMPONENT-413=01899C;TANGUT COMPONENT-422=0189A5" \o
      ";TANGUT COMPONENT-431=0189AE;TANGUT COMPONENT-440=0189B7;TANGUT COMPONENT-503=0189F6" \o
      ";TANGUT COMPONENT-512=0189FF;TANGUT COMPONENT-521=018A08;TANGUT COMPONENT-530=018A11" \o
      ";TANGUT COMPONENT-602=018A59;TANGUT COMPONENT-611=018A62;TANGUT COMPONENT-620=018A6B" \o
      ";TANGUT COMPONENT-701=018ABC;TANGUT COMPONENT-710=018AC5" \o
      ";BYZANTINE MUSICAL SYMBOL ANTIKENOKYLISMA=01D062;MUSICAL SYMBOL DEGREE SLASH=01D1A9" \o
      ";COUNTING ROD TENS DIGIT SIX=01D36E;MATHEMATICAL SCRIPT SMALL S=01D4C8" \o
      ";MATHEMATICAL BOLD FRAKTUR CAPITAL C=01D56E;SIGNWRITING FILL MODIFIER-3=01DA9C" \o
      ";PLAYING CARD TRUMP-8=01F0E8;REGIONAL INDICATOR SYMBOL LETTER W=01F1FC;RADIO BUTTON=01F518" \o
      ";ONCOMING AUTOMOBILE=01F698;BRICK=01F9F1;XIANGQI BLACK CANNON=01FA6C",
    ";SPACE=000020;LATIN SMALL LETTER K=00006B;LATIN CAPITAL LETTER U WITH INVERTED BREVE=000216" \o
      ";LATIN SMALL LETTER TURNED Y=00028E;CYRILLIC CAPITAL LETTER DZE=000405" \o
      ";HEBREW ACCENT PASHTA=000599;SYRIAC MUSIC=000749;SYRIAC LETTER SOGDIAN KHAPH=00074E" \o
      ";THAANA LETTER DHAALU=00078B;DEVANAGARI LETTER AI=000910;KANNADA SIGN VISARGA=000C83" \o
      ";MALAYALAM LETTER DHA=000D27;HANGUL JUNGSEONG A-O=001176" \o
      ";RUNIC LETTER THURISAZ THURS THORN=0016A6;MONGOLIAN LETTER ALI GALI DA=001891" \o
      ";BALINESE DIGIT THREE=001B53;COMBINING GRAVE-ACUTE-GRAVE=001DC8" \o
      ";LATIN SMALL LETTER D WITH CIRCUMFLEX BELOW=001E13;LATIN SMALL LETTER O WITH DOT BELOW=001ECD" \o
      ";GREEK SMALL LETTER ALPHA WITH VARIA=001F70;COMBINING RIGHT ARROW ABOVE=0020D7" \o
      ";UPWARDS WHITE ARROW ON PEDESTAL WITH VERTICAL BAR=0021ED;APL FUNCTIONAL SYMBOL ALPHA=00237A" \o
      ";PARENTHESIZED LATIN SMALL LETTER U=0024B0;LEFT-SHADED WHITE RIGHTWARDS ARROW=0027AA" \o
      ";KANGXI RADICAL STEAM=002F53;KANGXI RADICAL STAND=002F74" \o
      ";RIGHT WHITE TORTOISE SHELL BRACKET=003019;SQUARE HAITU=00332A;SQUARE PAATU=00332C" \o
      ";HANGUL CHOSEONG RIEUL-CIEUC=00A96D" \o
      ";ARABIC LIGATURE ALEF MAKSURA WITH SUPERSCRIPT ALEF ISOLATED FORM=00FC5D" \o
      ";ARABIC LIGATURE SHADDA WITH DAMMATAN ISOLATED FORM=00FC5E" \o
      ";ARABIC LIGATURE NOON WITH HAH WITH ALEF MAKSURA FINAL FORM=00FD96;FULLWIDTH FULL STOP=00FF0E" \o
      ";LINEAR B IDEOGRAM B140 BRONZE=01009A;LINEAR B IDEOGRAM VESSEL B201=0100E0" \o
      ";LINEAR B IDEOGRAM VESSEL B210=0100E9;AEGEAN NUMBER FOUR THOUSAND=010125" \o
      ";VITHKUQI CAPITAL LETTER BBE=010571;OLD TURKIC LETTER ORKHON AY=010C16" \o
      ";OLD TURKIC LETTER ORKHON IQ=010C36;SHARADA DANDA=0111C5;GRANTHA VOWEL SIGN I=01133F" \o
      ";MARCHEN SUBJOINED LETTER ZA=011CA7;CUNEIFORM SIGN AB TIMES ASH2=01200B" \o
      ";CUNEIFORM SIGN ASAL2=012037;CUNEIFORM SIGN GA2 TIMES KAK=0120D8;TANGUT COMPONENT-009=018808" \o
      ";TANGUT COMPONENT-018=018811;TANGUT COMPONENT-027=01881A;TANGUT COMPONENT-036=018823" \o
      ";TANGUT COMPONENT-045=01882C;TANGUT COMPONENT-054=018835;TANGUT COMPONENT-063=01883E" \o
      ";TANGUT COMPONENT-072=018847;TANGUT COMPONENT-081=018850;TANGUT COMPONENT-090=018859" \o
      ";TANGUT COMPONENT-108=01886B;TANGUT COMPONENT-117=018874;TANGUT COMPONENT-126=01887D" \o
      ";TANGUT COMPONENT-135=018886;TANGUT COMPONENT-144=01888F;TANGUT COMPONENT-153=018898" \o
      ";TANGUT COMPONENT-162=0188A1;TANGUT COMPONENT-171=0188AA;TANGUT COMPONENT-180=0188B3" \o
      ";TANGUT COMPONENT-207=0188CE;TANGUT COMPONENT-216=0188D7;TANGUT COMPONENT-225=0188E0" \o
      ";TANGUT COMPONENT-234=0188E9;TANGUT COMPONENT-243=0188F2;TANGUT COMPONENT-252=0188FB" \o
      ";TANGUT COMPONENT-261=018904;TANGUT COMPONENT-270=01890D;TANGUT COMPONENT-306=018931" \o
      ";TANGUT COMPONENT-315=01893A;TANGUT COMPONENT-324=018943;TANGUT COMPONENT-333=01894C" \o
      ";TANGUT COMPONENT-342=018955;TANGUT COMPONENT-351=01895E;TANGUT COMPONENT-360=018967" \o
      ";TANGUT COMPONENT-405=018994;TANGUT COMPONENT-414=01899D;TANGUT COMPONENT-423=0189A6" \o
      ";TANGUT COMPONENT-432=0189AF;TANGUT COMPONENT-441=0189B8;TANGUT COMPONENT-450=0189C1" \o
      ";TANGUT COMPONENT-504=0189F7;TANGUT COMPONENT-513=018A00;TANGUT COMPONENT-522=018A09" \o
      ";TANGUT COMPONENT-531=018A12;TANGUT COMPONENT-540=018A1B;TANGUT COMPONENT-603=018A5A" \o
      ";TANGUT COMPONENT-612=018A63;TANGUT COMPONENT-621=018A6C;TANGUT COMPONENT-630=018A75" \o
      ";TANGUT COMPONENT-702=018ABD;TANGUT COMPONENT-711=018AC6;TANGUT COMPONENT-720=018ACF" \o
      ";ZNAMENNY NEUME DEMESTVENNY KLYUCH=01CF75" \o
      ";MUSICAL SYMBOL TRIANGLE-ROUND NOTEHEAD DOWN BLACK=01D155;MUSICAL SYMBOL BEGIN PHRASE=01D179" \o
      ";IDEOGRAPHIC TALLY MARK FOUR=01D375;MATHEMATICAL SCRIPT SMALL T=01D4C9" \o
      ";MATHEMATICAL BOLD FRAKTUR CAPITAL D=01D56F;SIGNWRITING HAND-FIST INDEX CUPPED=01D80A" \o
      ";SIGNWRITING HAND-FIST MIDDLE UP THUMB SIDE=01D8C9;SIGNWRITING MOUTH WRINKLES DOUBLE=01DA58" \o
      ";SIGNWRITING FILL MODIFIER-4=01DA9D;ADLAM INITIAL QUESTION MARK=01E95F" \o
      ";PLAYING CARD TRUMP-9=01F0E9;REGIONAL INDICATOR SYMBOL LETTER X=01F1FD;PURPLE HEART=01F49C" \o
      ";BALLOT BOLD SCRIPT X=01F5F6;LEFTWARDS COMPRESSED ARROW=01F83C" \o
      ";LEFTWARDS RIGHT-SHADED WHITE ARROW=01F8A6;RIGHTWARDS LEFT-SHADED WHITE ARROW=01F8A7" \o
      ";BRAIN=01F9E0",
    ";VERTICAL TABULATION=00000B;END OF MEDIUM=000019;COMMA=00002C;LATIN SMALL LETTER L=00006C" \o
      ";CYRILLIC SMALL LETTER OMEGA=000461;ARMENIAN CAPITAL LETTER NOW=000546" \o
      ";ARABIC SMALL HIGH THREE DOTS=0006DB;DEVANAGARI LETTER JA=00091C;GUJARATI SIGN SHADDA=000AFB" \o
      ";TIBETAN SUBJOINED LETTER RA=000FB2;ETHIOPIC SYLLABLE GLOTTAL I=0012A2" \o
      ";OGHAM LETTER IODHADH=001694;KHMER INDEPENDENT VOWEL QAI=0017B0" \o
      ";MODIFIER LETTER CYRILLIC EN=001D78;LATIN SMALL LETTER E WITH CIRCUMFLEX BELOW=001E19" \o
      ";GREEK PSILI AND PERISPOMENI=001FCF;TRIPLE PRIME=002034;INHIBIT SYMMETRIC SWAPPING=00206A" \o
      ";AUSTRAL SIGN=0020B3;PARENTHESIZED LATIN SMALL LETTER V=0024B1" \o
      ";N-ARY CIRCLED PLUS OPERATOR=002A01;KANGXI RADICAL SLASH=002F03;KANGXI RADICAL MELON=002F60" \o
      ";KANGXI RADICAL SPEAR=002F6D;KANGXI RADICAL TIGER=002F8C;KANGXI RADICAL SLAVE=002FAA" \o
      ";CIRCLED HANGUL IEUNG=003267;CIRCLED IDEOGRAPH EXCELLENT=00329D;YI RADICAL ZA=00A4B2" \o
      ";CYRILLIC CAPITAL LETTER HWE=00A694;HANGUL CHOSEONG IEUNG-HIEUH=00A977" \o
      ";ARABIC LETTER PEH FINAL FORM=00FB57;CENTRELINE OVERLINE=00FE4A" \o
      ";ARABIC LETTER TAH FINAL FORM=00FEC2;LINEAR B IDEOGRAM VESSEL B202=0100E1" \o
      ";LINEAR B IDEOGRAM VESSEL B211=0100EA;OLD PERMIC LETTER OO=01036A;OSAGE SMALL LETTER U=0104F6" \o
      ";LINEAR A SIGN A709-3 L3=01074A;CHAKMA VOWEL SIGN UU=01112B;KHUDAWADI LETTER BHA=0112D6" \o
      ";KHUDAWADI DIGIT FIVE=0112F5;KHUDAWADI DIGIT NINE=0112F9;SIDDHAM VOWEL SIGN U=0115B2" \o
      ";NANDINAGARI LETTER A=0119A0;MAKASAR VOWEL SIGN O=011EF6;CUNEIFORM SIGN GA2 TIMES KID=0120DA" \o
      ";CUNEIFORM SIGN SHAB6=0122B8;CUNEIFORM SIGN URU TIMES IM=012343" \o
      ";CUNEIFORM PUNCTUATION SIGN DIAGONAL COLON=012472" \o
      ";CUNEIFORM SIGN GABA ROTATED NINETY DEGREES=0124C9;TANGUT COMPONENT-019=018812" \o
      ";TANGUT COMPONENT-028=01881B;TANGUT COMPONENT-037=018824;TANGUT COMPONENT-046=01882D" \o
      ";TANGUT COMPONENT-055=018836;TANGUT COMPONENT-064=01883F;TANGUT COMPONENT-073=018848" \o
      ";TANGUT COMPONENT-082=018851;TANGUT COMPONENT-091=01885A;TANGUT COMPONENT-109=01886C" \o
      ";TANGUT COMPONENT-118=018875;TANGUT COMPONENT-127=01887E;TANGUT COMPONENT-136=018887" \o
      ";TANGUT COMPONENT-145=018890;TANGUT COMPONENT-154=018899;TANGUT COMPONENT-163=0188A2" \o
      ";TANGUT COMPONENT-172=0188AB;TANGUT COMPONENT-181=0188B4;TANGUT COMPONENT-190=0188BD" \o
      ";TANGUT COMPONENT-208=0188CF;TANGUT COMPONENT-217=0188D8;TANGUT COMPONENT-226=0188E1" \o
      ";TANGUT COMPONENT-235=0188EA;TANGUT COMPONENT-244=0188F3;TANGUT COMPONENT-253=0188FC" \o
      ";TANGUT COMPONENT-262=018905;TANGUT COMPONENT-271=01890E;TANGUT COMPONENT-280=018917" \o
      ";TANGUT COMPONENT-307=018932;TANGUT COMPONENT-316=01893B;TANGUT COMPONENT-325=018944" \o
      ";TANGUT COMPONENT-334=01894D;TANGUT COMPONENT-343=018956;TANGUT COMPONENT-352=01895F" \o
      ";TANGUT COMPONENT-361=018968;TANGUT COMPONENT-370=018971;TANGUT COMPONENT-406=018995" \o
      ";TANGUT COMPONENT-415=01899E;TANGUT COMPONENT-424=0189A7;TANGUT COMPONENT-433=0189B0" \o
      ";TANGUT COMPONENT-442=0189B9;TANGUT COMPONENT-451=0189C2;TANGUT COMPONENT-460=0189CB" \o
      ";TANGUT COMPONENT-505=0189F8;TANGUT COMPONENT-514=018A01;TANGUT COMPONENT-523=018A0A" \o
      ";TANGUT COMPONENT-532=018A13;TANGUT COMPONENT-541=018A1C;TANGUT COMPONENT-550=018A25" \o
      ";TANGUT COMPONENT-604=018A5B;TANGUT COMPONENT-613=018A64;TANGUT COMPONENT-622=018A6D" \o
      ";TANGUT COMPONENT-631=018A76;TANGUT COMPONENT-640=018A7F;TANGUT COMPONENT-703=018ABE" \o
      ";TANGUT COMPONENT-712=018AC7;TANGUT COMPONENT-721=018AD0;TANGUT COMPONENT-730=018AD9" \o
      ";BYZANTINE MUSICAL SYMBOL SYNAGMA ARCHAION=01D02A" \o
      ";MUSICAL SYMBOL COMBINING AUGMENTATION DOT=01D16D;MUSICAL SYMBOL TURN=01D197" \o
      ";MATHEMATICAL SCRIPT SMALL U=01D4CA;MATHEMATICAL BOLD FRAKTUR CAPITAL E=01D570" \o
      ";SIGNWRITING FILL MODIFIER-5=01DA9E;MENDE KIKAKUI SYLLABLE M014 A=01E823" \o
      ";MENDE KIKAKUI SYLLABLE M100 E=01E826;OTTOMAN SIYAQ NUMBER EIGHT HUNDRED=01ED1A" \o
      ";REGIONAL INDICATOR SYMBOL LETTER Y=01F1FE;EMOJI MODIFIER FITZPATRICK TYPE-1-2=01F3FB" \o
      ";CROSS POMMEE=01F542;PRINTER ICON=01F5B6;WATER CLOSET=01F6BE",
    ";LATIN SMALL LETTER M=00006D;GREEK LETTER DIGAMMA=0003DC" \o
      ";CYRILLIC CAPITAL LETTER CHE WITH DIAERESIS=0004F4;SYRIAC DOTTED ZLAMA ANGULAR=000739" \o
      ";ARABIC SMALL LOW WORD IMAALA=00089A;DEVANAGARI LETTER KA=000915;ORIYA ISSHAR=000B70" \o
      ";TIBETAN VOWEL SIGN I=000F72;TIBETAN SUBJOINED LETTER SA=000FB6" \o
      ";TIBETAN CANTILLATION SIGN CANG TE-U=000FC2;HANGUL CHOSEONG PIEUP-CIEUC=001127" \o
      ";CANADIAN SYLLABICS Y=00153E;TAI THAM SIGN REVERSED ROTATED RANA=001AA6" \o
      ";MODIFIER LETTER SMALL SCHWA=001D4A;MODIFIER LETTER SMALL THETA=001DBF" \o
      ";LATIN CAPITAL LETTER U WITH TILDE AND ACUTE=001E78;DOTTED CROSS=00205C" \o
      ";LEFT PARENTHESIS EXTENSION=00239C;PARENTHESIZED LATIN SMALL LETTER W=0024B2" \o
      ";TILDE WITH DOT BELOW=002E1F;HANGUL LETTER ARAEAE=00318E;SQUARE KEESU=00331C;SQUARE PEEZI=00333B" \o
      ";IDEOGRAPHIC TELEGRAPH SYMBOL FOR DAY THREE=0033E2;YI RADICAL CY=00A4BC" \o
      ";JAVANESE PADA TIRTA TUMETES=00A9DE;CHAM LETTER E=00AA03" \o
      ";LATIN SMALL LETTER U WITH LEFT HOOK=00AB52;HANGUL JUNGSEONG I-I=00D7C4" \o
      ";ARABIC LIGATURE DAD WITH JEEM ISOLATED FORM=00FC22" \o
      ";ARABIC LIGATURE KAF WITH ALEF ISOLATED FORM=00FC37" \o
      ";ARABIC LIGATURE YEH WITH HAMZA ABOVE WITH HEH INITIAL FORM=00FC9B;FULLWIDTH AMPERSAND=00FF06" \o
      ";LINEAR B IDEOGRAM VESSEL B203=0100E2;LINEAR B IDEOGRAM VESSEL B212=0100EB" \o
      ";LINEAR B IDEOGRAM VESSEL B221=0100F3;AEGEAN WEIGHT THIRD SUBUNIT=01013A" \o
      ";OSMANYA LETTER NUUN=010492;KAITHI VOWEL SIGN AU=0110B8;KHUDAWADI LETTER CHA=0112C1" \o
      ";CUNEIFORM SIGN U GUD=01230C;TANGUT COMPONENT-029=01881C;TANGUT COMPONENT-038=018825" \o
      ";TANGUT COMPONENT-047=01882E;TANGUT COMPONENT-056=018837;TANGUT COMPONENT-065=018840" \o
      ";TANGUT COMPONENT-074=018849;TANGUT COMPONENT-083=018852;TANGUT COMPONENT-092=01885B" \o
      ";TANGUT COMPONENT-119=018876;TANGUT COMPONENT-128=01887F;TANGUT COMPONENT-137=018888" \o
      ";TANGUT COMPONENT-146=018891;TANGUT COMPONENT-155=01889A;TANGUT COMPONENT-164=0188A3" \o
      ";TANGUT COMPONENT-173=0188AC;TANGUT COMPONENT-182=0188B5;TANGUT COMPONENT-191=0188BE" \o
      ";TANGUT COMPONENT-209=0188D0;TANGUT COMPONENT-218=0188D9;TANGUT COMPONENT-227=0188E2" \o
      ";TANGUT COMPONENT-236=0188EB;TANGUT COMPONENT-245=0188F4;TANGUT COMPONENT-254=0188FD" \o
      ";TANGUT COMPONENT-263=018906;TANGUT COMPONENT-272=01890F;TANGUT COMPONENT-281=018918" \o
      ";TANGUT COMPONENT-290=018921;TANGUT COMPONENT-308=018933;TANGUT COMPONENT-317=01893C" \o
      ";TANGUT COMPONENT-326=018945;TANGUT COMPONENT-335=01894E;TANGUT COMPONENT-344=018957" \o
      ";TANGUT COMPONENT-353=018960;TANGUT COMPONENT-362=018969;TANGUT COMPONENT-371=018972" \o
      ";TANGUT COMPONENT-380=01897B;TANGUT COMPONENT-407=018996;TANGUT COMPONENT-416=01899F" \o
      ";TANGUT COMPONENT-425=0189A8;TANGUT COMPONENT-434=0189B1;TANGUT COMPONENT-443=0189BA" \o
      ";TANGUT COMPONENT-452=0189C3;TANGUT COMPONENT-461=0189CC;TANGUT COMPONENT-470=0189D5" \o
      ";TANGUT COMPONENT-506=0189F9;TANGUT COMPONENT-515=018A02;TANGUT COMPONENT-524=018A0B" \o
      ";TANGUT COMPONENT-533=018A14;TANGUT COMPONENT-542=018A1D;TANGUT COMPONENT-551=018A26" \o
      ";TANGUT COMPONENT-560=018A2F;TANGUT COMPONENT-605=018A5C;TANGUT COMPONENT-614=018A65" \o
      ";TANGUT COMPONENT-623=018A6E;TANGUT COMPONENT-632=018A77;TANGUT COMPONENT-641=018A80" \o
      ";TANGUT COMPONENT-650=018A89;TANGUT COMPONENT-704=018ABF;TANGUT COMPONENT-713=018AC8" \o
      ";TANGUT COMPONENT-722=018AD1;TANGUT COMPONENT-731=018ADA;TANGUT COMPONENT-740=018AE3" \o
      ";BYZANTINE MUSICAL SYMBOL KRATIMOKOUFISMA=01D04C;MATHEMATICAL SCRIPT SMALL V=01D4CB" \o
      ";MATHEMATICAL BOLD FRAKTUR CAPITAL F=01D571;MATHEMATICAL BOLD ITALIC SMALL ZETA=01D73B" \o
      ";SIGNWRITING HAND-FLAT FOUR FINGERS=01D844" \o
      ";SIGNWRITING HAND-CIRCLE INDEX MIDDLE CROSS LITTLE=01D8AA;SIGNWRITING LOCATION WIDTH=01DA82" \o
      ";SIGNWRITING FILL MODIFIER-6=01DA9F;REGIONAL INDICATOR SYMBOL LETTER Z=01F1FF" \o
      ";SPORTS MEDAL=01F3C5;BUSTS IN SILHOUETTE=01F465;WHITE SQUARE BUTTON=01F533" \o
      ";UPWARDS HEAVY ARROW=01F845",
    ";LATIN SMALL LETTER N=00006E;LATIN SMALL LETTER TURNED H WITH FISHHOOK AND TAIL=0002AF" \o
      ";DEVANAGARI LETTER LA=000932;MALAYALAM LETTER GHA=000D18;LAO DIGIT ONE=000ED1" \o
      ";TIBETAN SUBJOINED LETTER TA=000F9F;TAI THAM VOWEL SIGN OA BELOW=001A6C" \o
      ";LATIN SMALL LETTER R WITH DOT BELOW=001E5B;GREEK SMALL LETTER OMEGA WITH VARIA=001F7C" \o
      ";CARET=002038;APL FUNCTIONAL SYMBOL OMEGA=002375;PARENTHESIZED LATIN SMALL LETTER X=0024B3" \o
      ";CIRCLE WITH LOWER HALF BLACK=0025D2;UNIVERSAL RECYCLING SYMBOL=002672" \o
      ";ROTATED FLORAL HEART BULLET=002767;DINGBAT NEGATIVE CIRCLED DIGIT FOUR=002779" \o
      ";SUPERSET PRECEDING SOLIDUS=0027C9;MULTIPLICATION SIGN WITH DOT ABOVE=002A30" \o
      ";TIFINAGH LETTER TUAREG YAKH=002D46;PARENTHESIZED IDEOGRAPH SUPERVISE=00323C;SQUARE HURAN=003335" \o
      ";SQUARE MAIRU=003344;CYRILLIC SMALL LETTER MONOGRAPH UK=00A64B" \o
      ";COMBINING CYRILLIC THOUSAND MILLIONS SIGN=00A672;REJANG VOWEL SIGN EU=00A94D" \o
      ";JAVANESE DIGIT EIGHT=00A9D8;LATIN SMALL LETTER TS DIGRAPH WITH RETROFLEX HOOK=00AB67" \o
      ";ARABIC LIGATURE BEH WITH KHAH ISOLATED FORM=00FC07" \o
      ";ARABIC LIGATURE SHEEN WITH JEEM MEDIAL FORM=00FD37;ARABIC LETTER REH FINAL FORM=00FEAE" \o
      ";HALFWIDTH HANGUL LETTER SSANGCIEUC=00FFB9;LINEAR B MONOGRAM B128 KANAKO=010094" \o
      ";LINEAR B IDEOGRAM VESSEL B204=0100E3;LINEAR B IDEOGRAM VESSEL B213=0100EC" \o
      ";LINEAR B IDEOGRAM VESSEL B222=0100F4;OLD ITALIC LETTER UU=01031E;LINEAR A SIGN A709-4 L4=01074B" \o
      ";KHUDAWADI LETTER DHA=0112D0;ZANABAZAR SQUARE LETTER KHA=011A0C" \o
      ";CUNEIFORM SIGN GA2 TIMES GAR=0120CC;CUNEIFORM SIGN SHIR OVER SHIR BUR OVER BUR=0122D5" \o
      ";CUNEIFORM SIGN GA2 TIMES DUG TIMES IGI GUNU=0124B8;CUNEIFORM SIGN GA2 TIMES LAM=0124C0" \o
      ";BASSA VAH COMBINING MID TONE=016AF2;PAHAWH HMONG CONSONANT HLAU=016B25" \o
      ";MEDEFAIDRIN SMALL LETTER YU=016E73;MIAO VOWEL SIGN UANG=016F6D;TANGUT COMPONENT-039=018826" \o
      ";TANGUT COMPONENT-048=01882F;TANGUT COMPONENT-057=018838;TANGUT COMPONENT-066=018841" \o
      ";TANGUT COMPONENT-075=01884A;TANGUT COMPONENT-084=018853;TANGUT COMPONENT-093=01885C" \o
      ";TANGUT COMPONENT-129=018880;TANGUT COMPONENT-138=018889;TANGUT COMPONENT-147=018892" \o
      ";TANGUT COMPONENT-156=01889B;TANGUT COMPONENT-165=0188A4;TANGUT COMPONENT-174=0188AD" \o
      ";TANGUT COMPONENT-183=0188B6;TANGUT COMPONENT-192=0188BF;TANGUT COMPONENT-219=0188DA" \o
      ";TANGUT COMPONENT-228=0188E3;TANGUT COMPONENT-237=0188EC;TANGUT COMPONENT-246=0188F5" \o
      ";TANGUT COMPONENT-255=0188FE;TANGUT COMPONENT-264=018907;TANGUT COMPONENT-273=018910" \o
      ";TANGUT COMPONENT-282=018919;TANGUT COMPONENT-291=018922;TANGUT COMPONENT-309=018934" \o
      ";TANGUT COMPONENT-318=01893D;TANGUT COMPONENT-327=018946;TANGUT COMPONENT-336=01894F" \o
      ";TANGUT COMPONENT-345=018958;TANGUT COMPONENT-354=018961;TANGUT COMPONENT-363=01896A" \o
      ";TANGUT COMPONENT-372=018973;TANGUT COMPONENT-381=01897C;TANGUT COMPONENT-390=018985" \o
      ";TANGUT COMPONENT-408=018997;TANGUT COMPONENT-417=0189A0;TANGUT COMPONENT-426=0189A9" \o
      ";TANGUT COMPONENT-435=0189B2;TANGUT COMPONENT-444=0189BB;TANGUT COMPONENT-453=0189C4" \o
      ";TANGUT COMPONENT-462=0189CD;TANGUT COMPONENT-471=0189D6;TANGUT COMPONENT-480=0189DF" \o
      ";TANGUT COMPONENT-507=0189FA;TANGUT COMPONENT-516=018A03;TANGUT COMPONENT-525=018A0C" \o
      ";TANGUT COMPONENT-534=018A15;TANGUT COMPONENT-543=018A1E;TANGUT COMPONENT-552=018A27" \o
      ";TANGUT COMPONENT-561=018A30;TANGUT COMPONENT-570=018A39;TANGUT COMPONENT-606=018A5D" \o
      ";TANGUT COMPONENT-615=018A66;TANGUT COMPONENT-624=018A6F;TANGUT COMPONENT-633=018A78" \o
      ";TANGUT COMPONENT-642=018A81;TANGUT COMPONENT-651=018A8A;TANGUT COMPONENT-660=018A93" \o
      ";TANGUT COMPONENT-705=018AC0;TANGUT COMPONENT-714=018AC9;TANGUT COMPONENT-723=018AD2" \o
      ";TANGUT COMPONENT-732=018ADB;TANGUT COMPONENT-741=018AE4;TANGUT COMPONENT-750=018AED" \o
      ";MATHEMATICAL SCRIPT SMALL W=01D4CC;MATHEMATICAL BOLD FRAKTUR CAPITAL G=01D572" \o
      ";DOMINO TILE HORIZONTAL BACK=01F030;SQUARE HIRAGANA HOKA=01F200;CANDY=01F36C;PAGER=01F4DF" \o
      ";RADIO=01F4FB;THREE SPEECH BUBBLES=01F5EB;ROUND TARGET=01F78B" \o
      ";DOWNWARDS ARROW WITH SMALL EQUILATERAL ARROWHEAD=01F813;LEFT RIGHT SANS-SERIF ARROW=01F858" \o
      ";SCARF=01F9E3;POTTED PLANT=01FAB4;TAG DIGIT ONE=0E0031",
    ";LATIN SMALL LETTER O=00006F;CYRILLIC CAPITAL LETTER ZHE=000416" \o
      ";CYRILLIC CAPITAL LETTER KSI=00046E;ARMENIAN APOSTROPHE=00055A;DEVANAGARI LETTER MA=00092E" \o
      ";BENGALI SIGN VISARGA=000983;GURMUKHI IRI=000A72;HANGUL JUNGSEONG O-E=001180" \o
      ";ETHIOPIC SYLLABLE BA=001260;MONGOLIAN LETTER ALI GALI AH=001897" \o
      ";LATIN SMALL LETTER S WITH DOT BELOW=001E63;SUBSCRIPT LEFT PARENTHESIS=00208D" \o
      ";PARENTHESIZED LATIN SMALL LETTER Y=0024B4;WHITE LEFT-POINTING SMALL TRIANGLE=0025C3" \o
      ";THREE LINES CONVERGING LEFT=00269F;SHORT UP TACK ABOVE SHORT DOWN TACK=002AE9" \o
      ";COMBINING CYRILLIC LETTER O=002DEA;KANGXI RADICAL ENTER=002F0A" \o
      ";LISU PUNCTUATION FULL STOP=00A4FF;CYRILLIC SMALL LETTER REVERSED TSE=00A661" \o
      ";ARABIC LIGATURE AZZA WA JALL=00FDFF;LINEAR B IDEOGRAM VESSEL B205=0100E4" \o
      ";LINEAR B IDEOGRAM VESSEL B214=0100ED;LINEAR B IDEOGRAM VESSEL B250=0100F9" \o
      ";GREEK ACROPHONIC ATTIC ONE HUNDRED TALENTS=01014B;KHOJKI VOWEL SIGN II=01122E" \o
      ";PAU CIN HAU RISING TONE LONG=011AE5;PAU CIN HAU LOW-FALLING TONE=011AF4" \o
      ";BHAIKSUKI LETTER VOCALIC RR=011C07;CUNEIFORM SIGN BALAG=012046" \o
      ";CUNEIFORM SIGN GA2 TIMES DUB=0120C6;CUNEIFORM SIGN LAGAB=0121B8" \o
      ";CUNEIFORM SIGN URU TIMES UD=01234D;CUNEIFORM SIGN EZEN SHESHIG TIMES IGI GUNU=0124AF" \o
      ";TANGUT COMPONENT-049=018830;TANGUT COMPONENT-058=018839;TANGUT COMPONENT-067=018842" \o
      ";TANGUT COMPONENT-076=01884B;TANGUT COMPONENT-085=018854;TANGUT COMPONENT-094=01885D" \o
      ";TANGUT COMPONENT-139=01888A;TANGUT COMPONENT-148=018893;TANGUT COMPONENT-157=01889C" \o
      ";TANGUT COMPONENT-166=0188A5;TANGUT COMPONENT-175=0188AE;TANGUT COMPONENT-184=0188B7" \o
      ";TANGUT COMPONENT-193=0188C0;TANGUT COMPONENT-229=0188E4;TANGUT COMPONENT-238=0188ED" \o
      ";TANGUT COMPONENT-247=0188F6;TANGUT COMPONENT-256=0188FF;TANGUT COMPONENT-265=018908" \o
      ";TANGUT COMPONENT-274=018911;TANGUT COMPONENT-283=01891A;TANGUT COMPONENT-292=018923" \o
      ";TANGUT COMPONENT-319=01893E;TANGUT COMPONENT-328=018947;TANGUT COMPONENT-337=018950" \o
      ";TANGUT COMPONENT-346=018959;TANGUT COMPONENT-355=018962;TANGUT COMPONENT-364=01896B" \o
      ";TANGUT COMPONENT-373=018974;TANGUT COMPONENT-382=01897D;TANGUT COMPONENT-391=018986" \o
      ";TANGUT COMPONENT-409=018998;TANGUT COMPONENT-418=0189A1;TANGUT COMPONENT-427=0189AA" \o
      ";TANGUT COMPONENT-436=0189B3;TANGUT COMPONENT-445=0189BC;TANGUT COMPONENT-454=0189C5" \o
      ";TANGUT COMPONENT-463=0189CE;TANGUT COMPONENT-472=0189D7;TANGUT COMPONENT-481=0189E0" \o
      ";TANGUT COMPONENT-490=0189E9;TANGUT COMPONENT-508=0189FB;TANGUT COMPONENT-517=018A04" \o
      ";TANGUT COMPONENT-526=018A0D;TANGUT COMPONENT-535=018A16;TANGUT COMPONENT-544=018A1F" \o
      ";TANGUT COMPONENT-553=018A28;TANGUT COMPONENT-562=018A31;TANGUT COMPONENT-571=018A3A" \o
      ";TANGUT COMPONENT-580=018A43;TANGUT COMPONENT-607=018A5E;TANGUT COMPONENT-616=018A67" \o
      ";TANGUT COMPONENT-625=018A70;TANGUT COMPONENT-634=018A79;TANGUT COMPONENT-643=018A82" \o
      ";TANGUT COMPONENT-652=018A8B;TANGUT COMPONENT-661=018A94;TANGUT COMPONENT-670=018A9D" \o
      ";TANGUT COMPONENT-706=018AC1;TANGUT COMPONENT-715=018ACA;TANGUT COMPONENT-724=018AD3" \o
      ";TANGUT COMPONENT-733=018ADC;TANGUT COMPONENT-742=018AE5;TANGUT COMPONENT-751=018AEE" \o
      ";TANGUT COMPONENT-760=018AF7;BYZANTINE MUSICAL SYMBOL OXEIA NEO=01D048" \o
      ";MUSICAL SYMBOL RINFORZANDO=01D18C;MATHEMATICAL SCRIPT SMALL X=01D4CD" \o
      ";MATHEMATICAL BOLD FRAKTUR CAPITAL H=01D573;MATHEMATICAL ITALIC EPSILON SYMBOL=01D716" \o
      ";SIGNWRITING EYELASHES DOWN=01DA1F;YELLOW HEART=01F49B;WHITE FLOWER=01F4AE;PAGES=01F5D0" \o
      ";NINJA=01F977;T-REX=01F996",
    ";LATIN SMALL LETTER P=000070;PILCROW SIGN=0000B6;LATIN SMALL LETTER TONE TWO=0001A8" \o
      ";MODIFIER LETTER MIDDLE GRAVE ACCENT=0002F4" \o
      ";ARABIC LETTER BEH WITH TWO DOTS BELOW AND DOT ABOVE=000754;SYRIAC LETTER MALAYALAM SSA=00086A" \o
      ";DEVANAGARI LETTER NA=000928;ETHIOPIC SYLLABLE CA=001278;KHMER SYMBOL PRAM-BUON KOET=0019E9" \o
      ";TAI THAM SIGN MAI SAM=001A7B;LATIN SMALL LETTER T WITH DOT BELOW=001E6D" \o
      ";LATIN SMALL LETTER O WITH CIRCUMFLEX AND DOT BELOW=001ED9" \o
      ";GREEK CAPITAL LETTER ALPHA WITH DASIA AND PERISPOMENI AND PROSGEGRAMMENI=001F8F" \o
      ";LEFTWARDS OPEN-HEADED ARROW=0021FD;PARENTHESIZED LATIN SMALL LETTER Z=0024B5" \o
      ";CLOSED SUPERSET OR EQUAL TO=002AD2;TIFINAGH LETTER TUAREG YAGN=002D50" \o
      ";TIFINAGH LETTER TUAREG YANG=002D51;KANGXI RADICAL COVER=002F0D;KANGXI RADICAL COLOR=002F8A" \o
      ";SQUARE PONDO=003340;YI RADICAL OP=00A4A9;PHAGS-PA LETTER TSHA=00A851" \o
      ";KAYAH LI TONE PLOPHU=00A92B" \o
      ";ARABIC LIGATURE UIGHUR KIRGHIZ YEH WITH HAMZA ABOVE WITH ALEF MAKSURA FINAL FORM=00FBFA" \o
      ";ARABIC LIGATURE KHAH WITH HAH ISOLATED FORM=00FC1A" \o
      ";ARABIC LIGATURE DAD WITH MEEM ISOLATED FORM=00FC25;ARABIC LETTER TEH FINAL FORM=00FE96" \o
      ";LINEAR B IDEOGRAM VESSEL B206=0100E5;LINEAR B IDEOGRAM VESSEL B215=0100EE" \o
      ";LINEAR B IDEOGRAM VESSEL B305=0100FA;OLD NORTH ARABIAN LETTER DAD=010A93" \o
      ";OLD TURKIC LETTER ORKHON EZ=010C14;OLD TURKIC LETTER ORKHON OP=010C30" \o
      ";KHUDAWADI LETTER GGA=0112BD;NANDINAGARI LETTER E=0119AA;ZANABAZAR SQUARE LETTER NGA=011A0F" \o
      ";ZANABAZAR SQUARE MARK TSHEG=011A41;PAU CIN HAU LETTER BA=011ACC;MARCHEN VOWEL SIGN U=011CB2" \o
      ";CUNEIFORM SIGN GA2 TIMES ASH=0120BD;CUNEIFORM SIGN GAL GAD OVER GAD GAR OVER GAR=0120F3" \o
      ";CUNEIFORM SIGN LUM OVER LUM=01221E;PAHAWH HMONG CONSONANT HNAU=016B29" \o
      ";MIAO VOWEL SIGN IONG=016F86;TANGUT COMPONENT-059=01883A;TANGUT COMPONENT-068=018843" \o
      ";TANGUT COMPONENT-077=01884C;TANGUT COMPONENT-086=018855;TANGUT COMPONENT-095=01885E" \o
      ";TANGUT COMPONENT-149=018894;TANGUT COMPONENT-158=01889D;TANGUT COMPONENT-167=0188A6" \o
      ";TANGUT COMPONENT-176=0188AF;TANGUT COMPONENT-185=0188B8;TANGUT COMPONENT-194=0188C1" \o
      ";TANGUT COMPONENT-239=0188EE;TANGUT COMPONENT-248=0188F7;TANGUT COMPONENT-257=018900" \o
      ";TANGUT COMPONENT-266=018909;TANGUT COMPONENT-275=018912;TANGUT COMPONENT-284=01891B" \o
      ";TANGUT COMPONENT-293=018924;TANGUT COMPONENT-329=018948;TANGUT COMPONENT-338=018951" \o
      ";TANGUT COMPONENT-347=01895A;TANGUT COMPONENT-356=018963;TANGUT COMPONENT-365=01896C" \o
      ";TANGUT COMPONENT-374=018975;TANGUT COMPONENT-383=01897E;TANGUT COMPONENT-392=018987" \o
      ";TANGUT COMPONENT-419=0189A2;TANGUT COMPONENT-428=0189AB;TANGUT COMPONENT-437=0189B4" \o
      ";TANGUT COMPONENT-446=0189BD;TANGUT COMPONENT-455=0189C6;TANGUT COMPONENT-464=0189CF" \o
      ";TANGUT COMPONENT-473=0189D8;TANGUT COMPONENT-482=0189E1;TANGUT COMPONENT-491=0189EA" \o
      ";TANGUT COMPONENT-509=0189FC;TANGUT COMPONENT-518=018A05;TANGUT COMPONENT-527=018A0E" \o
      ";TANGUT COMPONENT-536=018A17;TANGUT COMPONENT-545=018A20;TANGUT COMPONENT-554=018A29" \o
      ";TANGUT COMPONENT-563=018A32;TANGUT COMPONENT-572=018A3B;TANGUT COMPONENT-581=018A44" \o
      ";TANGUT COMPONENT-590=018A4D;TANGUT COMPONENT-608=018A5F;TANGUT COMPONENT-617=018A68" \o
      ";TANGUT COMPONENT-626=018A71;TANGUT COMPONENT-635=018A7A;TANGUT COMPONENT-644=018A83" \o
      ";TANGUT COMPONENT-653=018A8C;TANGUT COMPONENT-662=018A95;TANGUT COMPONENT-671=018A9E" \o
      ";TANGUT COMPONENT-680=018AA7;TANGUT COMPONENT-707=018AC2;TANGUT COMPONENT-716=018ACB" \o
      ";TANGUT COMPONENT-725=018AD4;TANGUT COMPONENT-734=018ADD;TANGUT COMPONENT-743=018AE6" \o
      ";TANGUT COMPONENT-752=018AEF;TANGUT COMPONENT-761=018AF8;GREEK MUSICAL LEIMMA=01D245" \o
      ";COUNTING ROD UNIT DIGIT SIX=01D365;COUNTING ROD TENS DIGIT TWO=01D36A" \o
      ";MATHEMATICAL SCRIPT SMALL Y=01D4CE;MATHEMATICAL BOLD FRAKTUR CAPITAL I=01D574" \o
      ";SIGNWRITING HAND-FLAT SPLIT CENTRE=01D862;SIGNWRITING STRIKE BETWEEN=01D90D" \o
      ";SIGNWRITING MOVEMENT-WALLPLANE BEND LARGE=01D93A;COMBINING GLAGOLITIC LETTER POKOJI=01E012" \o
      ";CIRCLED HUMAN FIGURE=01F16F;GLOWING STAR=01F31F;WHALE=01F40B;JEANS=01F456;HOCHO=01F52A" \o
      ";SMALL ORANGE DIAMOND=01F538;RIGHTWARDS WHITE ARROW WITHIN TRIANGLE ARROWHEAD=01F896" \o
      ";X-RAY=01FA7B;CORAL=01FAB8",
    ";LATIN SMALL LETTER Q=000071;TILDE=00007E;ARABIC LETTER HIGH HAMZA WAW=000676" \o
      ";SYRIAC LETTER FINAL SEMKATH=000724;SYRIAC LETTER MALAYALAM NYA=000862" \o
      ";MALAYALAM LETTER JHA=000D1D;TIBETAN SUBJOINED LETTER WA=000FAD;HANGUL JUNGSEONG A-U=001177" \o
      ";HANGUL JUNGSEONG U-A=001189;ETHIOPIC SYLLABLE DA=0012F0;TAGALOG VOWEL SIGN U=001713" \o
      ";VEDIC SIGN VISARGA UDATTA WITH TAIL=001CE7;LATIN SMALL LETTER U WITH DOT BELOW=001EE5" \o
      ";HRYVNIA SIGN=0020B4;PLANCK CONSTANT OVER TWO PI=00210F;UPWARDS WHITE ARROW=0021E7" \o
      ";DOUBLE INTERSECTION=0022D2;WHITE SQUARE=0025A1;CIRCLE WITH UPPER HALF BLACK=0025D3;CERES=0026B3" \o
      ";DINGBAT NEGATIVE CIRCLED NUMBER TEN=00277F;LEFTWARDS DOUBLE DASH ARROW=00290C" \o
      ";UPWARDS TWO-HEADED ARROW FROM SMALL CIRCLE=002949;LOGICAL AND WITH MIDDLE STEM=002A5A" \o
      ";BLACK MEDIUM LOZENGE=002B27;LATIN SMALL LETTER H WITH DESCENDER=002C68" \o
      ";COPTIC CAPITAL LETTER BOHAIRIC KHEI=002CF2;KANGXI RADICAL BOLT OF CLOTH=002F66" \o
      ";KANGXI RADICAL GRASS=002F8B;KANGXI RADICAL FLUTE=002FD5" \o
      ";KATAKANA-HIRAGANA VOICED SOUND MARK=00309B;CIRCLED HANGUL MIEUM=003264" \o
      ";HEXAGRAM FOR BITING THROUGH=004DD4;LATIN CAPITAL LETTER G WITH OBLIQUE STROKE=00A7A0" \o
      ";PHAGS-PA LETTER TTHA=00A86A;CHAM LETTER I=00AA01" \o
      ";ARABIC LIGATURE KAF WITH KHAH ISOLATED FORM=00FC3A" \o
      ";ARABIC LIGATURE SHEEN WITH MEEM MEDIAL FORM=00FCE9;LINEAR B IDEOGRAM VESSEL B207=0100E6" \o
      ";LINEAR B IDEOGRAM VESSEL B216=0100EF;OLD TURKIC LETTER ORKHON OQ=010C38" \o
      ";SHARADA SIGN VISARGA=011182;KHUDAWADI LETTER GHA=0112BE;SIDDHAM DANDA=0115C2" \o
      ";PAU CIN HAU LETTER CA=011ACD;CUNEIFORM SIGN GUD TIMES A PLUS KUR=01211F" \o
      ";CUNEIFORM SIGN AD TIMES ESH2=012482;TANGUT COMPONENT-069=018844;TANGUT COMPONENT-078=01884D" \o
      ";TANGUT COMPONENT-087=018856;TANGUT COMPONENT-096=01885F;TANGUT COMPONENT-159=01889E" \o
      ";TANGUT COMPONENT-168=0188A7;TANGUT COMPONENT-177=0188B0;TANGUT COMPONENT-186=0188B9" \o
      ";TANGUT COMPONENT-195=0188C2;TANGUT COMPONENT-249=0188F8;TANGUT COMPONENT-258=018901" \o
      ";TANGUT COMPONENT-267=01890A;TANGUT COMPONENT-276=018913;TANGUT COMPONENT-285=01891C" \o
      ";TANGUT COMPONENT-294=018925;TANGUT COMPONENT-339=018952;TANGUT COMPONENT-348=01895B" \o
      ";TANGUT COMPONENT-357=018964;TANGUT COMPONENT-366=01896D;TANGUT COMPONENT-375=018976" \o
      ";TANGUT COMPONENT-384=01897F;TANGUT COMPONENT-393=018988;TANGUT COMPONENT-429=0189AC" \o
      ";TANGUT COMPONENT-438=0189B5;TANGUT COMPONENT-447=0189BE;TANGUT COMPONENT-456=0189C7" \o
      ";TANGUT COMPONENT-465=0189D0;TANGUT COMPONENT-474=0189D9;TANGUT COMPONENT-483=0189E2" \o
      ";TANGUT COMPONENT-492=0189EB;TANGUT COMPONENT-519=018A06;TANGUT COMPONENT-528=018A0F" \o
      ";TANGUT COMPONENT-537=018A18;TANGUT COMPONENT-546=018A21;TANGUT COMPONENT-555=018A2A" \o
      ";TANGUT COMPONENT-564=018A33;TANGUT COMPONENT-573=018A3C;TANGUT COMPONENT-582=018A45" \o
      ";TANGUT COMPONENT-591=018A4E;TANGUT COMPONENT-609=018A60;TANGUT COMPONENT-618=018A69" \o
      ";TANGUT COMPONENT-627=018A72;TANGUT COMPONENT-636=018A7B;TANGUT COMPONENT-645=018A84" \o
      ";TANGUT COMPONENT-654=018A8D;TANGUT COMPONENT-663=018A96;TANGUT COMPONENT-672=018A9F" \o
      ";TANGUT COMPONENT-681=018AA8;TANGUT COMPONENT-690=018AB1;TANGUT COMPONENT-708=018AC3" \o
      ";TANGUT COMPONENT-717=018ACC;TANGUT COMPONENT-726=018AD5;TANGUT COMPONENT-735=018ADE" \o
      ";TANGUT COMPONENT-744=018AE7;TANGUT COMPONENT-753=018AF0;TANGUT COMPONENT-762=018AF9" \o
      ";NUSHU CHARACTER-1B200=01B200;TETRAGRAM FOR BRANCHING OUT=01D30E" \o
      ";MATHEMATICAL SCRIPT SMALL Z=01D4CF;MATHEMATICAL BOLD FRAKTUR CAPITAL J=01D575" \o
      ";SIGNWRITING ROTATION-WALLPLANE ALTERNATE=01D9A4;SNAKE=01F40D;RIFLE=01F946;MANGO=01F96D",
    ";INFORMATION SEPARATOR FOUR=00001C;LATIN SMALL LETTER R=000072;CARON=0002C7" \o
      ";COMBINING RING ABOVE=00030A;THAANA LETTER SAADHU=00079E;SYRIAC LETTER MALAYALAM TTA=000863" \o
      ";ARABIC SMALL HIGH SAD=0008D5;ARABIC SMALL HIGH AIN=0008D6;ARABIC SMALL HIGH QAF=0008D7" \o
      ";DEVANAGARI LETTER PA=00092A;MALAYALAM LETTER KHA=000D16" \o
      ";HANGUL CHOSEONG CHITUEUMSSANGSIOS=00113D;ETHIOPIC SYLLABLE GLOTTAL O=0012A6" \o
      ";MONGOLIAN LETTER MANCHU ZHA=001877;MONGOLIAN LETTER ALI GALI KA=001889" \o
      ";KHMER SYMBOL PII ROC=0019F2;LATIN SMALL LETTER V WITH DOT BELOW=001E7F" \o
      ";GREEK CAPITAL LETTER ETA WITH PSILI=001F28;AKTIESELSKAB=00214D" \o
      ";CLOCKWISE OPEN CIRCLE ARROW=0021BB;DOT OPERATOR=0022C5;LOWER RIGHT CORNER WITH DOT=0027D3" \o
      ";LARGE UP TACK=0027D8;EQUALS SIGN ABOVE RIGHTWARDS ARROW=002971;BLACK SQUARE CENTRED=002BC0" \o
      ";KANGXI RADICAL WHITE=002F69;KANGXI RADICAL HORSE=002FBA;SQUARE YAARU=00334F" \o
      ";VAI DIGIT ONE=00A621;LATIN CAPITAL LETTER THORN WITH STROKE THROUGH DESCENDER=00A766" \o
      ";HEBREW LETTER SHIN WITH DAGESH AND SHIN DOT=00FB2C;ARABIC LETTER VEH FINAL FORM=00FB6B" \o
      ";ARABIC LIGATURE FEH WITH KHAH ISOLATED FORM=00FC2F;ARABIC LETTER ZAH FINAL FORM=00FEC6" \o
      ";LINEAR B IDEOGRAM VESSEL B208=0100E7;LINEAR B IDEOGRAM VESSEL B217=0100F0" \o
      ";LINEAR B IDEOGRAM VESSEL B226=0100F5;COPTIC EPACT THOUSANDS MARK=0102E0" \o
      ";VITHKUQI CAPITAL LETTER CHE=010574;LINEAR A SIGN A709-6 L6=01074C" \o
      ";PSALTER PAHLAVI LETTER BETH=010B81;PAU CIN HAU LETTER DA=011AC4;MASARAM GONDI VIRAMA=011D45" \o
      ";GUNJALA GONDI VIRAMA=011D97;MAKASAR VOWEL SIGN U=011EF4;CUNEIFORM SIGN LAGAB TIMES A=0121B9" \o
      ";CUNEIFORM SIGN TIR OVER TIR=012303;CUNEIFORM SIGN URU TIMES GU=012340" \o
      ";CUNEIFORM SIGN UR2 INVERTED=01253C;TANGUT COMPONENT-079=01884E;TANGUT COMPONENT-088=018857" \o
      ";TANGUT COMPONENT-097=018860;TANGUT COMPONENT-169=0188A8;TANGUT COMPONENT-178=0188B1" \o
      ";TANGUT COMPONENT-187=0188BA;TANGUT COMPONENT-196=0188C3;TANGUT COMPONENT-259=018902" \o
      ";TANGUT COMPONENT-268=01890B;TANGUT COMPONENT-277=018914;TANGUT COMPONENT-286=01891D" \o
      ";TANGUT COMPONENT-295=018926;TANGUT COMPONENT-349=01895C;TANGUT COMPONENT-358=018965" \o
      ";TANGUT COMPONENT-367=01896E;TANGUT COMPONENT-376=018977;TANGUT COMPONENT-385=018980" \o
      ";TANGUT COMPONENT-394=018989;TANGUT COMPONENT-439=0189B6;TANGUT COMPONENT-448=0189BF" \o
      ";TANGUT COMPONENT-457=0189C8;TANGUT COMPONENT-466=0189D1;TANGUT COMPONENT-475=0189DA" \o
      ";TANGUT COMPONENT-484=0189E3;TANGUT COMPONENT-493=0189EC;TANGUT COMPONENT-529=018A10" \o
      ";TANGUT COMPONENT-538=018A19;TANGUT COMPONENT-547=018A22;TANGUT COMPONENT-556=018A2B" \o
      ";TANGUT COMPONENT-565=018A34;TANGUT COMPONENT-574=018A3D;TANGUT COMPONENT-583=018A46" \o
      ";TANGUT COMPONENT-592=018A4F;TANGUT COMPONENT-619=018A6A;TANGUT COMPONENT-628=018A73" \o
      ";TANGUT COMPONENT-637=018A7C;TANGUT COMPONENT-646=018A85;TANGUT COMPONENT-655=018A8E" \o
      ";TANGUT COMPONENT-664=018A97;TANGUT COMPONENT-673=018AA0;TANGUT COMPONENT-682=018AA9" \o
      ";TANGUT COMPONENT-691=018AB2;TANGUT COMPONENT-709=018AC4;TANGUT COMPONENT-718=018ACD" \o
      ";TANGUT COMPONENT-727=018AD6;TANGUT COMPONENT-736=018ADF;TANGUT COMPONENT-745=018AE8" \o
      ";TANGUT COMPONENT-754=018AF1;TANGUT COMPONENT-763=018AFA;NUSHU CHARACTER-1B201=01B201" \o
      ";NUSHU CHARACTER-1B210=01B210;BYZANTINE MUSICAL SYMBOL LEIMMA TESSARON CHRONON=01D08D" \o
      ";MATHEMATICAL BOLD FRAKTUR CAPITAL K=01D576;SIGNWRITING HAND-FLAT BETWEEN PALM FACINGS=01D85B" \o
      ";SIGNWRITING MOUTH WRINKLES SINGLE=01DA57;OTTOMAN SIYAQ NUMBER SIXTY=01ED0F" \o
      ";HEAVY DOWNWARDS ARROW WITH EQUILATERAL ARROWHEAD=01F81B" \o
      ";LOWER TRIANGULAR ONE QUARTER BLOCK=01FB6F",
    ";LATIN SMALL LETTER S=000073;BREVE=0002D8;COMBINING HOOK ABOVE=000309" \o
      ";ARABIC LETTER TTEHEH=00067A;NKO SYMBOL OO DENNEN=0007F6;SAMARITAN LETTER BAA=000805" \o
      ";ARABIC LETTER YEH WITH TWO DOTS BELOW AND SMALL NOON ABOVE=0008BA;DEVANAGARI LETTER II=000908" \o
      ";DEVANAGARI LETTER QA=000958;GURMUKHI URA=000A73;TIBETAN VOWEL SIGN O=000F7C" \o
      ";TIBETAN SUBJOINED LETTER YA=000FB1;MYANMAR LETTER MON E=001028" \o
      ";HANGUL CHOSEONG NIEUN-HIEUH=00115D;HANGUL JUNGSEONG I-O=00119A;ETHIOPIC SYLLABLE BE=001265" \o
      ";ETHIOPIC SYLLABLE FA=001348;RUNIC LETTER LONG-BRANCH-YR=0016E6" \o
      ";VEDIC TONE YAJURVEDIC KATHAKA INDEPENDENT SVARITA=001CD7" \o
      ";LATIN SMALL LETTER L WITH CIRCUMFLEX BELOW=001E3D;LATIN SMALL LETTER W WITH DOT BELOW=001E89" \o
      ";GREEK SMALL LETTER ETA WITH PSILI AND VARIA=001F22" \o
      ";GREEK CAPITAL LETTER OMEGA WITH DASIA AND PERISPOMENI AND PROSGEGRAMMENI=001FAF" \o
      ";SUBSCRIPT PLUS SIGN=00208A;COMBINING ENCLOSING DIAMOND=0020DF;ENTER SYMBOL=002386" \o
      ";DIGIT FIVE FULL STOP=00248C;DIGIT NINE FULL STOP=002490;EARTH=002641;ARIES=002648" \o
      ";COPTIC CAPITAL LETTER AKHMIMIC KHEI=002CC8;KANGXI RADICAL WOMAN=002F25" \o
      ";PARENTHESIZED HANGUL SIOS A=003214;CIRCLED HANGUL NIEUN=003261" \o
      ";CIRCLED NUMBER THIRTY EIGHT=0032B3;SQUARE SENTI=003322" \o
      ";LATIN CAPITAL LETTER MIDDLE SCOTS S=00A7D6;MYANMAR LOGOGRAM KHAMTI OAY=00AA74" \o
      ";HANGUL JONGSEONG RIEUL-MIEUM-HIEUH=00D7D8;ARABIC LETTER TCHEHEH ISOLATED FORM=00FB7E" \o
      ";ARABIC LIGATURE BEH WITH JEEM ISOLATED FORM=00FC05;LINEAR B IDEOGRAM VESSEL B155=0100DE" \o
      ";LINEAR B IDEOGRAM VESSEL B209=0100E8;LINEAR B IDEOGRAM VESSEL B218=0100F1" \o
      ";LINEAR B IDEOGRAM VESSEL B227=0100F6;AEGEAN NUMBER EIGHTY=010117" \o
      ";VITHKUQI CAPITAL LETTER DHE=010576;VITHKUQI CAPITAL LETTER HHA=01057D" \o
      ";PSALTER PAHLAVI LETTER KAPH=010B89;RUMI NUMBER SEVENTY=010E6F" \o
      ";SOGDIAN PUNCTUATION TWO CIRCLES WITH DOTS=010F58;KHOJKI VOWEL SIGN AU=011233" \o
      ";DIVES AKURU LETTER A=011900;ZANABAZAR SQUARE LETTER PHA=011A1F;BHAIKSUKI LETTER DDA=011C1A" \o
      ";TAMIL FRACTION ONE FORTIETH=011FC4;CUNEIFORM SIGN AL TIMES DIM2=012022" \o
      ";CUNEIFORM SIGN MASH2=012227;CUNEIFORM NUMERIC SIGN FIVE U VARIANT FORM=01246A" \o
      ";CUNEIFORM NUMERIC SIGN NINE U VARIANT FORM=01246E;CUNEIFORM SIGN DA TIMES TAK4=012488" \o
      ";BAMUM LETTER PHASE-A NKAARAE=016843;PAHAWH HMONG CONSONANT NKAU=016B22" \o
      ";PAHAWH HMONG CONSONANT QHAU=016B23;TANGUT COMPONENT-089=018858;TANGUT COMPONENT-098=018861" \o
      ";TANGUT COMPONENT-179=0188B2;TANGUT COMPONENT-188=0188BB;TANGUT COMPONENT-197=0188C4" \o
      ";TANGUT COMPONENT-269=01890C;TANGUT COMPONENT-278=018915;TANGUT COMPONENT-287=01891E" \o
      ";TANGUT COMPONENT-296=018927;TANGUT COMPONENT-359=018966;TANGUT COMPONENT-368=01896F" \o
      ";TANGUT COMPONENT-377=018978;TANGUT COMPONENT-386=018981;TANGUT COMPONENT-395=01898A" \o
      ";TANGUT COMPONENT-449=0189C0;TANGUT COMPONENT-458=0189C9;TANGUT COMPONENT-467=0189D2" \o
      ";TANGUT COMPONENT-476=0189DB;TANGUT COMPONENT-485=0189E4;TANGUT COMPONENT-494=0189ED" \o
      ";TANGUT COMPONENT-539=018A1A;TANGUT COMPONENT-548=018A23;TANGUT COMPONENT-557=018A2C" \o
      ";TANGUT COMPONENT-566=018A35;TANGUT COMPONENT-575=018A3E;TANGUT COMPONENT-584=018A47" \o
      ";TANGUT COMPONENT-593=018A50;TANGUT COMPONENT-629=018A74;TANGUT COMPONENT-638=018A7D" \o
      ";TANGUT COMPONENT-647=018A86;TANGUT COMPONENT-656=018A8F;TANGUT COMPONENT-665=018A98" \o
      ";TANGUT COMPONENT-674=018AA1;TANGUT COMPONENT-683=018AAA;TANGUT COMPONENT-692=018AB3" \o
      ";TANGUT COMPONENT-719=018ACE;TANGUT COMPONENT-728=018AD7;TANGUT COMPONENT-737=018AE0" \o
      ";TANGUT COMPONENT-746=018AE9;TANGUT COMPONENT-755=018AF2;TANGUT COMPONENT-764=018AFB" \o
      ";NUSHU CHARACTER-1B202=01B202;NUSHU CHARACTER-1B211=01B211;NUSHU CHARACTER-1B220=01B220" \o
      ";ZNAMENNY COMBINING MARK VYSOKO S KHOKHLOM ON LEFT=01CF0B;TETRAGRAM FOR CHANGE=01D321" \o
      ";MATHEMATICAL BOLD FRAKTUR CAPITAL L=01D577;MENDE KIKAKUI SYLLABLE M013 I=01E822" \o
      ";INDIC SIYAQ NUMBER NINETY THOUSAND=01EC9D;OTTOMAN SIYAQ NUMBER THREE HUNDRED=01ED15" \o
      ";MAHJONG TILE FIVE OF BAMBOOS=01F014;MAHJONG TILE NINE OF BAMBOOS=01F018" \o
      ";PLAYING CARD EIGHT OF SPADES=01F0A8;ALCHEMICAL SYMBOL FOR PUTREFACTION=01F764",
    ";LATIN SMALL LETTER T=000074;HORIZONTAL TABULATION WITH JUSTIFICATION=000089" \o
      ";CYRILLIC CAPITAL LETTER TSE=000426;CYRILLIC CAPITAL LETTER PSI=000470" \o
      ";ARABIC LARGE ROUND DOT BELOW=0008CF;DEVANAGARI LETTER RA=000930;MALAYALAM LETTER NGA=000D19" \o
      ";TIBETAN SUBJOINED LETTER ZA=000FAF;HANGUL CHOSEONG CEONGCHIEUMCHIEUCH=001155" \o
      ";ETHIOPIC SYLLABLE CE=00127D;ETHIOPIC SYLLABLE GA=001308;KHMER INDEPENDENT VOWEL QAQ=0017A3" \o
      ";KHMER INDEPENDENT VOWEL QII=0017A6;BALINESE VOWEL SIGN LA LENGA=001B3C" \o
      ";BALINESE DIGIT SEVEN=001B57;LEPCHA VOWEL SIGN UU=001C2B" \o
      ";SQUARE WITH UPPER LEFT TO LOWER RIGHT FILL=0025A7" \o
      ";SQUARE WITH UPPER RIGHT TO LOWER LEFT FILL=0025A8;LATIN SMALL LETTER K WITH DESCENDER=002C6A" \o
      ";COPTIC SMALL LETTER OLD COPTIC SHEI=002CC5;COPTIC SYMBOL KHI RO=002CE9" \o
      ";KANGXI RADICAL WATER=002F54;KANGXI RADICAL MOUND=002FA9;JAVANESE PADA LUNGSI=00A9C9" \o
      ";ARABIC LETTER DUL FINAL FORM=00FB87;ARABIC LETTER E INITIAL FORM=00FBE6" \o
      ";ARABIC LIGATURE SALLA ISOLATED FORM=00FDF9" \o
      ";PRESENTATION FORM FOR VERTICAL RIGHT PARENTHESIS=00FE36;HALFWIDTH HANGUL LETTER WEO=00FFD4" \o
      ";LINEAR B IDEOGRAM VESSEL B219=0100F2;LINEAR B IDEOGRAM VESSEL B228=0100F7" \o
      ";CAUCASIAN ALBANIAN LETTER EB=010534;INSCRIPTIONAL PAHLAVI NUMBER ONE THOUSAND=010B7F" \o
      ";OLD TURKIC LETTER ORKHON OT=010C47;KHUDAWADI LETTER JHA=0112C4;NANDINAGARI LETTER I=0119A2" \o
      ";PAU CIN HAU LETTER FA=011AD3;CUNEIFORM SIGN GA2 TIMES SAL=0120E3" \o
      ";CUNEIFORM SIGN GA2 TIMES SHE=0120E5;CUNEIFORM SIGN KA TIMES ASH2=01215B" \o
      ";CUNEIFORM SIGN LU2 TIMES BAD=0121FF;CUNEIFORM SIGN SILA3=0122E1" \o
      ";BAMUM LETTER PHASE-E NGGEEEE=01698D;PAHAWH HMONG CONSONANT NLAU=016B20" \o
      ";TANGUT COMPONENT-099=018862;TANGUT COMPONENT-189=0188BC;TANGUT COMPONENT-198=0188C5" \o
      ";TANGUT COMPONENT-279=018916;TANGUT COMPONENT-288=01891F;TANGUT COMPONENT-297=018928" \o
      ";TANGUT COMPONENT-369=018970;TANGUT COMPONENT-378=018979;TANGUT COMPONENT-387=018982" \o
      ";TANGUT COMPONENT-396=01898B;TANGUT COMPONENT-459=0189CA;TANGUT COMPONENT-468=0189D3" \o
      ";TANGUT COMPONENT-477=0189DC;TANGUT COMPONENT-486=0189E5;TANGUT COMPONENT-495=0189EE" \o
      ";TANGUT COMPONENT-549=018A24;TANGUT COMPONENT-558=018A2D;TANGUT COMPONENT-567=018A36" \o
      ";TANGUT COMPONENT-576=018A3F;TANGUT COMPONENT-585=018A48;TANGUT COMPONENT-594=018A51" \o
      ";TANGUT COMPONENT-639=018A7E;TANGUT COMPONENT-648=018A87;TANGUT COMPONENT-657=018A90" \o
      ";TANGUT COMPONENT-666=018A99;TANGUT COMPONENT-675=018AA2;TANGUT COMPONENT-684=018AAB" \o
      ";TANGUT COMPONENT-693=018AB4;TANGUT COMPONENT-729=018AD8;TANGUT COMPONENT-738=018AE1" \o
      ";TANGUT COMPONENT-747=018AEA;TANGUT COMPONENT-756=018AF3;TANGUT COMPONENT-765=018AFC" \o
      ";NUSHU CHARACTER-1B203=01B203;NUSHU CHARACTER-1B212=01B212;NUSHU CHARACTER-1B221=01B221" \o
      ";NUSHU CHARACTER-1B230=01B230;MUSICAL SYMBOL HAUPTSTIMME=01D1A6" \o
      ";MATHEMATICAL BOLD FRAKTUR CAPITAL M=01D578;SHEEP=01F411" \o
      ";SIDEWAYS WHITE LEFT POINTING INDEX=01F598;WHEEL=01F6DE;PICKUP TRUCK=01F6FB" \o
      ";LIGHT EIGHT SPOKED ASTERISK=01F7BB;DOWNWARDS TRIANGLE-HEADED ARROW WITH MEDIUM SHAFT=01F827" \o
      ";RIGHTWARDS ARROW WITH NOTCHED TAIL=01F89A",
    ";LATIN SMALL LETTER U=000075;COMBINING CIRCUMFLEX ACCENT=000302" \o
      ";CYRILLIC SMALL LETTER ABKHASIAN CHE=0004BD;ARABIC SMALL HIGH UPRIGHT RECTANGULAR ZERO=0006E0" \o
      ";DEVANAGARI LETTER SA=000938;DEVANAGARI LETTER OE=000973;TELUGU VOWEL SIGN AA=000C3E" \o
      ";HANGUL CHOSEONG RIEUL-HIEUH=00111A;ETHIOPIC SYLLABLE HA=001200;ETHIOPIC SYLLABLE DE=0012F5" \o
      ";LATIN SMALL LETTER N WITH CIRCUMFLEX BELOW=001E4B;LATIN SMALL LETTER Y WITH DOT BELOW=001EF5" \o
      ";GREEK CAPITAL LETTER ALPHA WITH PSILI AND OXIA AND PROSGEGRAMMENI=001F8C" \o
      ";GREEK CAPITAL LETTER IOTA WITH OXIA=001FDB;GREEK DASIA AND VARIA=001FDD" \o
      ";INVISIBLE SEPARATOR=002063;LATIN SUBSCRIPT SMALL LETTER SCHWA=002094;LIVRE TOURNOIS SIGN=0020B6" \o
      ";APL FUNCTIONAL SYMBOL UPWARDS VANE=00234F;LATIN LETTER SMALL CAPITAL TURNED E=002C7B" \o
      ";KANGXI RADICAL BRUSH=002F80;CIRCLED HANGUL RIEUL=003263;COMBINING CYRILLIC LETTER U=00A677" \o
      ";LATIN CAPITAL LETTER K WITH OBLIQUE STROKE=00A7A2;JAVANESE DIGIT THREE=00A9D3" \o
      ";ARABIC LETTER KIRGHIZ YU FINAL FORM=00FBE3;ARABIC LIGATURE JEEM WITH HAH ISOLATED FORM=00FC15" \o
      ";ARABIC LIGATURE HAH WITH JEEM ISOLATED FORM=00FC17" \o
      ";ARABIC LIGATURE KHAH WITH JEEM INITIAL FORM=00FCAB;ARABIC LIGATURE SALAM ISOLATED FORM=00FDF5" \o
      ";ARABIC LETTER YEH FINAL FORM=00FEF2;ARABIC LIGATURE LAM WITH ALEF ISOLATED FORM=00FEFB" \o
      ";HALFWIDTH HANGUL LETTER RIEUL-SIOS=00FFAD;LINEAR B IDEOGRAM VESSEL B229=0100F8" \o
      ";IMPERIAL ARAMAIC NUMBER ONE HUNDRED=01085D;KHAROSHTHI PUNCTUATION DOT=010A50" \o
      ";KHUDAWADI LETTER KHA=0112BB;AHOM LETTER A=011712;PAU CIN HAU LETTER GA=011AC9" \o
      ";BHAIKSUKI LETTER BHA=011C25;BHAIKSUKI DIGIT FIVE=011C55;BHAIKSUKI DIGIT NINE=011C59" \o
      ";CUNEIFORM SIGN EN TIMES GAN2=012098;CUNEIFORM SIGN KESH2=01219F" \o
      ";CUNEIFORM SIGN KA TIMES ASH3=01237F;TANGUT COMPONENT-199=0188C6;TANGUT COMPONENT-289=018920" \o
      ";TANGUT COMPONENT-298=018929;TANGUT COMPONENT-379=01897A;TANGUT COMPONENT-388=018983" \o
      ";TANGUT COMPONENT-397=01898C;TANGUT COMPONENT-469=0189D4;TANGUT COMPONENT-478=0189DD" \o
      ";TANGUT COMPONENT-487=0189E6;TANGUT COMPONENT-496=0189EF;TANGUT COMPONENT-559=018A2E" \o
      ";TANGUT COMPONENT-568=018A37;TANGUT COMPONENT-577=018A40;TANGUT COMPONENT-586=018A49" \o
      ";TANGUT COMPONENT-595=018A52;TANGUT COMPONENT-649=018A88;TANGUT COMPONENT-658=018A91" \o
      ";TANGUT COMPONENT-667=018A9A;TANGUT COMPONENT-676=018AA3;TANGUT COMPONENT-685=018AAC" \o
      ";TANGUT COMPONENT-694=018AB5;TANGUT COMPONENT-739=018AE2;TANGUT COMPONENT-748=018AEB" \o
      ";TANGUT COMPONENT-757=018AF4;TANGUT COMPONENT-766=018AFD;NUSHU CHARACTER-1B204=01B204" \o
      ";NUSHU CHARACTER-1B213=01B213;NUSHU CHARACTER-1B222=01B222;NUSHU CHARACTER-1B231=01B231" \o
      ";NUSHU CHARACTER-1B240=01B240;MATHEMATICAL BOLD FRAKTUR CAPITAL N=01D579" \o
      ";MATHEMATICAL SANS-SERIF BOLD ITALIC SMALL A=01D656" \o
      ";MATHEMATICAL SANS-SERIF BOLD SMALL OMICRON=01D77E" \o
      ";SIGNWRITING HAND-CIRCLE INDEX MIDDLE THUMB=01D81F" \o
      ";SIGNWRITING MOVEMENT-WALLPLANE WAVE CURVE TRIPLE MEDIUM=01D99D" \o
      ";MAHJONG TILE FIVE OF CIRCLES=01F01D;MAHJONG TILE NINE OF CIRCLES=01F021" \o
      ";SMILING FACE WITH OPEN MOUTH AND COLD SWEAT=01F605;EXPRESSIONLESS FACE=01F611" \o
      ";ONCOMING FIRE ENGINE=01F6F1;XIANGQI RED MANDARIN=01FA61" \o
      ";UPPER TRIANGULAR ONE QUARTER BLOCK=01FB6D" \o
      ";BOX DRAWINGS LIGHT DIAGONAL UPPER CENTRE TO MIDDLE LEFT AND MIDDLE RIGHT TO LOWER CENTRE=01FBA8" \o
      ";BOX DRAWINGS LIGHT DIAGONAL UPPER CENTRE TO MIDDLE RIGHT AND MIDDLE LEFT TO LOWER CENTRE=01FBA9",
    ";LATIN SMALL LETTER V=000076;BREAK PERMITTED HERE=000082" \o
      ";LATIN SMALL LETTER A WITH DIAERESIS=0000E4;CYRILLIC CAPITAL LETTER YAT=000462" \o
      ";DEVANAGARI LETTER TA=000924;DEVANAGARI DIGIT SIX=00096C;HANGUL CHOSEONG IEUNG-MIEUM=001143" \o
      ";ETHIOPIC DIGIT EIGHT=001370;MODIFIER LETTER SMALL BOTTOM HALF O=001D55" \o
      ";LATIN SMALL LETTER Z WITH DOT BELOW=001E93;WATCH=00231A;CLOUD=002601;STAR OF DAVID=002721" \o
      ";RIBBON ARROW UP LEFT=002BB2;RIBBON ARROW LEFT UP=002BB4;RIGHT SUBSTITUTION BRACKET=002E03" \o
      ";THREE-EM DASH=002E3B;CJK RADICAL KNIFE ONE=002E88;KANGXI RADICAL GHOST=002FC1" \o
      ";IDEOGRAPHIC TELEGRAPH SYMBOL FOR DAY SEVEN=0033E6;MYANMAR LETTER TAI LAING DDA=00A9ED" \o
      ";ARABIC LIGATURE BEH WITH MEEM ISOLATED FORM=00FC08" \o
      ";ARABIC LIGATURE KAF WITH JEEM ISOLATED FORM=00FC38;HALFWIDTH HANGUL LETTER YEO=00FFCA" \o
      ";LINEAR B IDEOGRAM B163 ARMOUR=0100AB;GREEK SYMBOL TAU RHO=0101A0;NABATAEAN LETTER TAW=01089E" \o
      ";OLD NORTH ARABIAN LETTER BEH=010A88;CHAKMA SIGN ANUSVARA=011101;KHUDAWADI LETTER JJA=0112C3" \o
      ";ZANABAZAR SQUARE LETTER SHA=011A2E;PAU CIN HAU LETTER HA=011AC8;BHAIKSUKI LETTER CHA=011C14" \o
      ";CUNEIFORM SIGN NUN OVER NUN=01226A;CUNEIFORM NUMERIC SIGN ONE HALF GUR=012464" \o
      ";PAHAWH HMONG SIGN MEEJ TSEEB=016B6E;MEDEFAIDRIN NUMBER NINETEEN=016E93" \o
      ";TANGUT COMPONENT-299=01892A;TANGUT COMPONENT-389=018984;TANGUT COMPONENT-398=01898D" \o
      ";TANGUT COMPONENT-479=0189DE;TANGUT COMPONENT-488=0189E7;TANGUT COMPONENT-497=0189F0" \o
      ";TANGUT COMPONENT-569=018A38;TANGUT COMPONENT-578=018A41;TANGUT COMPONENT-587=018A4A" \o
      ";TANGUT COMPONENT-596=018A53;TANGUT COMPONENT-659=018A92;TANGUT COMPONENT-668=018A9B" \o
      ";TANGUT COMPONENT-677=018AA4;TANGUT COMPONENT-686=018AAD;TANGUT COMPONENT-695=018AB6" \o
      ";TANGUT COMPONENT-749=018AEC;TANGUT COMPONENT-758=018AF5;TANGUT COMPONENT-767=018AFE" \o
      ";NUSHU CHARACTER-1B205=01B205;NUSHU CHARACTER-1B214=01B214;NUSHU CHARACTER-1B223=01B223" \o
      ";NUSHU CHARACTER-1B232=01B232;NUSHU CHARACTER-1B241=01B241;NUSHU CHARACTER-1B250=01B250" \o
      ";BYZANTINE MUSICAL SYMBOL PETASTOKOUFISMA=01D04B;COUNTING ROD UNIT DIGIT TWO=01D361" \o
      ";MATHEMATICAL BOLD FRAKTUR CAPITAL O=01D57A;MATHEMATICAL SANS-SERIF BOLD ITALIC SMALL B=01D657" \o
      ";SNAIL=01F40C;GIRLS SYMBOL=01F6CA;ALCHEMICAL SYMBOL FOR QUINTESSENCE=01F700" \o
      ";BLACK SLIGHTLY SMALL SQUARE=01F78D;MEDIUM FIVE SPOKED ASTERISK=01F7B0" \o
      ";RIGHTWARDS TRIANGLE-HEADED ARROW WITH HEAVY SHAFT=01F82E;SEGMENTED DIGIT FIVE=01FBF5" \o
      ";SEGMENTED DIGIT NINE=01FBF9",
    ";ALERT=000007;LATIN SMALL LETTER W=000077;INDEX=000084;CYRILLIC CAPITAL LETTER LITTLE YUS=000466" \o
      ";HEBREW POINT SIN DOT=0005C2;ARABIC SMALL HIGH TAH=000615;SYRIAC LETTER PERSIAN BHETH=00072D" \o
      ";DEVANAGARI LETTER AU=000914;GUJARATI LETTER DDHA=000AA2;MALAYALAM LETTER PHA=000D2B" \o
      ";MALAYALAM LETTER LLA=000D33;TIBETAN MARK CLOSING YIG MGO SGAB MA=000F05" \o
      ";MYANMAR VOWEL SIGN E=001031;ETHIOPIC SYLLABLE BI=001262;ETHIOPIC SYLLABLE JA=001300" \o
      ";ETHIOPIC SYLLABLE FE=00134D;CANADIAN SYLLABICS Y-CREE OO=001407" \o
      ";MONGOLIAN LETTER ALI GALI PA=001892;LOW ASTERISK=00204E;COMBINING RIGHT ARROW BELOW=0020EF" \o
      ";THERE EXISTS=002203;CIRCLED LATIN SMALL LETTER A=0024D0" \o
      ";QUADRANT UPPER LEFT AND LOWER LEFT AND LOWER RIGHT=002599;COMET=002604" \o
      ";BLACK LEFT LANE MERGE=0026D8;CIRCLED GREATER-THAN=0029C1" \o
      ";GREATER-THAN OVERLAPPING LESS-THAN=002AA4;GLAGOLITIC SMALL LETTER AZU=002C30" \o
      ";GLAGOLITIC SMALL LETTER TSI=002C4C;LEFT TORTOISE SHELL BRACKET=003014" \o
      ";CIRCLED HANGUL PIEUP=003265;YI RADICAL WO=00A4B8;LATIN SMALL LETTER N WITH DESCENDER=00A791" \o
      ";HANGUL CHOSEONG PIEUP-HIEUH=00A974;CHAM LETTER O=00AA05" \o
      ";ARABIC SYMBOL THREE DOTS POINTING DOWNWARDS ABOVE=00FBB8" \o
      ";ARABIC LIGATURE YEH WITH HAMZA ABOVE WITH OE ISOLATED FORM=00FBF2" \o
      ";ARABIC LIGATURE FEH WITH JEEM ISOLATED FORM=00FC2D;HALFWIDTH HANGUL LETTER PIEUP-SIOS=00FFB4" \o
      ";GREEK TWO OBOLS SIGN=01017D;KHUDAWADI LETTER NGA=0112BF;GRANTHA VOWEL SIGN U=011341" \o
      ";SIDDHAM SIGN VISARGA=0115BE;WARANG CITI CAPITAL LETTER A=0118A1;DIVES AKURU LETTER E=011906" \o
      ";ZANABAZAR SQUARE LETTER NNA=011A18;ZANABAZAR SQUARE LETTER THA=011A1A" \o
      ";PAU CIN HAU LETTER IA=011ADB;BHAIKSUKI LETTER DHA=011C20" \o
      ";CUNEIFORM SIGN AN PLUS NAGA SQUARED=012031;TANGUT COMPONENT-399=01898E" \o
      ";TANGUT COMPONENT-489=0189E8;TANGUT COMPONENT-498=0189F1;TANGUT COMPONENT-579=018A42" \o
      ";TANGUT COMPONENT-588=018A4B;TANGUT COMPONENT-597=018A54;TANGUT COMPONENT-669=018A9C" \o
      ";TANGUT COMPONENT-678=018AA5;TANGUT COMPONENT-687=018AAE;TANGUT COMPONENT-696=018AB7" \o
      ";TANGUT COMPONENT-759=018AF6;TANGUT COMPONENT-768=018AFF;NUSHU CHARACTER-1B170=01B170" \o
      ";NUSHU CHARACTER-1B206=01B206;NUSHU CHARACTER-1B215=01B215;NUSHU CHARACTER-1B224=01B224" \o
      ";NUSHU CHARACTER-1B233=01B233;NUSHU CHARACTER-1B242=01B242;NUSHU CHARACTER-1B251=01B251" \o
      ";NUSHU CHARACTER-1B260=01B260;ZNAMENNY NEUME STRELA GROMOKRYZHEVAYA POVODNAYA=01CFA6" \o
      ";MATHEMATICAL BOLD FRAKTUR CAPITAL P=01D57B;MATHEMATICAL SANS-SERIF BOLD ITALIC SMALL C=01D658" \o
      ";MATHEMATICAL BOLD ITALIC PHI SYMBOL=01D753;SIGNWRITING HAND-HINGE RING=01D8A7" \o
      ";LATIN LETTER SMALL CAPITAL TURNED G=01DF02;MOBILE PHONE WITH RIGHTWARDS ARROW AT LEFT=01F4F2" \o
      ";CLOCK FACE ONE OCLOCK=01F550",
    ";LATIN SMALL LETTER X=000078;MODIFIER LETTER RHOTIC HOOK=0002DE" \o
      ";CYRILLIC CAPITAL LETTER ZHE WITH DESCENDER=000496;THAANA LETTER GHAINU=0007A3" \o
      ";DEVANAGARI LETTER VA=000935;GUJARATI DIGIT EIGHT=000AEE;KANNADA VOWEL SIGN VOCALIC L=000CE2" \o
      ";ETHIOPIC SYLLABLE CI=00127A;ETHIOPIC SYLLABLE GLOTTAL U=0012A1;ETHIOPIC SYLLABLE KA=0012A8" \o
      ";ETHIOPIC SYLLABLE GE=00130D;KHMER INDEPENDENT VOWEL QAU=0017B3" \o
      ";VEDIC TONE DOUBLE RING ABOVE=001CF9" \o
      ";GREEK CAPITAL LETTER OMEGA WITH PSILI AND OXIA AND PROSGEGRAMMENI=001FAC;SQUARED PLUS=00229E" \o
      ";CIRCLED LATIN SMALL LETTER B=0024D1;BLACK DIAMOND=0025C6;JAPANESE BANK SYMBOL=0026FB" \o
      ";HEAVY FOUR BALLOON-SPOKED ASTERISK=002724" \o
      ";HEAVY BLACK CURVED DOWNWARDS AND RIGHTWARDS ARROW=0027A5" \o
      ";EQUALS SIGN WITH TWO DOTS ABOVE AND TWO DOTS BELOW=002A77" \o
      ";GREATER-THAN ABOVE SIMILAR OR EQUAL=002A8E;TRUE LIGHT MOON ARTA=002BDF;SQUARE KOOPO=00331E" \o
      ";CYRILLIC CAPITAL LETTER TWE=00A68C;LATIN CAPITAL LETTER N WITH OBLIQUE STROKE=00A7A4" \o
      ";MYANMAR TAI LAING DIGIT FIVE=00A9F5;MYANMAR TAI LAING DIGIT NINE=00A9F9" \o
      ";MYANMAR LETTER TAI LAING BHA=00A9FE;ARABIC LIGATURE HAH WITH MEEM ISOLATED FORM=00FC18" \o
      ";ARABIC LIGATURE MEEM WITH HAH ISOLATED FORM=00FC46" \o
      ";ARABIC LIGATURE KHAH WITH MEEM INITIAL FORM=00FCAC" \o
      ";ARABIC LIGATURE MEEM WITH KHAH INITIAL FORM=00FCD0;SMALL LESS-THAN SIGN=00FE64" \o
      ";OLD PERSIAN SIGN DAHYAAUSH-2=0103CD;LINEAR A SIGN A400-VAS=0106A0;HATRAN LETTER LAMEDH=0108EB" \o
      ";OLD NORTH ARABIAN LETTER HAH=010A82;OLD NORTH ARABIAN LETTER DAL=010A95" \o
      ";INSCRIPTIONAL PAHLAVI LETTER SADHE=010B70;PSALTER PAHLAVI LETTER HETH=010B87" \o
      ";ELYMAIC LETTER SADHE=010FF1;TAMIL SIGN AAZHAAKKU=011FD7;CUNEIFORM SIGN ERIN2=01209F" \o
      ";CUNEIFORM SIGN KA TIMES ESH2=012161;CUNEIFORM SIGN SHAR2=0122B9;CUNEIFORM SIGN SHEG9=0122BE" \o
      ";TANGUT COMPONENT-499=0189F2;TANGUT COMPONENT-589=018A4C;TANGUT COMPONENT-598=018A55" \o
      ";TANGUT COMPONENT-679=018AA6;TANGUT COMPONENT-688=018AAF;TANGUT COMPONENT-697=018AB8" \o
      ";NUSHU CHARACTER-1B171=01B171;NUSHU CHARACTER-1B180=01B180;NUSHU CHARACTER-1B207=01B207" \o
      ";NUSHU CHARACTER-1B216=01B216;NUSHU CHARACTER-1B225=01B225;NUSHU CHARACTER-1B234=01B234" \o
      ";NUSHU CHARACTER-1B243=01B243;NUSHU CHARACTER-1B252=01B252;NUSHU CHARACTER-1B261=01B261" \o
      ";NUSHU CHARACTER-1B270=01B270;DUPLOYAN LETTER WOW=01BC60" \o
      ";BYZANTINE MUSICAL SYMBOL PSIFISTOSYNAGMA=01D071;BYZANTINE MUSICAL SYMBOL YFEN KATO=01D07C" \o
      ";MATHEMATICAL BOLD FRAKTUR CAPITAL Q=01D57C;MATHEMATICAL SANS-SERIF BOLD ITALIC SMALL D=01D659" \o
      ";MATHEMATICAL SANS-SERIF BOLD SMALL EPSILON=01D774;SIGNWRITING HAND-FIST LITTLE INDEX=01D8A0" \o
      ";SIGNWRITING HAND-ANGLE INDEX MIDDLE LITTLE=01D8A8;OTTOMAN SIYAQ ALTERNATE NUMBER TEN=01ED37" \o
      ";ARABIC MATHEMATICAL STRETCHED GHAIN=01EE7B;PLAYING CARD TEN OF DIAMONDS=01F0CA" \o
      ";JAPANESE POST OFFICE=01F3E3;BLACK HARD SHELL FLOPPY DISK=01F5AA" \o
      ";POLICE CARS REVOLVING LIGHT=01F6A8;DOWNWARDS COMPRESSED ARROW=01F83F;SHARK=01F988",
    ";LATIN SMALL LETTER Y=000079;CYRILLIC SMALL LETTER SCHWA=0004D9" \o
      ";SYRIAC LETTER SOGDIAN ZHAIN=00074D;DEVANAGARI LETTER AW=000975;THAI CHARACTER DO DEK=000E14" \o
      ";THAI CHARACTER MAI EK=000E48;TIBETAN VOWEL SIGN U=000F74;GEORGIAN LETTER GHAN=0010E6" \o
      ";GEORGIAN LETTER CHAR=0010ED;HANGUL JUNGSEONG O-O=001182;HANGUL JUNGSEONG I-U=00119B" \o
      ";HANGUL JONGSEONG RIEUL-PIEUP-HIEUH=0011D4;ETHIOPIC SYLLABLE HE=001205" \o
      ";ETHIOPIC SYLLABLE LA=001208;ETHIOPIC SYLLABLE DI=0012F2" \o
      ";COMBINING LATIN SMALL LETTER LONG S=001DE5;GREEK SMALL LETTER ALPHA WITH PSILI=001F00" \o
      ";SMILE=002323;SYMBOL FOR BACKSPACE=002408;CIRCLED LATIN SMALL LETTER C=0024D2" \o
      ";BOX DRAWINGS LIGHT VERTICAL=002502;QUARTER NOTE=002669;EIGHT POINTED PINWHEEL STAR=002735" \o
      ";INCOMPLETE INFINITY=0029DC;DOWNWARDS TRIANGLE-HEADED ARROW WITH LONG TIP RIGHTWARDS=002BA1" \o
      ";RIGHTWARDS TRIANGLE-HEADED ARROW WITH LONG TIP DOWNWARDS=002BA7" \o
      ";GLAGOLITIC SMALL LETTER ONU=002C41;CJK RADICAL EAT THREE=002EDF;KANGXI RADICAL RIVER=002F2E" \o
      ";KANGXI RADICAL SWEET=002F62;IDEOGRAPHIC ANNOTATION BOTTOM MARK=003198;SQUARE SENTO=003323" \o
      ";SQUARE RUPII=003353;YI RADICAL YO=00A49D;CYRILLIC CAPITAL LETTER BROAD OMEGA=00A64C" \o
      ";ARABIC LIGATURE KAF WITH MEEM ISOLATED FORM=00FC3C" \o
      ";ARABIC LIGATURE LAM WITH KHAH ISOLATED FORM=00FC41" \o
      ";ARABIC LIGATURE HEH WITH JEEM ISOLATED FORM=00FC51;LINEAR A SIGN A401-VAS=0106A1" \o
      ";LINEAR A SIGN A410-VAS=0106AA;NABATAEAN LETTER WAW=010888;OLD NORTH ARABIAN LETTER KAF=010A8B" \o
      ";SOGDIAN LETTER SADHE=010F3F;BRAHMI SIGN OLD TAMIL VIRAMA=011070;MAHAJANI LETTER TTHA=01115F" \o
      ";MODI LETTER A=011600;ZANABAZAR SQUARE LETTER DZA=011A25;PAU CIN HAU LETTER KA=011AC1" \o
      ";CUNEIFORM SIGN ARKAB=012036;CUNEIFORM SIGN GU2 TIMES KAK TIMES IGI GUNU=01211A" \o
      ";CUNEIFORM SIGN HI TIMES ASH2=01212F;CUNEIFORM SIGN KAL TIMES BAD=012198" \o
      ";BAMUM LETTER PHASE-A LET KUT=016818;BAMUM LETTER PHASE-C TAASHAE=0168AC" \o
      ";BASSA VAH LETTER UWU=016AE0;TANGUT COMPONENT-599=018A56;TANGUT COMPONENT-689=018AB0" \o
      ";TANGUT COMPONENT-698=018AB9;NUSHU CHARACTER-1B172=01B172;NUSHU CHARACTER-1B181=01B181" \o
      ";NUSHU CHARACTER-1B190=01B190;NUSHU CHARACTER-1B208=01B208;NUSHU CHARACTER-1B217=01B217" \o
      ";NUSHU CHARACTER-1B226=01B226;NUSHU CHARACTER-1B235=01B235;NUSHU CHARACTER-1B244=01B244" \o
      ";NUSHU CHARACTER-1B253=01B253;NUSHU CHARACTER-1B262=01B262;NUSHU CHARACTER-1B271=01B271" \o
      ";NUSHU CHARACTER-1B280=01B280;BYZANTINE MUSICAL SYMBOL YFESIS APLI DYO DODEKATA=01D0D4" \o
      ";MATHEMATICAL BOLD FRAKTUR CAPITAL R=01D57D;MATHEMATICAL SANS-SERIF BOLD ITALIC SMALL E=01D65A" \o
      ";SIGNWRITING HAND-CUP THUMB FORWARD=01D873;SIGNWRITING HAND-HINGE OPEN=01D87B" \o
      ";SIGNWRITING TEETH MOVEMENT=01DA62;HEAVY EIGHT SPOKED ASTERISK=01F7BE" \o
      ";EMOJI COMPONENT BALD=01F9B2;ADULT=01F9D1" \o
      ";NEUTRAL CHESS BISHOP ROTATED TWO HUNDRED SEVENTY DEGREES=01FA42" \o
      ";NEUTRAL CHESS KNIGHT ROTATED TWO HUNDRED SEVENTY DEGREES=01FA43;DROP OF BLOOD=01FA78",
    ";COLON=00003A;LATIN SMALL LETTER Z=00007A;LATIN SMALL LETTER E WITH DIAERESIS=0000EB" \o
      ";MODIFIER LETTER EXTRA-HIGH TONE BAR=0002E5;NKO DIGIT ONE=0007C1;NKO LETTER BA=0007D3" \o
      ";ARABIC TATWEEL WITH OVERSTRUCK WAW=000884;MALAYALAM LETTER SHA=000D36" \o
      ";SINHALA LETTER MAHAAPRAANA DDAYANNA=000DAA;THAI CHARACTER SARA A=000E30" \o
      ";ETHIOPIC SYLLABLE MA=001218;LATIN CAPITAL LETTER MIDDLE-WELSH V=001EFC" \o
      ";TWO DOT PUNCTUATION=00205A;CIRCLED LATIN SMALL LETTER D=0024D3" \o
      ";QUADRANT UPPER LEFT AND UPPER RIGHT AND LOWER LEFT=00259B" \o
      ";CLOSED UNION WITH SERIFS AND SMASH PRODUCT=002A50;KANGXI RADICAL STONE=002F6F" \o
      ";KANGXI RADICAL SOUND=002FB3;CIRCLED NUMBER TWENTY EIGHT=003258" \o
      ";CIRCLED NUMBER THIRTY THREE=00325D;YI SYLLABLE A=00A00A;YI RADICAL TU=00A4A8" \o
      ";SAURASHTRA LETTER VOCALIC L=00A88A;HANGUL CHOSEONG IEUNG-RIEUL=00A976" \o
      ";MYANMAR LETTER TAI LAING DHA=00A9FC;ARABIC LIGATURE FEH WITH MEEM ISOLATED FORM=00FC30" \o
      ";AEGEAN WEIGHT FIRST SUBUNIT=010138;GREEK ACROPHONIC ATTIC ONE HUNDRED STATERS=010152" \o
      ";VITHKUQI CAPITAL LETTER IJE=01057F;LINEAR A SIGN A402-VAS=0106A2;LINEAR A SIGN A411-VAS=0106AB" \o
      ";PHOENICIAN LETTER HE=010904;OLD NORTH ARABIAN LETTER FEH=010A90;BRAHMI VOWEL SIGN UU=01103D" \o
      ";KHUDAWADI LETTER PHA=0112D3;SIDDHAM SECTION MARK WITH DOUBLE CRESCENTS=0115D1" \o
      ";NANDINAGARI LETTER O=0119AC;PAU CIN HAU LETTER LA=011AC2;BHAIKSUKI LETTER GHA=011C11" \o
      ";CUNEIFORM SIGN GA2 TIMES HAL PLUS LA=0120D3;CUNEIFORM SIGN GA2 TIMES KU3 PLUS AN=0120DC" \o
      ";CUNEIFORM SIGN GA2 TIMES SAR=0120E4;CUNEIFORM SIGN GALAM=0120F4" \o
      ";CUNEIFORM SIGN HUB2 TIMES AN=012139;CUNEIFORM SIGN KA TIMES GIR2=012168" \o
      ";CUNEIFORM SIGN KASKAL OVER KASKAL LAGAB TIMES U OVER LAGAB TIMES U=01219E" \o
      ";CUNEIFORM SIGN PESH2=01227E;TANGUT COMPONENT-699=018ABA;NUSHU CHARACTER-1B173=01B173" \o
      ";NUSHU CHARACTER-1B182=01B182;NUSHU CHARACTER-1B191=01B191;NUSHU CHARACTER-1B209=01B209" \o
      ";NUSHU CHARACTER-1B218=01B218;NUSHU CHARACTER-1B227=01B227;NUSHU CHARACTER-1B236=01B236" \o
      ";NUSHU CHARACTER-1B245=01B245;NUSHU CHARACTER-1B254=01B254;NUSHU CHARACTER-1B263=01B263" \o
      ";NUSHU CHARACTER-1B272=01B272;NUSHU CHARACTER-1B281=01B281;NUSHU CHARACTER-1B290=01B290" \o
      ";ZNAMENNY COMBINING MARK DVOETOCHIE=01CF3D;MATHEMATICAL BOLD FRAKTUR CAPITAL S=01D57E" \o
      ";MATHEMATICAL SANS-SERIF BOLD ITALIC SMALL F=01D65B" \o
      ";SIGNWRITING HAND-HOOK INDEX RING LITTLE IN=01D8BE" \o
      ";SIGNWRITING MOVEMENT-WALLPLANE LOOP SMALL DOUBLE=01D998;PLAYING CARD THREE OF SPADES=01F0A3" \o
      ";PLAYING CARD EIGHT OF HEARTS=01F0B8;MELON=01F348;LEMON=01F34B;TIGER=01F405;BISON=01F9AC" \o
      ";FAIRY=01F9DA;BOX DRAWINGS LIGHT DIAGONAL DIAMOND=01FBAE",
    ";LATIN CAPITAL LETTER EZH WITH CARON=0001EE;GREEK CAPITAL REVERSED LUNATE SIGMA SYMBOL=0003FD" \o
      ";THAANA LETTER THAALU=00079B;DEVANAGARI LETTER YA=00092F;DEVANAGARI LETTER UE=000976" \o
      ";MALAYALAM LETTER NNA=000D23;MALAYALAM LETTER THA=000D25;MALAYALAM DIGIT FOUR=000D6A" \o
      ";MYANMAR VOWEL SIGN I=00102D;ETHIOPIC SYLLABLE NA=001290;ETHIOPIC SYLLABLE JE=001305" \o
      ";ETHIOPIC SYLLABLE FI=00134A;MONGOLIAN LETTER ALI GALI TA=001890" \o
      ";LATIN CAPITAL LETTER S WITH DOT BELOW AND DOT ABOVE=001E68" \o
      ";LATIN SMALL LETTER T WITH CIRCUMFLEX BELOW=001E71;CIRCLED LATIN SMALL LETTER E=0024D4" \o
      ";RIGHT S-SHAPED BAG DELIMITER=0027C6;BOWTIE WITH RIGHT HALF BLACK=0029D2" \o
      ";TIFINAGH LETTER YADD=002D39;FIVE DOT MARK=002E2D;SQUARE PENSU=00333A" \o
      ";DEVANAGARI LETTER AY=00A8FE;CHAM CONSONANT SIGN FINAL NG=00AA43;FULLWIDTH SEMICOLON=00FF1B" \o
      ";VITHKUQI CAPITAL LETTER LLA=010583;LINEAR A SIGN A403-VAS=0106A3;LINEAR A SIGN A412-VAS=0106AC" \o
      ";NABATAEAN LETTER NUN=010895;SINHALA ARCHAIC NUMBER ONE THOUSAND=0111F4;NEWA LETTER A=011400" \o
      ";WARANG CITI CAPITAL LETTER E=0118A8;DIVES AKURU LETTER I=011902;PAU CIN HAU LETTER MA=011AC3" \o
      ";CUNEIFORM SIGN NUN LAGAR TIMES MASH=012265;NUSHU CHARACTER-1B174=01B174" \o
      ";NUSHU CHARACTER-1B183=01B183;NUSHU CHARACTER-1B192=01B192;NUSHU CHARACTER-1B219=01B219" \o
      ";NUSHU CHARACTER-1B228=01B228;NUSHU CHARACTER-1B237=01B237;NUSHU CHARACTER-1B246=01B246" \o
      ";NUSHU CHARACTER-1B255=01B255;NUSHU CHARACTER-1B264=01B264;NUSHU CHARACTER-1B273=01B273" \o
      ";NUSHU CHARACTER-1B282=01B282;NUSHU CHARACTER-1B291=01B291" \o
      ";ZNAMENNY COMBINING MARK POVYSHE S KRYZHEM=01CF1B;MATHEMATICAL BOLD FRAKTUR CAPITAL T=01D57F" \o
      ";MATHEMATICAL SANS-SERIF BOLD ITALIC SMALL G=01D65C" \o
      ";SIGNWRITING HAND-CIRCLE MIDDLE RING LITTLE=01D8CE;LATIN LETTER SMALL CAPITAL TURNED K=01DF10" \o
      ";FOGGY=01F301;HOTEL=01F3E8;WOMANS BOOTS=01F462;CROSS POMMEE WITH HALF-CIRCLE BELOW=01F541" \o
      ";GLASS OF MILK=01F95B;TAG EXCLAMATION MARK=0E0021",
    ";HEBREW ACCENT YERAH BEN YOMO=0005AA;NKO LETTER DA=0007D8;DEVANAGARI LETTER ZA=00095B" \o
      ";DEVANAGARI DIGIT TWO=000968;BENGALI VOWEL SIGN VOCALIC L=0009E2;THAI CHARACTER FO FAN=000E1F" \o
      ";LAO LETTER BO=000E9A;GEORGIAN LETTER JHAN=0010EF;HANGUL CHOSEONG IEUNG-PIEUP=001144" \o
      ";ETHIOPIC SYLLABLE KE=0012AD;ETHIOPIC SYLLABLE GI=00130A" \o
      ";LATIN SMALL LETTER U WITH CIRCUMFLEX BELOW=001E77;GREEK SMALL LETTER OMEGA WITH PSILI=001F60" \o
      ";DOUBLE VERTICAL LINE=002016;PRIME=002032;CIRCLED LATIN SMALL LETTER F=0024D5" \o
      ";WHITE DOWN-POINTING SMALL TRIANGLE=0025BF;NEGATIVE SQUARED CROSS MARK=00274E" \o
      ";RIGHTWARDS QUADRUPLE ARROW=002B46;TOP HALF BLACK CIRCLE=002BCA" \o
      ";GLAGOLITIC SMALL LETTER UKU=002C46;KANGXI RADICAL ARROW=002F6E" \o
      ";IDEOGRAPHIC ANNOTATION FOURTH MARK=00319C;LATIN CAPITAL LETTER R WITH OBLIQUE STROKE=00A7A6" \o
      ";HANGUL JONGSEONG SIOS-CIEUC=00D7EF;ARABIC LIGATURE AIN WITH JEEM ISOLATED FORM=00FC29" \o
      ";ARABIC LIGATURE HEH WITH MEEM ISOLATED FORM=00FC52" \o
      ";ARABIC LIGATURE SHEEN WITH HAH INITIAL FORM=00FD2E" \o
      ";ARABIC LIGATURE SHEEN WITH HAH WITH MEEM FINAL FORM=00FD67" \o
      ";INTERLINEAR ANNOTATION TERMINATOR=00FFFB;LINEAR B IDEOGRAM B132=010097" \o
      ";LINEAR B IDEOGRAM B150=01009F;GREEK ACROPHONIC ATTIC FIVE HUNDRED=010145" \o
      ";OLD PERMIC LETTER YU=010373;LINEAR A SIGN A404-VAS=0106A4;LINEAR A SIGN A413-VAS=0106AD" \o
      ";OLD NORTH ARABIAN LETTER HEH=010A80;PAU CIN HAU LETTER NA=011AD0" \o
      ";CUNEIFORM SIGN MA TIMES TAK4=012221;CUNEIFORM SIGN SHA3 TIMES NE=0122B2" \o
      ";BAMUM LETTER PHASE-E NGKAAMI=0169B9;PAHAWH HMONG SIGN XYEEM FAIB=016B3F" \o
      ";NUSHU CHARACTER-1B175=01B175;NUSHU CHARACTER-1B184=01B184;NUSHU CHARACTER-1B193=01B193" \o
      ";NUSHU CHARACTER-1B229=01B229;NUSHU CHARACTER-1B238=01B238;NUSHU CHARACTER-1B247=01B247" \o
      ";NUSHU CHARACTER-1B256=01B256;NUSHU CHARACTER-1B265=01B265;NUSHU CHARACTER-1B274=01B274" \o
      ";NUSHU CHARACTER-1B283=01B283;NUSHU CHARACTER-1B292=01B292;MUSICAL SYMBOL DOUBLE SHARP=01D12A" \o
      ";MUSICAL SYMBOL OTTAVA BASSA=01D137;MATHEMATICAL BOLD FRAKTUR CAPITAL U=01D580" \o
      ";MATHEMATICAL SANS-SERIF BOLD ITALIC SMALL H=01D65D" \o
      ";SIGNWRITING HAND-HINGE INDEX MIDDLE LITTLE=01D8A6" \o
      ";SIGNWRITING HAND-ANGLE RING DOWN MIDDLE THUMB INDEX CROSS=01D8AD" \o
      ";COMBINING GLAGOLITIC LETTER TVRIDO=01E015;OTTOMAN SIYAQ NUMBER SEVEN HUNDRED=01ED19" \o
      ";CLOCK FACE TEN OCLOCK=01F559;CHECKER BOARD=01F67E;HEAVY TWELVE POINTED PINWHEEL STAR=01F7D4" \o
      ";XIANGQI RED ELEPHANT=01FA62;YO-YO=01FA80",
    ";ARABIC SMALL HIGH ZAH=0008CD;TELUGU VOWEL SIGN EE=000C47;TELUGU VOWEL SIGN AI=000C48" \o
      ";LAO LETTER CO=000E88;GEORGIAN LETTER CHIN=0010E9;ETHIOPIC SYLLABLE HI=001202" \o
      ";ETHIOPIC SYLLABLE LE=00120D;ETHIOPIC SYLLABLE BO=001266;ETHIOPIC SYLLABLE PA=001350" \o
      ";ETHIOPIC DIGIT THREE=00136B;MONGOLIAN LETTER HAA=00183E" \o
      ";SUNDANESE CONSONANT SIGN PAMINGKAL=001BA1;GEORGIAN MTAVRULI CAPITAL LETTER HARD SIGN=001CBE" \o
      ";LATIN SMALL LETTER H WITH DIAERESIS=001E27;APL FUNCTIONAL SYMBOL ZILDE=00236C" \o
      ";CIRCLED LATIN SMALL LETTER G=0024D6;BLACK LEFT-POINTING POINTER=0025C4;SKIER=0026F7" \o
      ";WHITE MEDIUM DIAMOND=002B26;RETURN RIGHT=002B91" \o
      ";FOUR CORNER ARROWS CIRCLING ANTICLOCKWISE=002B94;COPTIC SMALL LETTER OLD COPTIC HORI=002CCD" \o
      ";TIFINAGH LETTER YABH=002D32;TIFINAGH LETTER TUAREG YAZH=002D4C" \o
      ";DOTTED RIGHT-POINTING ANGLE=002E16;CJK RADICAL HEART ONE=002E96;SQUARE HOORU=003341" \o
      ";LATIN CAPITAL LETTER S WITH OBLIQUE STROKE=00A7A8;LATIN LETTER SMALL CAPITAL TURNED M=00A7FA" \o
      ";MYANMAR LETTER TAI LAING GHA=00A9EA;CHAM LETTER U=00AA02" \o
      ";ARABIC LIGATURE SHADDA WITH KASRATAN ISOLATED FORM=00FC5F" \o
      ";ARABIC LIGATURE JEEM WITH MEEM INITIAL FORM=00FCA8" \o
      ";ARABIC LIGATURE MEEM WITH JEEM INITIAL FORM=00FCCE;LINEAR B IDEOGRAM B142=01009C" \o
      ";LINEAR B IDEOGRAM B160=0100A8;LINEAR B IDEOGRAM B232=0100C8;LINEAR A SIGN A405-VAS=0106A5" \o
      ";LINEAR A SIGN A414-VAS=0106AE;NABATAEAN NUMBER TWO=0108A8;MEROITIC CURSIVE LETTER HHA=0109AE" \o
      ";INSCRIPTIONAL PAHLAVI LETTER ALEPH=010B60;OLD HUNGARIAN CAPITAL LETTER NIKOLSBURG OE=010C9D" \o
      ";ELYMAIC LETTER ALEPH=010FE0;BRAHMI LETTER OLD TAMIL LLLA=011035;KHUDAWADI LETTER SHA=0112DC" \o
      ";MODI LETTER E=01160A;ZANABAZAR SQUARE LETTER ZHA=011A27;BHAIKSUKI LETTER JHA=011C16" \o
      ";CUNEIFORM SIGN GA2 TIMES BUR=0120C1;CUNEIFORM SIGN GA2 TIMES LUH=0124C2" \o
      ";NUSHU CHARACTER-1B176=01B176;NUSHU CHARACTER-1B185=01B185;NUSHU CHARACTER-1B194=01B194" \o
      ";NUSHU CHARACTER-1B239=01B239;NUSHU CHARACTER-1B248=01B248;NUSHU CHARACTER-1B257=01B257" \o
      ";NUSHU CHARACTER-1B266=01B266;NUSHU CHARACTER-1B275=01B275;NUSHU CHARACTER-1B284=01B284" \o
      ";NUSHU CHARACTER-1B293=01B293;ZNAMENNY NEUME SLOZHITIE ZAKRYTOE=01CF7F" \o
      ";BYZANTINE MUSICAL SYMBOL FTHORA DIATONIKI NI KATO=01D0C1" \o
      ";MATHEMATICAL BOLD FRAKTUR CAPITAL V=01D581;MATHEMATICAL SANS-SERIF BOLD ITALIC SMALL I=01D65E" \o
      ";SIGNWRITING HAND-FLAT SPLIT LITTLE=01D865" \o
      ";SIGNWRITING HAND-FIST INDEX THUMB FORWARD INDEX STRAIGHT=01D8E4" \o
      ";SIGNWRITING GRASP MULTIPLE=01D909;BOOKS=01F4DA" \o
      ";CLOCKWISE RIGHT AND LEFT SEMICIRCLE ARROWS=01F5D8;TRAIN=01F686" \o
      ";VERY HEAVY EIGHT POINTED BLACK STAR=01F7D0;NORTH EAST SANS-SERIF ARROW=01F855" \o
      ";CIRCLED CROSS FORMEE=01F902",
    ";MULTIPLICATION SIGN=0000D7;LATIN SMALL LETTER I WITH DIAERESIS=0000EF" \o
      ";COMBINING RING BELOW=000325;CYRILLIC SMALL LETTER KOPPA=000481" \o
      ";CYRILLIC SMALL LETTER ABKHASIAN CHE WITH DESCENDER=0004BF;NKO LETTER FA=0007DD" \o
      ";KANNADA VOWEL SIGN VOCALIC R=000CC3;MALAYALAM NUMBER TEN=000D70" \o
      ";SINHALA VOWEL SIGN KOMBUVA HAA GAYANUKITTA=000DDE;THAI CHARACTER SARA E=000E40" \o
      ";LAO LETTER DO=000E94;TIBETAN ASTROLOGICAL SIGN -KHYUD PA=000F18;ETHIOPIC SYLLABLE ME=00121D" \o
      ";ETHIOPIC SYLLABLE QA=001240;ETHIOPIC SYLLABLE CO=00127E;HANUNOO VOWEL SIGN I=001732" \o
      ";MONGOLIAN DIGIT FIVE=001815;MONGOLIAN DIGIT NINE=001819;RIGHTWARDS TWO HEADED ARROW=0021A0" \o
      ";RATIO=002236;CIRCLED LATIN SMALL LETTER H=0024D7;BOX DRAWINGS HEAVY VERTICAL=002503" \o
      ";BOX DRAWINGS UP LIGHT AND HORIZONTAL HEAVY=002537" \o
      ";BOX DRAWINGS UP HEAVY AND HORIZONTAL LIGHT=002538;CIRCLED WHITE BULLET=0029BE" \o
      ";MINUS SIGN WITH RISING DOTS=002A2C;TIFINAGH LETTER YACH=002D5E;KANGXI RADICAL POWER=002F12" \o
      ";KANGXI RADICAL MOUTH=002F1D;KANGXI RADICAL SHOOT=002F37;KANGXI RADICAL WRONG=002FAE" \o
      ";CJK STROKE HG=0031D6;CIRCLED IDEOGRAPH ATTENTION=00329F" \o
      ";IDEOGRAPHIC TELEGRAPH SYMBOL FOR DAY TWENTY-EIGHT=0033FB;YI SYLLABLE E=00A014" \o
      ";CYRILLIC SMALL LETTER DJERV=00A649;JAVANESE DIGIT SEVEN=00A9D7" \o
      ";HEBREW LETTER WIDE FINAL MEM=00FB26;ARABIC LIGATURE LAM WITH JEEM ISOLATED FORM=00FC3F" \o
      ";ARABIC LIGATURE SALLALLAAHU ALAYHI WA-AALIH=00FD46;ARABIC LETTER WAW FINAL FORM=00FEEE" \o
      ";LINEAR B IDEOGRAM B152=0100A1;LINEAR B IDEOGRAM B161=0100A9;LINEAR B IDEOGRAM B170=0100B2" \o
      ";LINEAR B IDEOGRAM B251=0100D5;LINEAR A SIGN A406-VAS=0106A6;LINEAR A SIGN A415-VAS=0106AF" \o
      ";NABATAEAN LETTER FINAL ALEPH=010880;SOGDIAN LETTER ALEPH=010F30" \o
      ";SHARADA VOWEL SIGN VOCALIC L=0111BA;KHUDAWADI LETTER NNA=0112CC;KHUDAWADI LETTER THA=0112CE" \o
      ";KHUDAWADI DIGIT FOUR=0112F4;DIVES AKURU END OF TEXT MARK=011946;PAU CIN HAU LETTER PA=011AC0" \o
      ";BHAIKSUKI LETTER KHA=011C0F;BAMUM LETTER PHASE-C MGBASAQ=0168B8;HENTAIGANA LETTER A-1=01B002" \o
      ";NUSHU CHARACTER-1B177=01B177;NUSHU CHARACTER-1B186=01B186;NUSHU CHARACTER-1B195=01B195" \o
      ";NUSHU CHARACTER-1B249=01B249;NUSHU CHARACTER-1B258=01B258;NUSHU CHARACTER-1B267=01B267" \o
      ";NUSHU CHARACTER-1B276=01B276;NUSHU CHARACTER-1B285=01B285;NUSHU CHARACTER-1B294=01B294" \o
      ";BYZANTINE MUSICAL SYMBOL PSIFISTOLYGISMA=01D06C;MUSICAL SYMBOL KIEVAN C CLEF=01D1DE" \o
      ";MATHEMATICAL BOLD FRAKTUR CAPITAL W=01D582;MATHEMATICAL SANS-SERIF BOLD ITALIC SMALL J=01D65F" \o
      ";SIGNWRITING HAND-FIST FOUR FINGERS CONJOINED BENT=01D84A" \o
      ";SIGNWRITING MOVEMENT-WALLPLANE BEND SMALL=01D938" \o
      ";SIGNWRITING MOVEMENT-DIAGONAL AWAY MEDIUM=01D956;POUCH=01F45D" \o
      ";WHITE DOWN POINTING LEFT HAND INDEX=01F597;MOYAI=01F5FF;RELIEVED FACE=01F60C" \o
      ";DOWNWARD FACING HOOK=01F908;BROOM=01F9F9;OLIVE=01FAD2",
    ";CYRILLIC SMALL LIGATURE A IE=0004D5;GUJARATI DIGIT THREE=000AE9;MALAYALAM DIGIT ZERO=000D66" \o
      ";HANGUL JUNGSEONG O-U=001183;ETHIOPIC SYLLABLE RA=001228;ETHIOPIC SYLLABLE NE=001295" \o
      ";ETHIOPIC SYLLABLE DO=0012F6;ETHIOPIC SYLLABLE JI=001302;CANADIAN SYLLABICS AIVILIK B=0015AF" \o
      ";MONGOLIAN LETTER CHA=001834;LATIN LETTER SMALL CAPITAL A=001D00" \o
      ";GREEK SMALL LETTER IOTA WITH DASIA AND PERISPOMENI=001F37" \o
      ";GREEK SMALL LETTER IOTA WITH MACRON=001FD1;CIRCLED LATIN SMALL LETTER I=0024D8" \o
      ";SQUARED SMALL CIRCLE=0029C7;S IN TRIANGLE=0029CC;SUBSET WITH PLUS SIGN BELOW=002ABF" \o
      ";GLAGOLITIC SMALL LETTER OTU=002C49;TIFINAGH LETTER YADH=002D38;KANGXI RADICAL TOOTH=002FD2" \o
      ";SQUARE WATTO=003357;IDEOGRAPHIC TELEGRAPH SYMBOL FOR HOUR FIVE=00335D" \o
      ";IDEOGRAPHIC TELEGRAPH SYMBOL FOR HOUR NINE=003361;MODIFIER LETTER LOW DOTTED TONE BAR=00A70B" \o
      ";LATIN SMALL LETTER CLOSED INSULAR G=00A7D1;HANGUL CHOSEONG RIEUL-MIEUM=00A968" \o
      ";ARABIC LIGATURE SEEN WITH HAH ISOLATED FORM=00FC1D" \o
      ";ARABIC LIGATURE SAD WITH MEEM ISOLATED FORM=00FC21" \o
      ";ARABIC LIGATURE AIN WITH MEEM ISOLATED FORM=00FC2A" \o
      ";ARABIC LIGATURE QAF WITH MEEM ISOLATED FORM=00FC34" \o
      ";ARABIC LIGATURE SEEN WITH KHAH INITIAL FORM=00FCAF;LINEAR B IDEOGRAM B153=0100A2" \o
      ";LINEAR B IDEOGRAM B171=0100B3;LINEAR B IDEOGRAM B180=0100BB;LINEAR B IDEOGRAM B234=0100CA" \o
      ";LINEAR B IDEOGRAM B252=0100D6;GREEK INDICTION SIGN=01018D;VITHKUQI CAPITAL LETTER NJE=010586" \o
      ";LINEAR A SIGN A407-VAS=0106A7;LINEAR A SIGN A416-VAS=0106B0;OLD NORTH ARABIAN LETTER QAF=010A84" \o
      ";OLD NORTH ARABIAN LETTER SAD=010A8E;OLD NORTH ARABIAN LETTER AIN=010A92;NEWA LETTER E=01140A" \o
      ";CUNEIFORM SIGN ASH KABA TENU=01203A;CUNEIFORM SIGN GU2 TIMES KAK=012119" \o
      ";CUNEIFORM SIGN LAGAR=0121EC;CUNEIFORM SIGN URU TIMES TU=01234B" \o
      ";CUNEIFORM SIGN AB TIMES SHU2=012481;CUNEIFORM SIGN DIM2 TIMES UD=01248C" \o
      ";CUNEIFORM SIGN GA2 TIMES GAR PLUS DI=0124BC;BAMUM LETTER PHASE-A PAMSHAE=01681D" \o
      ";HENTAIGANA LETTER A-2=01B003;NUSHU CHARACTER-1B178=01B178;NUSHU CHARACTER-1B187=01B187" \o
      ";NUSHU CHARACTER-1B196=01B196;NUSHU CHARACTER-1B259=01B259;NUSHU CHARACTER-1B268=01B268" \o
      ";NUSHU CHARACTER-1B277=01B277;NUSHU CHARACTER-1B286=01B286;NUSHU CHARACTER-1B295=01B295" \o
      ";ZNAMENNY NEUME STRELA KRYUKOVAYA GROMOPOVODNAYA=01CFBA" \o
      ";MATHEMATICAL BOLD FRAKTUR CAPITAL X=01D583;MATHEMATICAL SANS-SERIF BOLD ITALIC SMALL K=01D660" \o
      ";MATHEMATICAL ITALIC SMALL DOTLESS I=01D6A4;MATHEMATICAL BOLD SMALL BETA=01D6C3" \o
      ";MATHEMATICAL BOLD ITALIC RHO SYMBOL=01D754" \o
      ";LEFTWARDS TRIANGLE-HEADED ARROW WITH NARROW SHAFT=01F820",
    ";LATIN LETTER SMALL CAPITAL B=000299;HEBREW ACCENT TELISHA GEDOLA=0005A0" \o
      ";ARABIC SMALL HIGH YEH=0006E7;NKO LETTER HA=0007E4;SAMARITAN ABBREVIATION MARK=000836" \o
      ";TELUGU LETTER NAKAARA POLLU=000C5D;LAO DIGIT SIX=000ED6;ETHIOPIC SYLLABLE SA=001230" \o
      ";ETHIOPIC SYLLABLE KI=0012AA;NEW TAI LUE DIGIT ONE=0019D1;SUNDANESE DIGIT FIVE=001BB5" \o
      ";SUNDANESE DIGIT NINE=001BB9;SUNDANESE LETTER BHA=001BBD;VEDIC SIGN NIHSHVASA=001CD3" \o
      ";MODIFIER LETTER SMALL TURNED OPEN E=001D4C;NNBSP=00202F;ROMAN NUMERAL FIVE THOUSAND=002181" \o
      ";THERE DOES NOT EXIST=002204;CIRCLED LATIN SMALL LETTER J=0024D9" \o
      ";HEAVY WHITE DOWN-POINTING TRIANGLE=0026DB;SIMILAR OR LESS-THAN=002A9D" \o
      ";COMBINING CYRILLIC LETTER IOTIFIED BIG YUS=002DFF;KANGXI RADICAL SPOON=002F14" \o
      ";CIRCLED NUMBER FIFTY=0032BF;SAURASHTRA LETTER VOCALIC R=00A888" \o
      ";MYANMAR LETTER TAI LAING JHA=00A9EC;ARABIC LIGATURE TEH WITH KHAH ISOLATED FORM=00FC0D" \o
      ";ARABIC LIGATURE MEEM WITH MEEM INITIAL FORM=00FCD1" \o
      ";ARABIC LIGATURE SHEEN WITH HEH INITIAL FORM=00FD32;ARABIC LIGATURE TABAARAKA WA-TAAALAA=00FD4E" \o
      ";LINEAR B IDEOGRAM B154=0100A3;LINEAR B IDEOGRAM B172=0100B4;LINEAR B IDEOGRAM B181=0100BC" \o
      ";LINEAR B IDEOGRAM B190=0100C2;LINEAR B IDEOGRAM B253=0100D7;AEGEAN NUMBER NINETY=010118" \o
      ";UGARITIC LETTER DHAL=01038F;LINEAR A SIGN A408-VAS=0106A8;LINEAR A SIGN A417-VAS=0106B1" \o
      ";MEROITIC CURSIVE LETTER KHA=0109AD;NANDINAGARI LETTER U=0119A4;PAU CIN HAU LETTER RA=011AD2" \o
      ";BHAIKSUKI LETTER NGA=011C12;CUNEIFORM SIGN GA2 TIMES BAR PLUS RA=0120C0" \o
      ";CUNEIFORM SIGN GIR3 TIMES PA=01210F;CUNEIFORM SIGN NIM TIMES GAR PLUS GAN2 TENU=012251" \o
      ";BAMUM LETTER PHASE-B SAKEUAE=016877;BAMUM LETTER PHASE-E NGGEUAE=0169BF;MRO LETTER BA=016A44" \o
      ";MRO DIGIT ONE=016A61;HENTAIGANA LETTER A-3=01B004;NUSHU CHARACTER-1B179=01B179" \o
      ";NUSHU CHARACTER-1B188=01B188;NUSHU CHARACTER-1B197=01B197;NUSHU CHARACTER-1B269=01B269" \o
      ";NUSHU CHARACTER-1B278=01B278;NUSHU CHARACTER-1B287=01B287;NUSHU CHARACTER-1B296=01B296" \o
      ";MUSICAL SYMBOL BRACE=01D114;MATHEMATICAL BOLD FRAKTUR CAPITAL Y=01D584" \o
      ";MATHEMATICAL SANS-SERIF BOLD ITALIC SMALL L=01D661;MATHEMATICAL ITALIC SMALL DOTLESS J=01D6A5" \o
      ";SIGNWRITING HAND-FIST LITTLE THUMB=01D89A;INDIC SIYAQ NUMBER THIRTY THOUSAND=01EC97" \o
      ";PLAYING CARD QUEEN OF SPADES=01F0AD;PLAYING CARD KNIGHT OF CLUBS=01F0DC" \o
      ";GLOBE WITH MERIDIANS=01F310;SUN WITH FACE=01F31E;HORSE=01F40E;DRESS=01F457" \o
      ";ALCHEMICAL SYMBOL FOR PHILOSOPHERS SULFUR=01F70E;TAG DIGIT SIX=0E0036",
    ";LATIN CAPITAL LETTER T WITH RETROFLEX HOOK=0001AE" \o
      ";LATIN SMALL LETTER O WITH OGONEK AND MACRON=0001ED;CYRILLIC SMALL LETTER IE WITH BREVE=0004D7" \o
      ";SYRIAC LETTER LAMADH=000720;NKO LETTER EE=0007CB;TELUGU SIGN AVAGRAHA=000C3D" \o
      ";THAI CHARACTER KO KAI=000E01;GEORGIAN LETTER KHAR=0010E5;HANGUL CHOSEONG RIEUL-NIEUN=001118" \o
      ";HANGUL CHOSEONG MIEUM-PIEUP=00111C;ETHIOPIC SYLLABLE LI=00120A;ETHIOPIC SYLLABLE TA=001270" \o
      ";ETHIOPIC SYLLABLE FO=00134E;ETHIOPIC SYLLABLE PE=001355" \o
      ";CANADIAN SYLLABICS WOODS-CREE THWAA=00167D;MONGOLIAN LETTER ALI GALI ZA=001896" \o
      ";LATIN LETTER SMALL CAPITAL C=001D04;CIRCLED LATIN SMALL LETTER K=0024DA" \o
      ";LONG LEFTWARDS DOUBLE ARROW=0027F8;LEFTWARDS TWO-HEADED ARROW FROM BAR=002B36" \o
      ";CIRCLED NUMBER TWENTY THREE=003253;CYRILLIC SMALL LETTER DZELO=00A643" \o
      ";ARABIC LETTER HEH DOACHASHMEE ISOLATED FORM=00FBAA" \o
      ";ARABIC LIGATURE LAM WITH MEEM ISOLATED FORM=00FC42" \o
      ";ARABIC LIGATURE QAF WITH MEEM WITH HAH INITIAL FORM=00FDB4;LINEAR B IDEOGRAM B146=01009E" \o
      ";LINEAR B IDEOGRAM B164=0100AC;LINEAR B IDEOGRAM B182=0100BD;LINEAR B IDEOGRAM B236=0100CB" \o
      ";LINEAR B IDEOGRAM B245=0100D0;ROMAN AS SIGN=01019A;LINEAR A SIGN A409-VAS=0106A9" \o
      ";LINEAR A SIGN A418-VAS=0106B2;OLD NORTH ARABIAN LETTER LAM=010A81" \o
      ";INSCRIPTIONAL PAHLAVI LETTER GIMEL=010B62;PSALTER PAHLAVI LETTER SHIN=010B90" \o
      ";CHORASMIAN LETTER HE=010FB5;ELYMAIC LETTER GIMEL=010FE2;KAITHI VOWEL SIGN UU=0110B4" \o
      ";MODI LETTER I=011602;DIVES AKURU LETTER O=011909;ZANABAZAR SQUARE LETTER SSA=011A2F" \o
      ";PAU CIN HAU LETTER SA=011ACB;MAKASAR ANGKA=011EF2;CUNEIFORM SIGN NAGAR=012244" \o
      ";BAMUM LETTER PHASE-B NYAEMAE=016880;NUSHU CHARACTER-1B189=01B189;NUSHU CHARACTER-1B198=01B198" \o
      ";NUSHU CHARACTER-1B1A0=01B1A0;NUSHU CHARACTER-1B279=01B279;NUSHU CHARACTER-1B288=01B288" \o
      ";NUSHU CHARACTER-1B297=01B297;MATHEMATICAL BOLD FRAKTUR CAPITAL Z=01D585" \o
      ";MATHEMATICAL SANS-SERIF BOLD ITALIC SMALL M=01D662;MATHEMATICAL BOLD CAPITAL PI=01D6B7" \o
      ";SIGNWRITING HAND-FIST INDEX MIDDLE THUMB CONJOINED HINGED=01D83D" \o
      ";SIGNWRITING MOVEMENT-WALLPLANE CURVE HITTING FRONT WALL=01D9A6" \o
      ";MENDE KIKAKUI SYLLABLE M015 U=01E824;MENDE KIKAKUI SYLLABLE M147 O=01E828" \o
      ";OTTOMAN SIYAQ NUMBER FIVE THOUSAND=01ED20;OTTOMAN SIYAQ NUMBER NINE THOUSAND=01ED24" \o
      ";PLAYING CARD THREE OF HEARTS=01F0B3;TORTOISE SHELL BRACKETED CJK UNIFIED IDEOGRAPH-6253=01F245" \o
      ";WOMAN=01F469;SIDEWAYS WHITE DOWN POINTING INDEX=01F59F;FACE WITH ONE EYEBROW RAISED=01F928" \o
      ";INVERSE MEDIUM SHADE=01FB90",
    ";CYRILLIC SMALL LETTER IE WITH GRAVE=000450;NKO LETTER JA=0007D6" \o
      ";BENGALI VOWEL SIGN VOCALIC R=0009C3;GUJARATI VOWEL SIGN CANDRA E=000AC5" \o
      ";THAI CHARACTER SARA I=000E34;ETHIOPIC SYLLABLE MI=00121A;ETHIOPIC SYLLABLE QE=001245" \o
      ";ETHIOPIC SYLLABLE GO=00130E;RUNIC LETTER ANSUZ A=0016A8;KHMER INDEPENDENT VOWEL QUK=0017A8" \o
      ";LIMBU SMALL LETTER ANUSVARA=001932;BUGINESE LETTER NGKA=001A03" \o
      ";LATIN LETTER SMALL CAPITAL D=001D05;LATIN LETTER SMALL CAPITAL TURNED R=001D1A" \o
      ";NOMINAL DIGIT SHAPES=00206F;UP DOWN DOUBLE ARROW=0021D5;SLOPE=002333;POWER SYMBOL=0023FB" \o
      ";CIRCLED LATIN SMALL LETTER L=0024DB;WHITE SQUARE CONTAINING BLACK SMALL SQUARE=0025A3" \o
      ";SQUARE WITH RIGHT HALF BLACK=0025E8;VESTA=0026B6;COPTIC SYMBOL TAU RO=002CE8" \o
      ";TIFINAGH LETTER YAGH=002D56;CJK RADICAL SMALL ONE=002E8C;CJK RADICAL LAME FOUR=002E91" \o
      ";RIGHT CORNER BRACKET=00300D;COMBINING KATAKANA-HIRAGANA SEMI-VOICED SOUND MARK=00309A" \o
      ";HANGUL LETTER YO-YAE=003188;YI SYLLABLE I=00A002" \o
      ";CYRILLIC CAPITAL LETTER DOUBLE MONOCULAR O=00A66C;DEVANAGARI SIGN SPACING CANDRABINDU=00A8F2" \o
      ";LATIN LETTER SMALL CAPITAL R WITH RIGHT LEG=00AB46;LINEAR B IDEOGRAM B165=0100AD" \o
      ";LINEAR B IDEOGRAM B174=0100B6;LINEAR B IDEOGRAM B183=0100BE;LINEAR B IDEOGRAM B246=0100D1" \o
      ";LINEAR B IDEOGRAM B255=0100D9;PHAISTOS DISC SIGN GAUNTLET=0101D7" \o
      ";VITHKUQI CAPITAL LETTER SHE=01058D;PHOENICIAN LETTER PE=010910" \o
      ";MEROITIC CURSIVE FRACTION ELEVEN TWELFTHS=0109BC;OLD NORTH ARABIAN NUMBER ONE=010A9D" \o
      ";OLD SOGDIAN LETTER RESH-AYIN-DALETH=010F18;SOGDIAN LETTER GIMEL=010F32" \o
      ";BRAHMI NUMBER JOINER=01107F;KHUDAWADI DIGIT ZERO=0112F0;GRANTHA SIGN VISARGA=011303" \o
      ";ZANABAZAR SQUARE LETTER NYA=011A13;ZANABAZAR SQUARE LETTER TSA=011A23" \o
      ";PAU CIN HAU LETTER TA=011ACE;CUNEIFORM SIGN ALEPH=01202A;CUNEIFORM SIGN GIDIM=012107" \o
      ";CUNEIFORM SIGN LU2 TIMES HAL=01251B;BAMUM LETTER PHASE-D YAEMMAE=016905" \o
      ";BAMUM LETTER PHASE-D MALEERI=01690A;MRO LETTER DA=016A45;HENTAIGANA LETTER E-1=01B001" \o
      ";NUSHU CHARACTER-1B199=01B199;NUSHU CHARACTER-1B1A1=01B1A1;NUSHU CHARACTER-1B1B0=01B1B0" \o
      ";NUSHU CHARACTER-1B20A=01B20A;NUSHU CHARACTER-1B289=01B289;NUSHU CHARACTER-1B298=01B298" \o
      ";NUSHU CHARACTER-1B2A0=01B2A0;MATHEMATICAL SANS-SERIF BOLD ITALIC SMALL N=01D663" \o
      ";CIRCLED CROSS POMMEE=01F540;ONION=01F9C5;SOCKS=01F9E6",
    ";MODIFIER LETTER MID TONE BAR=0002E7;NKO LETTER KA=0007DE;NKO COMBINING LONG HIGH TONE=0007EF" \o
      ";GUJARATI SIGN THREE-DOT NUKTA ABOVE=000AFD" \o
      ";TELUGU FRACTION DIGIT THREE FOR ODD POWERS OF FOUR=000C7B;MALAYALAM LETTER RRA=000D31" \o
      ";HANGUL CHOSEONG NIEUN-PIEUP=001116;HANGUL CHOSEONG PIEUP-NIEUN=00111F" \o
      ";ETHIOPIC SYLLABLE HO=001206;ETHIOPIC SYLLABLE RE=00122D;ETHIOPIC SYLLABLE BU=001261" \o
      ";ETHIOPIC SYLLABLE VA=001268;ETHIOPIC SYLLABLE NI=001292;BALINESE SIGN SURANG=001B03" \o
      ";LATIN LETTER SMALL CAPITAL E=001D07;HOUSE=002302;CIRCLED LATIN SMALL LETTER M=0024DC" \o
      ";HEAVY LEFT-POINTING ANGLE BRACKET ORNAMENT=002770;WAVE ARROW POINTING DIRECTLY RIGHT=002933" \o
      ";TOP ARC ANTICLOCKWISE ARROW=00293A;RIGHT ANGLE BRACKET WITH DOT=002992" \o
      ";SUBSET OF ABOVE NOT EQUAL TO=002ACB;LATIN SMALL LETTER Z WITH DESCENDER=002C6C" \o
      ";TIFINAGH LETTER YAHH=002D43;CJK STROKE PD=0031DB;CIRCLED NUMBER THIRTY SEVEN=0032B2" \o
      ";ARABIC SYMBOL THREE DOTS POINTING DOWNWARDS BELOW=00FBB9" \o
      ";ARABIC LIGATURE LAM WITH MEEM WITH HAH INITIAL FORM=00FD88" \o
      ";ARABIC LIGATURE LAM WITH HAH WITH MEEM INITIAL FORM=00FDB5;COMBINING CONJOINING MACRON=00FE26" \o
      ";LINEAR B IDEOGRAM B157=0100A5;LINEAR B IDEOGRAM B166=0100AE;LINEAR B IDEOGRAM B184=0100BF" \o
      ";LINEAR B IDEOGRAM B256=0100DA;UGARITIC LETTER BETA=010381;VITHKUQI CAPITAL LETTER THE=01058F" \o
      ";PSALTER PAHLAVI LETTER YODH=010B88;OLD HUNGARIAN CAPITAL LETTER NIKOLSBURG UE=010CAC" \o
      ";BRAHMI LETTER OLD TAMIL NNNA=011037;NEWA LETTER I=011402;TIRHUTA VOWEL SIGN E=0114B9" \o
      ";ZANABAZAR SQUARE LETTER TTA=011A14;PAU CIN HAU LETTER UA=011ADA;BHAIKSUKI LETTER PHA=011C23" \o
      ";MRO LETTER EA=016A56;MEDEFAIDRIN NUMBER THIRTEEN=016E8D;HENTAIGANA LETTER E-2=01B00F" \o
      ";NUSHU CHARACTER-1B1A2=01B1A2;NUSHU CHARACTER-1B1B1=01B1B1;NUSHU CHARACTER-1B1C0=01B1C0" \o
      ";NUSHU CHARACTER-1B20B=01B20B;NUSHU CHARACTER-1B21A=01B21A;NUSHU CHARACTER-1B299=01B299" \o
      ";NUSHU CHARACTER-1B2A1=01B2A1;NUSHU CHARACTER-1B2B0=01B2B0" \o
      ";MATHEMATICAL SANS-SERIF BOLD ITALIC SMALL O=01D664;SIGNWRITING TOUCH MULTIPLE=01D906" \o
      ";SIGNWRITING HEAD MOVEMENT-WALLPLANE CURVE=01DA04;PLAYING CARD SEVEN OF SPADES=01F0A7",
    ";HYPHEN-MINUS=00002D;LATIN SMALL LETTER O WITH DIAERESIS=0000F6" \o
      ";GREEK CAPITAL LETTER ETA WITH TONOS=000389;CYRILLIC CAPITAL LETTER ZHE WITH DIAERESIS=0004DC" \o
      ";ARABIC QUESTION MARK=00061F;SYRIAC PTHAHA DOTTED=000732;THAANA LETTER SHEENU=00079D" \o
      ";NKO LETTER LA=0007DF;ARABIC LETTER BEH WITH SMALL V BELOW=0008A0;ARABIC DAMMA WITH DOT=0008FE" \o
      ";HANGUL JUNGSEONG SSANGARAEA=0011A2;ETHIOPIC SYLLABLE SE=001235;ETHIOPIC SYLLABLE CU=001279" \o
      ";ETHIOPIC SYLLABLE WA=0012C8;CANADIAN SYLLABICS CARRIER H=00144B" \o
      ";COMBINING PARENTHESES ABOVE=001ABB;GREEK SMALL LETTER IOTA WITH PSILI AND OXIA=001F34" \o
      ";GREEK SMALL LETTER ETA WITH OXIA AND YPOGEGRAMMENI=001FC4;DOUBLE DAGGER=002021" \o
      ";SMALL CONTAINS WITH OVERBAR=0022FE;APL FUNCTIONAL SYMBOL QUAD UP CARET=002353" \o
      ";CIRCLED LATIN SMALL LETTER N=0024DD;INTEGRAL WITH DOUBLE STROKE=002A0E" \o
      ";TWO INTERSECTING LOGICAL OR=002A56;REVERSED RIGHT ANGLE=002BFE;SQUARE NOTTO=003329" \o
      ";HEXAGRAM FOR PUSHING UPWARD=004DED;VAI DIGIT SIX=00A626;LATIN LETTER SMALL CAPITAL F=00A730" \o
      ";LATIN SMALL LETTER SALTILLO=00A78C;PHAGS-PA LETTER ASPIRATED FA=00A870" \o
      ";LATIN SMALL LETTER A REVERSED-SCHWA=00AB31;ARABIC LIGATURE TAH WITH MEEM ISOLATED FORM=00FC27" \o
      ";ARABIC LIGATURE SEEN WITH JEEM INITIAL FORM=00FCAD;COMBINING LIGATURE RIGHT HALF BELOW=00FE28" \o
      ";LINEAR B IDEOGRAM B158=0100A6;LINEAR B IDEOGRAM B167=0100AF;LINEAR B IDEOGRAM B185=0100C0" \o
      ";LINEAR B IDEOGRAM B248=0100D3;LINEAR B IDEOGRAM B257=0100DB;UGARITIC LETTER SADE=010395" \o
      ";OLD NORTH ARABIAN LETTER TAH=010A97;INSCRIPTIONAL PAHLAVI NUMBER THREE=010B7A" \o
      ";PSALTER PAHLAVI NUMBER FOUR=010BAC;BRAHMI SIGN ANUSVARA=011001;CHAKMA VIRAMA=011133" \o
      ";SHARADA VOWEL SIGN VOCALIC R=0111B8;ZANABAZAR SQUARE SIGN CANDRA WITH ORNAMENT=011A37" \o
      ";PAU CIN HAU LETTER VA=011AC6;CUNEIFORM SIGN HUB2 TIMES UD=01213D" \o
      ";CUNEIFORM SIGN IM TIMES TAK4=01214F;CUNEIFORM SIGN U OVER U U REVERSED OVER U REVERSED=012310" \o
      ";BAMUM LETTER PHASE-E NJAEMLI=01698A;HENTAIGANA LETTER E-3=01B010;NUSHU CHARACTER-1B1A3=01B1A3" \o
      ";NUSHU CHARACTER-1B1B2=01B1B2;NUSHU CHARACTER-1B1C1=01B1C1;NUSHU CHARACTER-1B1D0=01B1D0" \o
      ";NUSHU CHARACTER-1B20C=01B20C;NUSHU CHARACTER-1B21B=01B21B;NUSHU CHARACTER-1B22A=01B22A" \o
      ";NUSHU CHARACTER-1B2A2=01B2A2;NUSHU CHARACTER-1B2B1=01B2B1;NUSHU CHARACTER-1B2C0=01B2C0" \o
      ";MATHEMATICAL SANS-SERIF BOLD ITALIC SMALL P=01D665;SIGNWRITING BRUSH MULTIPLE=01D90F" \o
      ";SIGNWRITING LOCATION TORSO=01DA85;ARABIC MATHEMATICAL STRETCHED SHEEN=01EE74;GHOST=01F47B",
    ";PRIVATE USE-1=000091;LATIN LETTER SMALL CAPITAL G=000262" \o
      ";LATIN LETTER INVERTED GLOTTAL STOP=000296;HEBREW LETTER SAMEKH=0005E1" \o
      ";ARABIC ROUNDED HIGH STOP WITH FILLED CENTRE=0006EC;NKO LETTER MA=0007E1" \o
      ";TELUGU VOWEL SIGN II=000C40;MALAYALAM LETTER SSA=000D37;LAO LETTER KO=000E81" \o
      ";HANGUL JUNGSEONG U-U=00118D;ETHIOPIC SYLLABLE TE=001275;ETHIOPIC SYLLABLE XA=001280" \o
      ";ETHIOPIC SYLLABLE DU=0012F1;ETHIOPIC SYLLABLE JO=001306;ETHIOPIC SYLLABLE PI=001352" \o
      ";CANADIAN SYLLABICS CARRIER I=001409;VULGAR FRACTION ONE SEVENTH=002150" \o
      ";LEFTWARDS DOUBLE ARROW WITH STROKE=0021CD;APPROACHES THE LIMIT=002250" \o
      ";BOTTOM HALF INTEGRAL=002321;DIGIT FOUR FULL STOP=00248B;CIRCLED LATIN SMALL LETTER O=0024DE" \o
      ";RIGHTWARDS ARROW THROUGH SUPERSET=002B44;RAISED DOTTED INTERPOLATION MARKER=002E07" \o
      ";IDEOGRAPHIC TELEGRAPH SYMBOL FOR DAY TWENTY-THREE=0033F6;HEXAGRAM FOR THE GENTLE WIND=004DF8" \o
      ";HANGUL CHOSEONG RIEUL-PIEUP=00A969;ARABIC LIGATURE TEH WITH JEEM ISOLATED FORM=00FC0B" \o
      ";ARABIC LIGATURE YEH WITH KHAH ISOLATED FORM=00FC57" \o
      ";ARABIC LIGATURE THEH WITH MEEM INITIAL FORM=00FCA6" \o
      ";ARABIC LIGATURE KHAH WITH YEH ISOLATED FORM=00FD04" \o
      ";ARABIC LIGATURE GHAIN WITH MEEM WITH YEH FINAL FORM=00FD7A;FULLWIDTH GREATER-THAN SIGN=00FF1E" \o
      ";LINEAR B IDEOGRAM B168=0100B0;LINEAR B IDEOGRAM B177=0100B8;LINEAR B IDEOGRAM B249=0100D4" \o
      ";LINEAR B IDEOGRAM B258=0100DC;COPTIC EPACT NUMBER SEVENTY=0102F0;UGARITIC LETTER ALPA=010380" \o
      ";OLD HUNGARIAN SMALL LETTER A=010CC0;BRAHMI NUMBER EIGHTY=011062;KHUDAWADI SIGN NUKTA=0112E9" \o
      ";WARANG CITI CAPITAL LETTER O=0118A9;BHAIKSUKI NUMBER ONE=011C5A" \o
      ";CUNEIFORM SIGN BU OVER BU UN=01204F;CUNEIFORM SIGN EZEN TIMES DUN3 GUNU=0120A7" \o
      ";CUNEIFORM SIGN GA2 TIMES NUN=0120E0;CUNEIFORM NUMERIC SIGN FOUR U VARIANT FORM=012469" \o
      ";CUNEIFORM SIGN GA2 TIMES GAR PLUS NE=0124BD;HENTAIGANA LETTER E-4=01B011" \o
      ";NUSHU CHARACTER-1B1A4=01B1A4;NUSHU CHARACTER-1B1B3=01B1B3;NUSHU CHARACTER-1B1C2=01B1C2" \o
      ";NUSHU CHARACTER-1B1D1=01B1D1;NUSHU CHARACTER-1B1E0=01B1E0;NUSHU CHARACTER-1B20D=01B20D" \o
      ";NUSHU CHARACTER-1B21C=01B21C;NUSHU CHARACTER-1B22B=01B22B;NUSHU CHARACTER-1B23A=01B23A" \o
      ";NUSHU CHARACTER-1B2A3=01B2A3;NUSHU CHARACTER-1B2B2=01B2B2;NUSHU CHARACTER-1B2C1=01B2C1" \o
      ";NUSHU CHARACTER-1B2D0=01B2D0;DUPLOYAN AFFIX LOW VERTICAL=01BC98" \o
      ";BYZANTINE MUSICAL SYMBOL MARTYRIA DEYTEROS ICHOS=01D0A4" \o
      ";BYZANTINE MUSICAL SYMBOL SIMANSIS ARSEOS DISIMOU=01D0E3" \o
      ";TETRAGRAM FOR DEFECTIVENESS OR DISTORTION=01D30F" \o
      ";MATHEMATICAL SANS-SERIF BOLD ITALIC SMALL Q=01D666;MATHEMATICAL BOLD DIGIT FIVE=01D7D3" \o
      ";MATHEMATICAL BOLD DIGIT NINE=01D7D7;OTTOMAN SIYAQ ALTERNATE NUMBER SIX=01ED33" \o
      ";MAHJONG TILE FOUR OF BAMBOOS=01F013;PLAYING CARD SIX OF DIAMONDS=01F0C6;PARTY POPPER=01F389" \o
      ";BOW AND ARROW=01F3F9;CONFUSED FACE=01F615;SLEEPING FACE=01F634" \o
      ";SOUTH EAST SANS-SERIF ARROW=01F856;SQUID=01F991;ROLL OF PAPER=01F9FB",
    ";PRIVATE USE-2=000092;MASCULINE ORDINAL INDICATOR=0000BA" \o
      ";LATIN CAPITAL LETTER SMALL Q WITH HOOK TAIL=00024A;LATIN LETTER SMALL CAPITAL H=00029C" \o
      ";GREEK LUNATE EPSILON SYMBOL=0003F5;NKO LETTER NA=0007E3" \o
      ";SAMARITAN PUNCTUATION SOF MASHFAAT=00083D;MALAYALAM LETTER NYA=000D1E;LAO LETTER LO=000EA5" \o
      ";LAO DIGIT TWO=000ED2;GEORGIAN LETTER PHAR=0010E4;ETHIOPIC SYLLABLE QI=001242" \o
      ";ETHIOPIC SYLLABLE KO=0012AE;ETHIOPIC SYLLABLE YA=0012E8;ETHIOPIC DIGIT SEVEN=00136F" \o
      ";RUNIC MULTIPLE PUNCTUATION=0016EC;NEW TAI LUE SIGN LAEV=0019DF" \o
      ";KHMER SYMBOL PRAM-MUOY KOET=0019E6;TAI THAM VOWEL SIGN A=001A61" \o
      ";VULGAR FRACTION FOUR FIFTHS=002158;APL FUNCTIONAL SYMBOL BACKSLASH BAR=002340" \o
      ";CIRCLED LATIN SMALL LETTER P=0024DF;VIRGO=00264D;LEFTWARDS TRIPLE DASH ARROW=00290E" \o
      ";FALLING DIAGONAL CROSSING NORTH EAST ARROW=00292F;BLACK HEXAGON=002B22" \o
      ";TIFINAGH LETTER YAKH=002D45;CJK RADICAL NET THREE=002EB3;CJK RADICAL SIMPLIFIED WHEAT=002EE8" \o
      ";DOUBLE PRIME QUOTATION MARK=00301E;CJK STROKE PG=0031E2;HEXAGRAM FOR WAITING=004DC4" \o
      ";MYANMAR LETTER TAI LAING LLA=00A9FA;HANGUL JONGSEONG SIOS-HIEUH=00D7F2" \o
      ";ARABIC LIGATURE TAH WITH MEEM WITH HAH INITIAL FORM=00FD72" \o
      ";PRESENTATION FORM FOR VERTICAL LEFT CURLY BRACKET=00FE37;LINEAR B IDEOGRAM B169=0100B1" \o
      ";LINEAR B IDEOGRAM B178=0100B9;LINEAR B IDEOGRAM B259=0100DD;PHAISTOS DISC SIGN STRAINER=0101FA" \o
      ";HATRAN LETTER SAMEKH=0108EE;OLD NORTH ARABIAN LETTER REH=010A87;KHUDAWADI LETTER RRA=0112CA" \o
      ";MONGOLIAN TURNED SWIRL BIRGA WITH DOUBLE ORNAMENT=01166C;BHAIKSUKI LETTER SHA=011C2B" \o
      ";CUNEIFORM SIGN LAGAB TIMES U=0121E5;CUNEIFORM SIGN SHU2 PLUS E2 TIMES AN=012537" \o
      ";BASSA VAH COMBINING LOW TONE=016AF1;MEDEFAIDRIN CAPITAL LETTER A=016E4D" \o
      ";HENTAIGANA LETTER I-1=01B006;HENTAIGANA LETTER E-5=01B012;NUSHU CHARACTER-1B1A5=01B1A5" \o
      ";NUSHU CHARACTER-1B1B4=01B1B4;NUSHU CHARACTER-1B1C3=01B1C3;NUSHU CHARACTER-1B1D2=01B1D2" \o
      ";NUSHU CHARACTER-1B1E1=01B1E1;NUSHU CHARACTER-1B1F0=01B1F0;NUSHU CHARACTER-1B20E=01B20E" \o
      ";NUSHU CHARACTER-1B21D=01B21D;NUSHU CHARACTER-1B22C=01B22C;NUSHU CHARACTER-1B23B=01B23B" \o
      ";NUSHU CHARACTER-1B24A=01B24A;NUSHU CHARACTER-1B2A4=01B2A4;NUSHU CHARACTER-1B2B3=01B2B3" \o
      ";NUSHU CHARACTER-1B2C2=01B2C2;NUSHU CHARACTER-1B2D1=01B2D1;NUSHU CHARACTER-1B2E0=01B2E0" \o
      ";TETRAGRAM FOR YOUTHFULNESS=01D311;MATHEMATICAL SANS-SERIF BOLD ITALIC SMALL R=01D667" \o
      ";MATHEMATICAL SANS-SERIF DIGIT EIGHT=01D7EA;SIGNWRITING HAND-OVAL INDEX=01D803" \o
      ";CHOCOLATE BAR=01F36B;HEAVY NORTH EAST POINTING VINE LEAF=01F65E;METRO=01F687" \o
      ";TAG DIGIT TWO=0E0032",
    ";LATIN LETTER SMALL CAPITAL I=00026A;ARABIC SMALL HIGH MEEM ISOLATED FORM=0006E2" \o
      ";ARABIC LETTER FARSI YEH WITH EXTENDED ARABIC-INDIC DIGIT TWO ABOVE=000775" \o
      ";NKO EXCLAMATION MARK=0007F9;ARABIC LETTER YEH WITH TWO DOTS BELOW AND DOT ABOVE=0008A9" \o
      ";GUJARATI SIGN VIRAMA=000ACD;MALAYALAM LETTER TTA=000D1F;LAO LETTER MO=000EA1" \o
      ";LAO NIGGAHITA=000ECD;MYANMAR VOWEL SIGN U=00102F;ETHIOPIC SYLLABLE LO=00120E" \o
      ";ETHIOPIC SYLLABLE RI=00122A;ETHIOPIC SYLLABLE VE=00126D;ETHIOPIC SYLLABLE ZA=0012D8" \o
      ";ETHIOPIC SYLLABLE FU=001349;MONGOLIAN LETTER KHA=00183B;MONGOLIAN LETTER CHI=001842" \o
      ";BALINESE LETTER KA MAHAPRANA=001B14;RIGHT DOUBLE QUOTATION MARK=00201D" \o
      ";BROKEN CIRCLE WITH NORTHWEST ARROW=00238B;CIRCLED LATIN SMALL LETTER Q=0024E0" \o
      ";STAFF OF AESCULAPIUS=002695;FERRY=0026F4" \o
      ";LEFTWARDS TWO-HEADED ARROW WITH TAIL WITH DOUBLE VERTICAL STROKE=002B3D;BLACK OCTAGON=002BC4" \o
      ";CJK STROKE HP=0031C7;ARABIC LIGATURE SEEN WITH MEEM INITIAL FORM=00FCB0" \o
      ";ARABIC LIGATURE TEH WITH HAH WITH JEEM INITIAL FORM=00FD52" \o
      ";ARABIC LIGATURE SEEN WITH MEEM WITH MEEM FINAL FORM=00FD62;LINEAR B IDEOGRAM B179=0100BA" \o
      ";MEROITIC CURSIVE NUMBER ONE=0109C0;KHAROSHTHI LETTER BA=010A26;KHAROSHTHI DIGIT ONE=010A40" \o
      ";OLD NORTH ARABIAN NUMBER TEN=010A9E;OLD UYGHUR LETTER PE=010F7C;CHAKMA QUESTION MARK=011143" \o
      ";TIRHUTA VOWEL SIGN I=0114B1;MODI LETTER O=01160C;WARANG CITI SMALL LETTER ANG=0118CA" \o
      ";DIVES AKURU LETTER U=011904;BHAIKSUKI LETTER NNA=011C1C;BHAIKSUKI LETTER THA=011C1E" \o
      ";BHAIKSUKI DIGIT FOUR=011C54;CUNEIFORM SIGN ANSHE=012032" \o
      ";CUNEIFORM PUNCTUATION SIGN VERTICAL COLON=012471;BAMUM LETTER PHASE-D MAENJET=016942" \o
      ";MEDEFAIDRIN CAPITAL LETTER B=016E50;HENTAIGANA LETTER I-2=01B007;HENTAIGANA LETTER E-6=01B013" \o
      ";NUSHU CHARACTER-1B1A6=01B1A6;NUSHU CHARACTER-1B1B5=01B1B5;NUSHU CHARACTER-1B1C4=01B1C4" \o
      ";NUSHU CHARACTER-1B1D3=01B1D3;NUSHU CHARACTER-1B1E2=01B1E2;NUSHU CHARACTER-1B1F1=01B1F1" \o
      ";NUSHU CHARACTER-1B20F=01B20F;NUSHU CHARACTER-1B21E=01B21E;NUSHU CHARACTER-1B22D=01B22D" \o
      ";NUSHU CHARACTER-1B23C=01B23C;NUSHU CHARACTER-1B24B=01B24B;NUSHU CHARACTER-1B25A=01B25A" \o
      ";NUSHU CHARACTER-1B2A5=01B2A5;NUSHU CHARACTER-1B2B4=01B2B4;NUSHU CHARACTER-1B2C3=01B2C3" \o
      ";NUSHU CHARACTER-1B2D2=01B2D2;NUSHU CHARACTER-1B2E1=01B2E1;NUSHU CHARACTER-1B2F0=01B2F0" \o
      ";ZNAMENNY NEUME STRELA DVOECHELNAYA=01CF9B;MATHEMATICAL SANS-SERIF BOLD ITALIC SMALL S=01D668" \o
      ";INDIC SIYAQ NUMBER TWENTY THOUSAND=01EC96;MAHJONG TILE FOUR OF CIRCLES=01F01C" \o
      ";PLAYING CARD QUEEN OF HEARTS=01F0BD;NEUTRAL CHESS TURNED BISHOP=01FA2D" \o
      ";NEUTRAL CHESS TURNED KNIGHT=01FA2E",
    ";DEVICE CONTROL THREE=000013;CYRILLIC SMALL LETTER ABKHASIAN DZE=0004E1" \o
      ";CYRILLIC SMALL LETTER I WITH MACRON=0004E3;CYRILLIC SMALL LETTER DZZHE=00052B" \o
      ";SYRIAC LETTER DALATH=000715;NKO LETTER PA=0007D4;GUJARATI DIGIT SEVEN=000AED" \o
      ";THAI CHARACTER SARA O=000E42;LAO LETTER NO=000E99;MYANMAR SIGN LITTLE SECTION=00104A" \o
      ";ETHIOPIC SYLLABLE MO=00121E;ETHIOPIC SYLLABLE SI=001232;ETHIOPIC SYLLABLE WE=0012CD" \o
      ";ETHIOPIC SYLLABLE GU=001309;MONGOLIAN LETTER LHA=001840;LATIN LETTER SMALL CAPITAL J=001D0A" \o
      ";LATIN SMALL LETTER ESH WITH RETROFLEX HOOK=001D98;UNION=00222A;CIRCLED DOT OPERATOR=002299" \o
      ";NUMBER TEN FULL STOP=002491;CIRCLED LATIN SMALL LETTER R=0024E1;UPWARDS ARROW TO BAR=002912" \o
      ";LEFTWARDS DOUBLE ARROW-TAIL=00291B;BLACK CURVED DOWNWARDS AND LEFTWARDS ARROW=002BA8" \o
      ";BLACK CURVED LEFTWARDS AND DOWNWARDS ARROW=002BAE;ERIS FORM ONE=002BF0;YI SYLLABLE O=00A011" \o
      ";ARABIC LIGATURE TEH WITH MEEM ISOLATED FORM=00FC0E;HALFWIDTH HANGUL LETTER SSANGPIEUP=00FFB3" \o
      ";FULLWIDTH BROKEN BAR=00FFE4;LINEAR B IDEOGRAM B189=0100C1;SHAVIAN LETTER JUDGE=010461" \o
      ";KHAROSHTHI LETTER CA=010A15;OLD NORTH ARABIAN LETTER TEH=010A89" \o
      ";INSCRIPTIONAL PARTHIAN LETTER BETH=010B41;WARANG CITI SMALL LETTER ODD=0118D1" \o
      ";PAU CIN HAU LETTER ZA=011AC5;CUNEIFORM SIGN GISAL=012110" \o
      ";CUNEIFORM SIGN LAGAB TIMES A PLUS DA PLUS HA=0121BA;CUNEIFORM SIGN MUSH3=012239" \o
      ";CUNEIFORM SIGN ZIB KABA TENU=012367;BAMUM LETTER PHASE-A MAEKEUP=01681A" \o
      ";BAMUM LETTER PHASE-A SHOQ NSHUT YUM=016840;BAMUM LETTER PHASE-D NJEUAEM=01690E" \o
      ";MEDEFAIDRIN CAPITAL LETTER C=016E51;MEDEFAIDRIN NUMBER FOURTEEN=016E8E" \o
      ";HENTAIGANA LETTER I-3=01B008;NUSHU CHARACTER-1B17A=01B17A;NUSHU CHARACTER-1B1A7=01B1A7" \o
      ";NUSHU CHARACTER-1B1B6=01B1B6;NUSHU CHARACTER-1B1C5=01B1C5;NUSHU CHARACTER-1B1D4=01B1D4" \o
      ";NUSHU CHARACTER-1B1E3=01B1E3;NUSHU CHARACTER-1B1F2=01B1F2;NUSHU CHARACTER-1B21F=01B21F" \o
      ";NUSHU CHARACTER-1B22E=01B22E;NUSHU CHARACTER-1B23D=01B23D;NUSHU CHARACTER-1B24C=01B24C" \o
      ";NUSHU CHARACTER-1B25B=01B25B;NUSHU CHARACTER-1B26A=01B26A;NUSHU CHARACTER-1B2A6=01B2A6" \o
      ";NUSHU CHARACTER-1B2B5=01B2B5;NUSHU CHARACTER-1B2C4=01B2C4;NUSHU CHARACTER-1B2D3=01B2D3" \o
      ";NUSHU CHARACTER-1B2E2=01B2E2;NUSHU CHARACTER-1B2F1=01B2F1;MAYAN NUMERAL ELEVEN=01D2EB" \o
      ";MATHEMATICAL SANS-SERIF BOLD ITALIC SMALL T=01D669" \o
      ";MATHEMATICAL SANS-SERIF BOLD SMALL UPSILON=01D784" \o
      ";SIGNWRITING MOUTH OPEN RECTANGLE WRINKLED=01DA4B" \o
      ";TORTOISE SHELL BRACKETED CJK UNIFIED IDEOGRAPH-6557=01F248;MOUSE=01F401;CROWN=01F451" \o
      ";SHRUG=01F937;FREEZING FACE=01F976;LUNGS=01FAC1;SEGMENTED DIGIT FOUR=01FBF4",
    ";PARTIAL LINE FORWARD=00008B;ARABIC LETTER FARSI YEH WITH TWO DOTS ABOVE=00063E" \o
      ";NKO LETTER NA WOLOSO=0007E0;SAMARITAN PUNCTUATION TURU=00083B;ARABIC SMALL HIGH WAW=0008F3" \o
      ";ARABIC RIGHT ARROWHEAD ABOVE=0008F8;TELUGU VOWEL SIGN AU=000C4C" \o
      ";TIBETAN MARK INITIAL YIG MGO MDUN MA=000F04;ETHIOPIC SYLLABLE HU=001201" \o
      ";ETHIOPIC SYLLABLE TI=001272;ETHIOPIC SYLLABLE XE=001285;ETHIOPIC SYLLABLE NO=001296" \o
      ";CANADIAN SYLLABICS WOODS-CREE THWEE=001677;MONGOLIAN LETTER ANG=001829" \o
      ";SUNDANESE LETTER KHA=001BAE;LATIN LETTER SMALL CAPITAL K=001D0B" \o
      ";LATIN SMALL LETTER T WITH DIAERESIS=001E97;CIRCLED LATIN SMALL LETTER S=0024E2" \o
      ";HEAVY DOUBLE TURNED COMMA QUOTATION MARK ORNAMENT=00275D;CJK RADICAL GRASS ONE=002EBE" \o
      ";CJK STROKE SG=0031DA;MODIFIER LETTER CHINESE TONE YIN QU=00A704" \o
      ";SAURASHTRA SIGN CANDRABINDU=00A8C5;HEBREW LETTER PE WITH DAGESH=00FB44" \o
      ";KHAROSHTHI LETTER DA=010A21;INSCRIPTIONAL PARTHIAN LETTER KAPH=010B4A" \o
      ";OLD HUNGARIAN SMALL LETTER E=010CC9;OLD SOGDIAN LETTER FINAL TAW=010F1B" \o
      ";CHORASMIAN LETTER PE=010FC1;BRAHMI VOWEL SIGN VOCALIC LL=011041;KHUDAWADI LETTER NYA=0112C5" \o
      ";NEWA LETTER O=01140C;CUNEIFORM SIGN GA2 TIMES SUM=0120E8;MEDEFAIDRIN CAPITAL LETTER D=016E59" \o
      ";HENTAIGANA LETTER I-4=01B009;NUSHU CHARACTER-1B17B=01B17B;NUSHU CHARACTER-1B18A=01B18A" \o
      ";NUSHU CHARACTER-1B1A8=01B1A8;NUSHU CHARACTER-1B1B7=01B1B7;NUSHU CHARACTER-1B1C6=01B1C6" \o
      ";NUSHU CHARACTER-1B1D5=01B1D5;NUSHU CHARACTER-1B1E4=01B1E4;NUSHU CHARACTER-1B1F3=01B1F3" \o
      ";NUSHU CHARACTER-1B22F=01B22F;NUSHU CHARACTER-1B23E=01B23E;NUSHU CHARACTER-1B24D=01B24D" \o
      ";NUSHU CHARACTER-1B25C=01B25C;NUSHU CHARACTER-1B26B=01B26B;NUSHU CHARACTER-1B27A=01B27A" \o
      ";NUSHU CHARACTER-1B2A7=01B2A7;NUSHU CHARACTER-1B2B6=01B2B6;NUSHU CHARACTER-1B2C5=01B2C5" \o
      ";NUSHU CHARACTER-1B2D4=01B2D4;NUSHU CHARACTER-1B2E3=01B2E3;NUSHU CHARACTER-1B2F2=01B2F2" \o
      ";MATHEMATICAL SANS-SERIF BOLD ITALIC SMALL U=01D66A;MATHEMATICAL BOLD CAPITAL XI=01D6B5" \o
      ";SIGNWRITING HAND-FIST MIDDLE THUMB ANGLED INDEX UP=01D842;DIGIT ZERO FULL STOP=01F100" \o
      ";WANING CRESCENT MOON SYMBOL=01F318;CLOCK FACE SIX OCLOCK=01F555" \o
      ";ALCHEMICAL SYMBOL FOR TUTTY=01F74D;SLOTH=01F9A5",
    ";RIGHT SQUARE BRACKET=00005D;APPLICATION PROGRAM COMMAND=00009F" \o
      ";LATIN SMALL LETTER U WITH DIAERESIS=0000FC;LATIN LETTER SMALL CAPITAL L=00029F" \o
      ";NKO LETTER RA=0007D9;ARABIC LETTER ALEF WITH RIGHT MIDDLE STROKE=000872" \o
      ";THAI CHARACTER HO HIP=000E2B;LAO LETTER PO=000E9B;TIBETAN SIGN RDEL DKAR GNYIS=000F1B" \o
      ";ETHIOPIC SYLLABLE YE=0012ED;HANUNOO VOWEL SIGN U=001733;LIMBU SIGN KEMPHRENG=00193A" \o
      ";TAI THAM VOWEL SIGN E=001A6E;BALINESE MUSICAL SYMBOL RIGHT-HAND OPEN DAG=001B75" \o
      ";RING EQUAL TO=002257;LEFT PARENTHESIS LOWER HOOK=00239D;CIRCLED LATIN SMALL LETTER T=0024E3" \o
      ";SQUARE WITH LOWER RIGHT DIAGONAL HALF BLACK=0025EA;LEFT BARB UP RIGHT BARB DOWN HARPOON=00294A" \o
      ";LEFT BARB DOWN RIGHT BARB UP HARPOON=00294B;UP BARB RIGHT DOWN BARB LEFT HARPOON=00294C" \o
      ";UP BARB LEFT DOWN BARB RIGHT HARPOON=00294D;LEFTWARDS BLACK CIRCLED WHITE ARROW=002B88" \o
      ";KANGXI RADICAL SNOUT=002F39;PARENTHESIZED IDEOGRAPH ONE=003220" \o
      ";CIRCLED NUMBER TWENTY SEVEN=003257;HEXAGRAM FOR RETREAT=004DE0;VAI DIGIT TWO=00A622" \o
      ";MODIFIER LETTER CHINESE TONE YIN RU=00A706;HANGUL CHOSEONG PIEUP-SIOS-THIEUTH=00A972" \o
      ";JAVANESE LETTER DA MAHAPRANA=00A9A3;MYANMAR LETTER TAI LAING NNA=00A9EF" \o
      ";MYANMAR TAI LAING DIGIT FOUR=00A9F4;ARABIC LIGATURE ZAH WITH MEEM ISOLATED FORM=00FC28" \o
      ";ARABIC LIGATURE YEH WITH JEEM ISOLATED FORM=00FC55" \o
      ";ARABIC LIGATURE JEEM WITH YEH ISOLATED FORM=00FD02" \o
      ";ARABIC LIGATURE TEH WITH HAH WITH MEEM INITIAL FORM=00FD53" \o
      ";ARABIC LIGATURE TEH WITH MEEM WITH HAH INITIAL FORM=00FD56;CAUCASIAN ALBANIAN LETTER ON=010552" \o
      ";OLD SOUTH ARABIAN NUMBER ONE=010A7D;OLD NORTH ARABIAN LETTER ZAH=010A9C" \o
      ";KHUDAWADI LETTER TTA=0112C6;SIDDHAM VOWEL SIGN VOCALIC R=0115B4;SOYOMBO VOWEL SIGN E=011A54" \o
      ";BHAIKSUKI NUMBER TEN=011C63;CUNEIFORM SIGN AB TIMES IMIN=012011;CUNEIFORM SIGN NISAG=012260" \o
      ";CUNEIFORM SIGN SHE PLUS NAM2=012534;CUNEIFORM SIGN SI TIMES TAK4=012538" \o
      ";BAMUM LETTER PHASE-A MANSUAE=01680F;BAMUM LETTER PHASE-B PUNGAAM=016881" \o
      ";BAMUM LETTER PHASE-D NGGWAEN=016933;MRO LETTER LA=016A5B;MEDEFAIDRIN CAPITAL LETTER E=016E4F" \o
      ";NUSHU CHARACTER-1B17C=01B17C;NUSHU CHARACTER-1B18B=01B18B;NUSHU CHARACTER-1B19A=01B19A" \o
      ";NUSHU CHARACTER-1B1A9=01B1A9;NUSHU CHARACTER-1B1B8=01B1B8;NUSHU CHARACTER-1B1C7=01B1C7" \o
      ";NUSHU CHARACTER-1B1D6=01B1D6;NUSHU CHARACTER-1B1E5=01B1E5;NUSHU CHARACTER-1B1F4=01B1F4" \o
      ";NUSHU CHARACTER-1B23F=01B23F;NUSHU CHARACTER-1B24E=01B24E;NUSHU CHARACTER-1B25D=01B25D" \o
      ";NUSHU CHARACTER-1B26C=01B26C;NUSHU CHARACTER-1B27B=01B27B;NUSHU CHARACTER-1B28A=01B28A" \o
      ";NUSHU CHARACTER-1B2A8=01B2A8;NUSHU CHARACTER-1B2B7=01B2B7;NUSHU CHARACTER-1B2C6=01B2C6" \o
      ";NUSHU CHARACTER-1B2D5=01B2D5;NUSHU CHARACTER-1B2E4=01B2E4;NUSHU CHARACTER-1B2F3=01B2F3" \o
      ";ZNAMENNY NEUME STRELA KRYUKOVAYA GROMOPOVODNAYA WITH DOUBLE ZAPYATAYA=01CFBB" \o
      ";MATHEMATICAL SANS-SERIF BOLD ITALIC SMALL V=01D66B;MATHEMATICAL BOLD CAPITAL MU=01D6B3" \o
      ";SIGNWRITING HAND-FIST INDEX=01D800;SIGNWRITING TEETH BITE LIPS=01DA67" \o
      ";MENDE KIKAKUI COMBINING NUMBER TENS=01E8D1;ADLAM SMALL LETTER BA=01E926" \o
      ";PLAYING CARD SEVEN OF HEARTS=01F0B7;BIRTHDAY CAKE=01F382" \o
      ";WHITE RIGHT POINTING BACKHAND INDEX=01F449;SKULL=01F480;E-MAIL SYMBOL=01F4E7" \o
      ";GRINNING FACE=01F600;LEFTWARDS BACK-TILTED SHADOWED WHITE ARROW=01F8A8;PINCHING HAND=01F90F" \o
      ";THINKING FACE=01F914;LOWER LEFT BLOCK DIAGONAL LOWER MIDDLE LEFT TO LOWER RIGHT=01FB3D",
    ";GREEK SMALL LETTER ALPHA WITH TONOS=0003AC;HEBREW POINT DAGESH OR MAPIQ=0005BC" \o
      ";NKO LETTER SA=0007DB;DEVANAGARI LETTER UU=00090A;HANGUL CHOSEONG SIOS-KIYEOK=00112D" \o
      ";HANGUL JUNGSEONG WAE=00116B;ETHIOPIC SYLLABLE VI=00126A;ETHIOPIC SYLLABLE ZE=0012DD" \o
      ";ETHIOPIC SYLLABLE JU=001301;ETHIOPIC SYLLABLE PO=001356;SUNDANESE LETTER NGA=001B8D" \o
      ";LATIN LETTER SMALL CAPITAL M=001D0D;FROWN=002322;OCR CUSTOMER ACCOUNT NUMBER=002449" \o
      ";CIRCLED LATIN SMALL LETTER U=0024E4;BOX DRAWINGS LIGHT ARC DOWN AND LEFT=00256E" \o
      ";FINITE PART INTEGRAL=002A0D;VARIATION SELECTOR-1=00FE00" \o
      ";OLD HUNGARIAN SMALL LETTER SHORT ER=010CE3;KAITHI SIGN ANUSVARA=011081" \o
      ";BHAIKSUKI DIGIT ZERO=011C50;CUNEIFORM SIGN KA TIMES GUR7=01216C" \o
      ";CUNEIFORM SIGN MUSH3 TIMES A=01223A;CUNEIFORM SIGN UM TIMES SHA3=012320" \o
      ";CUNEIFORM SIGN TAK4 PLUS SAG=012539;MEDEFAIDRIN CAPITAL LETTER F=016E4A" \o
      ";NUSHU CHARACTER-1B17D=01B17D;NUSHU CHARACTER-1B18C=01B18C;NUSHU CHARACTER-1B19B=01B19B" \o
      ";NUSHU CHARACTER-1B1B9=01B1B9;NUSHU CHARACTER-1B1C8=01B1C8;NUSHU CHARACTER-1B1D7=01B1D7" \o
      ";NUSHU CHARACTER-1B1E6=01B1E6;NUSHU CHARACTER-1B1F5=01B1F5;NUSHU CHARACTER-1B24F=01B24F" \o
      ";NUSHU CHARACTER-1B25E=01B25E;NUSHU CHARACTER-1B26D=01B26D;NUSHU CHARACTER-1B27C=01B27C" \o
      ";NUSHU CHARACTER-1B28B=01B28B;NUSHU CHARACTER-1B29A=01B29A;NUSHU CHARACTER-1B2A9=01B2A9" \o
      ";NUSHU CHARACTER-1B2B8=01B2B8;NUSHU CHARACTER-1B2C7=01B2C7;NUSHU CHARACTER-1B2D6=01B2D6" \o
      ";NUSHU CHARACTER-1B2E5=01B2E5;NUSHU CHARACTER-1B2F4=01B2F4" \o
      ";BYZANTINE MUSICAL SYMBOL DIASTOLI THESEOS=01D0DD;TETRAGRAM FOR ASCENT=01D30C" \o
      ";TETRAGRAM FOR LEGION=01D325;TETRAGRAM FOR FLIGHT=01D336" \o
      ";MATHEMATICAL SANS-SERIF BOLD ITALIC SMALL W=01D66C;MATHEMATICAL BOLD CAPITAL NU=01D6B4" \o
      ";OTTOMAN SIYAQ ALTERNATE NUMBER TWO=01ED2F;PLAYING CARD TWO OF DIAMONDS=01F0C2;SUSHI=01F363" \o
      ";TANABATA TREE=01F38B;MAN IN TUXEDO=01F935;SKUNK=01F9A8" \o
      ";UPPER AND RIGHT AND LOWER TRIANGULAR THREE QUARTERS BLOCK=01FB68",
    ";VULGAR FRACTION ONE QUARTER=0000BC;LATIN LETTER SMALL CAPITAL N=000274" \o
      ";ARMENIAN CAPITAL LETTER GHAD=000542;ARABIC SIGN SINDHI AMPERSAND=0006FD;NKO DIGIT SIX=0007C6" \o
      ";NKO LETTER TA=0007D5;GURMUKHI LETTER DDHA=000A22;GUJARATI VOWEL SIGN CANDRA O=000AC9" \o
      ";LAO LETTER RO=000EA3;ETHIOPIC SYLLABLE QO=001246;ETHIOPIC SYLLABLE KU=0012A9" \o
      ";ETHIOPIC SYLLABLE WI=0012CA;CANADIAN SYLLABICS CARRIER P=0015EE" \o
      ";KHMER INDEPENDENT VOWEL QUU=0017A9;CANADIAN SYLLABICS OJIBWAY C=0018D7" \o
      ";BUGINESE LETTER NYCA=001A0F;COMBINING TRIPLE DOT=001AB4" \o
      ";LATIN SMALL LETTER W WITH DIAERESIS=001E85;GREEK SMALL LETTER IOTA WITH VRACHY=001FD0" \o
      ";DOUBLE VERTICAL BAR DOUBLE RIGHT TURNSTILE=0022AB;SYMBOL FOR RECORD SEPARATOR=00241E" \o
      ";CIRCLED LATIN SMALL LETTER V=0024E5;BOX DRAWINGS LIGHT QUADRUPLE DASH VERTICAL=00250A" \o
      ";N-ARY SQUARE UNION OPERATOR=002A06;GREATER-THAN OR APPROXIMATE=002A86" \o
      ";CJK RADICAL WATER ONE=002EA1;CJK RADICAL MOUND ONE=002ED5;BAMUM LETTER NGKWAEN=00A6D3" \o
      ";VARIATION SELECTOR-2=00FE01;PRESENTATION FORM FOR VERTICAL RIGHT DOUBLE ANGLE BRACKET=00FE3E" \o
      ";OLD PERSIAN SIGN BAGA=0103CE;MEROITIC CURSIVE NUMBER TEN=0109C9;KHAROSHTHI LETTER GA=010A12" \o
      ";ELYMAIC LIGATURE ZAYIN-YODH=010FF6;WARANG CITI SMALL LETTER HAR=0118DC" \o
      ";SOYOMBO CLUSTER-INITIAL LETTER SHA=011A88;CUNEIFORM SIGN DAG KISIM5 TIMES GIR2=01205E" \o
      ";CUNEIFORM SIGN DAG KISIM5 TIMES TAK4=01206B;CUNEIFORM SIGN KISAL=0121A6" \o
      ";CUNEIFORM SIGN LAL TIMES LAL=0121F3;CUNEIFORM SIGN SAG TIMES KAK=01229A" \o
      ";CUNEIFORM SIGN SAG TIMES TAB=0122A1;EGYPTIAN HIEROGLYPH OVERLAY MIDDLE=013436" \o
      ";MEDEFAIDRIN CAPITAL LETTER G=016E49;HENTAIGANA LETTER O-1=01B014;NUSHU CHARACTER-1B17E=01B17E" \o
      ";NUSHU CHARACTER-1B18D=01B18D;NUSHU CHARACTER-1B19C=01B19C;NUSHU CHARACTER-1B1C9=01B1C9" \o
      ";NUSHU CHARACTER-1B1D8=01B1D8;NUSHU CHARACTER-1B1E7=01B1E7;NUSHU CHARACTER-1B1F6=01B1F6" \o
      ";NUSHU CHARACTER-1B25F=01B25F;NUSHU CHARACTER-1B26E=01B26E;NUSHU CHARACTER-1B27D=01B27D" \o
      ";NUSHU CHARACTER-1B28C=01B28C;NUSHU CHARACTER-1B29B=01B29B;NUSHU CHARACTER-1B2B9=01B2B9" \o
      ";NUSHU CHARACTER-1B2C8=01B2C8;NUSHU CHARACTER-1B2D7=01B2D7;NUSHU CHARACTER-1B2E6=01B2E6" \o
      ";NUSHU CHARACTER-1B2F5=01B2F5;BYZANTINE MUSICAL SYMBOL MARTYRIA TETARTOS ICHOS=01D0A8" \o
      ";MUSICAL SYMBOL GLISSANDO UP=01D1B1;MATHEMATICAL SANS-SERIF BOLD ITALIC SMALL X=01D66D" \o
      ";SIGNWRITING HAND-FIST INDEX MIDDLE CROSSED=01D81A" \o
      ";SIGNWRITING MOVEMENT-WALLPLANE WAVE DIAGONAL PATH MEDIUM=01D9B5;MOUTH=01F444" \o
      ";RIGHT THOUGHT BUBBLE=01F5ED;STUPA=01F6D3" \o
      ";DOWNWARDS TRIANGLE-HEADED ARROW WITH NARROW SHAFT=01F823;DROOLING FACE=01F924;TROLL=01F9CC" \o
      ";SEGMENTED DIGIT ZERO=01FBF0;TAG LEFT PARENTHESIS=0E0028",
    ";SINGLE CHARACTER INTRODUCER=00009A" \o
      ";ARABIC LETTER HAH WITH SMALL ARABIC LETTER TAH AND TWO DOTS=00076F;DEVANAGARI OM=000950" \o
      ";GURMUKHI DIGIT EIGHT=000A6E;KANNADA VOWEL SIGN AA=000CBE;GEORGIAN LETTER SHIN=0010E8" \o
      ";HANGUL JUNGSEONG YAE=001164;HANGUL JONGSEONG RIEUL-KIYEOK-SIOS=0011CC" \o
      ";ETHIOPIC SYLLABLE LU=001209;ETHIOPIC SYLLABLE RO=00122E;ETHIOPIC SYLLABLE XI=001282" \o
      ";MONGOLIAN LETTER MANCHU ALI GALI BHA=0018A8;LATIN LETTER SMALL CAPITAL O=001D0F" \o
      ";LATIN SMALL LETTER X WITH DIAERESIS=001E8D;FOUR DOT MARK=00205B" \o
      ";SYMBOL FOR SAMARITAN SOURCE=00214F;ANTICLOCKWISE TOP SEMICIRCLE ARROW=0021B6" \o
      ";LEFT RIGHT OPEN-HEADED ARROW=0021FF;APL FUNCTIONAL SYMBOL DOWN TACK JOT=00234E" \o
      ";LEFT PARENTHESIS UPPER HOOK=00239B;BLACK LEFT-POINTING DOUBLE TRIANGLE=0023EA" \o
      ";CIRCLED LATIN SMALL LETTER W=0024E6;VERTICAL ZIGZAG LINE=00299A" \o
      ";BLACK CIRCLE WITH DOWN ARROW=0029ED;SQUARE WITH UPPER RIGHT DIAGONAL HALF BLACK=002B14" \o
      ";CJK RADICAL BRUSH ONE=002EBA;CJK STROKE WG=0031C1;LISU LETTER A=00A4EE" \o
      ";TAI VIET TONE MAI THO=00AAC1;MEETEI MAYEK VOWEL SIGN ANAP=00ABE5" \o
      ";HANGUL JONGSEONG SSANGCIEUC=00D7F9;ARABIC LIGATURE MEEM WITH YEH ISOLATED FORM=00FC4A" \o
      ";ARABIC LIGATURE YEH WITH MEEM ISOLATED FORM=00FC58" \o
      ";ARABIC LIGATURE SEEN WITH REH ISOLATED FORM=00FD0E;VARIATION SELECTOR-3=00FE02" \o
      ";FULLWIDTH DIGIT FIVE=00FF15;FULLWIDTH DIGIT NINE=00FF19;AEGEAN NUMBER THIRTY=010112" \o
      ";GREEK ACROPHONIC ATTIC FIVE TALENTS=010148;DESERET SMALL LETTER LONG AH=01042B" \o
      ";SHAVIAN LETTER THIGH=010454;KHAROSHTHI LETTER HA=010A31;OLD NORTH ARABIAN LETTER YEH=010A9A" \o
      ";OLD HUNGARIAN SMALL LETTER I=010CD0;TIRHUTA VOWEL SIGN O=0114BC;MODI LETTER U=011604" \o
      ";CUNEIFORM SIGN GIR3 TIMES A PLUS IGI=01210B;CUNEIFORM SIGN LUGAL=012217" \o
      ";CUNEIFORM SIGN DIM TIMES IGI=01248A;CUNEIFORM SIGN SHE PLUS HUB2=012533" \o
      ";BAMUM LETTER PHASE-E NGGURAE=016986;MEDEFAIDRIN CAPITAL LETTER H=016E56" \o
      ";HENTAIGANA LETTER O-2=01B015;NUSHU CHARACTER-1B17F=01B17F;NUSHU CHARACTER-1B18E=01B18E" \o
      ";NUSHU CHARACTER-1B19D=01B19D;NUSHU CHARACTER-1B1D9=01B1D9;NUSHU CHARACTER-1B1E8=01B1E8" \o
      ";NUSHU CHARACTER-1B1F7=01B1F7;NUSHU CHARACTER-1B26F=01B26F;NUSHU CHARACTER-1B27E=01B27E" \o
      ";NUSHU CHARACTER-1B28D=01B28D;NUSHU CHARACTER-1B29C=01B29C;NUSHU CHARACTER-1B2C9=01B2C9" \o
      ";NUSHU CHARACTER-1B2D8=01B2D8;NUSHU CHARACTER-1B2E7=01B2E7;NUSHU CHARACTER-1B2F6=01B2F6" \o
      ";MATHEMATICAL SANS-SERIF BOLD ITALIC SMALL Y=01D66E;MATHEMATICAL SANS-SERIF DIGIT THREE=01D7E5" \o
      ";TULIP=01F337;BEATING HEART=01F493;FLEXED BICEPS=01F4AA;SPEAK-NO-EVIL MONKEY=01F64A" \o
      ";DO NOT LITTER SYMBOL=01F6AF;ALCHEMICAL SYMBOL FOR ALKALI=01F736;OTTER=01F9A6;TOOTH=01F9B7" \o
      ";RAZOR=01FA92;LOWER LEFT BLOCK DIAGONAL UPPER MIDDLE LEFT TO LOWER RIGHT=01FB3F" \o
      ";LOWER LEFT BLOCK DIAGONAL UPPER LEFT TO LOWER MIDDLE RIGHT=01FB4F" \o
      ";UPPER LEFT BLOCK DIAGONAL LOWER LEFT TO LOWER MIDDLE RIGHT=01FB5E",
    ";END OF PROTECTED AREA=000097;LATIN SMALL LETTER Y WITH DIAERESIS=0000FF" \o
      ";COMBINING ACUTE ACCENT BELOW=000317;COMBINING GREEK PERISPOMENI=000342" \o
      ";GREEK SMALL LETTER OMEGA WITH TONOS=0003CE;CYRILLIC SMALL LETTER SCHWA WITH DIAERESIS=0004DB" \o
      ";HEBREW ACCENT TELISHA QETANA=0005A9;SAMARITAN LETTER BIT=000801;THAI CHARACTER PO PLA=000E1B" \o
      ";THAI CHARACTER SARA U=000E38;LAO LETTER TO=000E95;ETHIOPIC SYLLABLE MU=001219" \o
      ";ETHIOPIC SYLLABLE SO=001236;ETHIOPIC SYLLABLE YI=0012EA;TAI THAM VOWEL SIGN I=001A65" \o
      ";LATIN LETTER SMALL CAPITAL P=001D18;MODIFIER LETTER SMALL OPEN E=001D4B" \o
      ";RIGHT SINGLE QUOTATION MARK=002019;HORIZONTAL ELLIPSIS=002026;CHARACTER TIE=002040" \o
      ";CIRCLED LATIN SMALL LETTER X=0024E7;INVERSE WHITE CIRCLE=0025D9;TIFINAGH LETTER YASH=002D5B" \o
      ";CJK RADICAL KNIFE TWO=002E89;CJK STROKE XG=0031C2;PARENTHESIZED KOREAN CHARACTER O HU=00321E" \o
      ";CIRCLED IDEOGRAPH SUPERVISE=0032AC;IDEOGRAPHIC TELEGRAPH SYMBOL FOR DAY TWENTY-SEVEN=0033FA" \o
      ";LATIN SMALL LETTER TRESILLO=00A72B;MYANMAR TAI LAING DIGIT ZERO=00A9F0" \o
      ";ARABIC LIGATURE NOON WITH HAH ISOLATED FORM=00FC4C" \o
      ";ARABIC LIGATURE NOON WITH KHAH INITIAL FORM=00FCD4" \o
      ";ARABIC LIGATURE SHEEN WITH JEEM WITH YEH FINAL FORM=00FD69;VARIATION SELECTOR-4=00FE03" \o
      ";OLD SOUTH ARABIAN LETTER MEM=010A63;INSCRIPTIONAL PARTHIAN LETTER HETH=010B47" \o
      ";OLD SOGDIAN LETTER FINAL NUN=010F0F;SOYOMBO VOWEL SIGN I=011A51" \o
      ";CUNEIFORM SIGN KA TIMES SHID=012182;CUNEIFORM SIGN LU2 TIMES PAP=01251C" \o
      ";BAMUM LETTER PHASE-C PIRIEEN=01689C;MRO LETTER PA=016A50;MEDEFAIDRIN CAPITAL LETTER I=016E4B" \o
      ";HENTAIGANA LETTER O-3=01B016;NUSHU CHARACTER-1B18F=01B18F;NUSHU CHARACTER-1B19E=01B19E" \o
      ";NUSHU CHARACTER-1B1E9=01B1E9;NUSHU CHARACTER-1B1F8=01B1F8;NUSHU CHARACTER-1B27F=01B27F" \o
      ";NUSHU CHARACTER-1B28E=01B28E;NUSHU CHARACTER-1B29D=01B29D;NUSHU CHARACTER-1B2D9=01B2D9" \o
      ";NUSHU CHARACTER-1B2E8=01B2E8;NUSHU CHARACTER-1B2F7=01B2F7;TETRAGRAM FOR CENTRE=01D306" \o
      ";MATHEMATICAL SANS-SERIF BOLD ITALIC SMALL Z=01D66F;SIGNWRITING HAND-HINGE INDEX HINGED=01D8DB" \o
      ";SIGNWRITING HEAD RIM=01DA00;SIGNWRITING TEETH ON LIPS MOVEMENT=01DA66" \o
      ";ADLAM SMALL LETTER FA=01E92C;CLAPPER BOARD=01F3AC;PURSE=01F45B" \o
      ";HEAVY SOUTH EAST POINTING VINE LEAF=01F65F;SCRIPT LIGATURE ET ORNAMENT=01F670;SPOON=01F944",
    ";NKO LETTER WA=0007E5;SAMARITAN VOWEL SIGN LONG AA=00081F;TIBETAN MARK NYIS TSHEG SHAD=000F10" \o
      ";ETHIOPIC SYLLABLE TO=001276;ETHIOPIC SYLLABLE NU=001291;ETHIOPIC SYLLABLE ZI=0012DA" \o
      ";CANADIAN SYLLABICS SAYISI HA=0015C3;KHMER INDEPENDENT VOWEL LYY=0017AE" \o
      ";MONGOLIAN LETTER SHA=001831;MONGOLIAN LETTER MANCHU ALI GALI DHA=0018A1" \o
      ";BALINESE LETTER ARCHAIC JNYA=001B4C;LATIN SMALL LETTER EZH WITH RETROFLEX HOOK=001D9A" \o
      ";GREEK CAPITAL LETTER ALPHA WITH PSILI AND PERISPOMENI AND PROSGEGRAMMENI=001F8E" \o
      ";ROMAN NUMERAL ELEVEN=00216A;HOURGLASS WITH FLOWING SAND=0023F3" \o
      ";CIRCLED LATIN SMALL LETTER Y=0024E8;RIGHT HALF BLACK STAR=002BE9;TIFINAGH LETTER YATH=002D5D" \o
      ";HANGUL LETTER RIEUL-PHIEUPH=00313F;PARENTHESIZED IDEOGRAPH TEN=003229" \o
      ";LATIN LETTER SMALL CAPITAL Q=00A7AF;SAURASHTRA LETTER AA=00A883;VARIATION SELECTOR-5=00FE04" \o
      ";HALFWIDTH KATAKANA LETTER HA=00FF8A;NABATAEAN NUMBER ONE HUNDRED=0108AF" \o
      ";KHAROSHTHI LETTER JA=010A17;OLD SOUTH ARABIAN NUMERIC INDICATOR=010A7F" \o
      ";GRANTHA VOWEL SIGN VOCALIC L=011362;NEWA LETTER U=011404" \o
      ";SIDDHAM SECTION MARK WITH TRIPLE CRESCENTS=0115D2;CUNEIFORM SIGN URU TIMES U PLUS GUD=01234C" \o
      ";MEDEFAIDRIN CAPITAL LETTER J=016E4E;NUSHU CHARACTER-1B19F=01B19F;NUSHU CHARACTER-1B1F9=01B1F9" \o
      ";NUSHU CHARACTER-1B28F=01B28F;NUSHU CHARACTER-1B29E=01B29E;NUSHU CHARACTER-1B2E9=01B2E9" \o
      ";NUSHU CHARACTER-1B2F8=01B2F8;ZNAMENNY NEUME SKAMEYTSA MRACHNAYA=01CF71" \o
      ";MUSICAL SYMBOL TRIANGLE-ROUND NOTEHEAD DOWN WHITE=01D154" \o
      ";SIGNWRITING HAND-FIST INDEX RAISED KNUCKLE=01D809" \o
      ";SIGNWRITING MOVEMENT-WALLPLANE DOUBLE WRIST FLEX=01D930;ADLAM SMALL LETTER GA=01E93A" \o
      ";FLOWER PLAYING CARDS=01F3B4;DIZZY SYMBOL=01F4AB;CLOCK FACE TWO OCLOCK=01F551" \o
      ";CIRCLED CROSS FORMEE WITH FOUR DOTS=01F900",
    ";COMMERCIAL AT=000040;LATIN LETTER SMALL CAPITAL R=000280;ARMENIAN CAPITAL LETTER CHEH=000543" \o
      ";ARABIC SMALL LOW MEEM=0006ED;SYRIAC LETTER TETH GARSHUNI=00071C;THAI CHARACTER NO NEN=000E13" \o
      ";GEORGIAN LETTER ZHAR=0010DF;HANGUL JONGSEONG MIEUM-SIOS=0011DD;MONGOLIAN DIGIT FOUR=001814" \o
      ";COMBINING PARENTHESES BELOW=001ABD;BALINESE MUSICAL SYMBOL DANG SURANG=001B65" \o
      ";ACTIVATE ARABIC FORM SHAPING=00206D;TOTAL RUNOUT=002330;APL FUNCTIONAL SYMBOL I-BEAM=002336" \o
      ";CIRCLED LATIN SMALL LETTER Z=0024E9;LEFT ONE EIGHTH BLOCK=00258F" \o
      ";QUADRANT UPPER LEFT AND LOWER RIGHT=00259A;QUADRANT UPPER RIGHT AND LOWER LEFT=00259E" \o
      ";HEAVY SINGLE TURNED COMMA QUOTATION MARK ORNAMENT=00275B;BLACK LOZENGE=0029EB" \o
      ";VAI SYLLABLE NDOLE FA=00A610;COMBINING CYRILLIC LETTER HARD SIGN=00A678" \o
      ";SAURASHTRA LETTER BA=00A8A8;SAURASHTRA DIGIT ONE=00A8D1;JAVANESE LETTER JA MAHAPRANA=00A999" \o
      ";HANGUL JONGSEONG SIOS-MIEUM=00D7EA;VARIATION SELECTOR-6=00FE05;KHAROSHTHI LETTER KA=010A10" \o
      ";CUNEIFORM SIGN SAG TIMES DUB=012298;CUNEIFORM SIGN TUM TIMES THREE DISH=01253B" \o
      ";BAMUM LETTER PHASE-D MGBOFUM=016916;BAMUM LETTER PHASE-E SHEUAEQ=0169A4" \o
      ";BAMUM LETTER PHASE-F NGKWAEN=016A27;MEDEFAIDRIN CAPITAL LETTER K=016E4C" \o
      ";MIAO SIGN ASPIRATION=016F51;NUSHU CHARACTER-1B29F=01B29F;NUSHU CHARACTER-1B2F9=01B2F9" \o
      ";BYZANTINE MUSICAL SYMBOL KATAVASMA=01D07A;MATHEMATICAL BOLD SMALL IOTA=01D6CA" \o
      ";SIGNWRITING HAND-FIST THUMB SIDE CONJOINED=01D8F8" \o
      ";SIGNWRITING MOVEMENT-FLOORPLANE SHAKING PARALLEL=01D9E2;ADLAM SMALL LETTER HA=01E938" \o
      ";CIRCLED ANTICLOCKWISE ARROW=01F10E;EUROPEAN POST OFFICE=01F3E4;BLACK PENNANT=01F3F2" \o
      ";UNAMUSED FACE=01F612;FACE WITH PEEKING EYE=01FAE3" \o
      ";LOWER LEFT BLOCK DIAGONAL UPPER LEFT TO UPPER MIDDLE RIGHT=01FB4D" \o
      ";UPPER LEFT BLOCK DIAGONAL LOWER MIDDLE LEFT TO UPPER RIGHT=01FB5A" \o
      ";UPPER LEFT BLOCK DIAGONAL LOWER LEFT TO UPPER MIDDLE RIGHT=01FB60;TAG PLUS SIGN=0E002B",
    ";COMBINING GRAVE ACCENT BELOW=000316;NKO LETTER YA=0007E6;BENGALI VOWEL SIGN AA=0009BE" \o
      ";TELUGU VOWEL SIGN OO=000C4B;LAO LETTER WO=000EA7;TIBETAN VOWEL SIGN VOCALIC L=000F78" \o
      ";ETHIOPIC SYLLABLE VO=00126E;ETHIOPIC SYLLABLE PU=001351" \o
      ";CANADIAN SYLLABICS WOODS-CREE THWII=001679;BALINESE MUSICAL SYMBOL LEFT-HAND OPEN PANG=001B78" \o
      ";COMBINING RIGHT ARROWHEAD AND DOWN ARROWHEAD BELOW=001DFF;TOP LEFT CROP=00230F" \o
      ";BOX DRAWINGS HEAVY QUADRUPLE DASH VERTICAL=00250B" \o
      ";LEFT SQUARE BRACKET WITH TICK IN TOP CORNER=00298D;CJK STROKE HZ=0031D5;CJK STROKE TN=0031DD" \o
      ";IDEOGRAPHIC TELEGRAPH SYMBOL FOR HOUR FOUR=00335C;LISU LETTER E=00A4F0;BAMUM NJAEMLI=00A6F2" \o
      ";LATIN LETTER SMALL CAPITAL S=00A731;SAURASHTRA LETTER CA=00A897" \o
      ";ARABIC LIGATURE YEH WITH HAMZA ABOVE WITH YU ISOLATED FORM=00FBF4" \o
      ";ARABIC LIGATURE RADI ALLAAHU ANHUMAA=00FD44;VARIATION SELECTOR-7=00FE06" \o
      ";KHAROSHTHI LETTER LA=010A2B;KHOJKI SIGN ANUSVARA=011234;BHAIKSUKI LETTER SSA=011C2C" \o
      ";MASARAM GONDI RA-KARA=011D47;CUNEIFORM SIGN DUGUD=012082;CUNEIFORM SIGN SHITA=0122D6" \o
      ";CUNEIFORM SIGN KA TIMES GISH=012380;CUNEIFORM SIGN GA2 TIMES KUSHU2 PLUS KASKAL=0124BF" \o
      ";BAMUM LETTER PHASE-C NSEUAEN=0168A5;BAMUM LETTER PHASE-C NGGUEET=0168D2" \o
      ";MEDEFAIDRIN CAPITAL LETTER L=016E54;DUPLOYAN AFFIX HIGH VERTICAL SECANT=01BC75" \o
      ";DUPLOYAN DOUBLE MARK=01BC9E" \o
      ";ZNAMENNY NEUME STRELA KRYUKOVAYA GROMOPOVODNAYA WITH SINGLE ZAPYATAYA=01CFB8" \o
      ";MATHEMATICAL ITALIC SMALL PI=01D70B;SIGNWRITING HAND-CIRCLE INDEX HINGE=01D80D" \o
      ";SIGNWRITING MOVEMENT-WALLPLANE HUMP LARGE=01D994" \o
      ";SIGNWRITING MOVEMENT-WALLPLANE LOOP LARGE=01D997;SNEEZING FACE=01F927",
    ";NKO DIGIT TWO=0007C2;SAMARITAN LETTER MIM=00080C;MYANMAR SIGN VISARGA=001038" \o
      ";HANGUL CHOSEONG SIOS=001109;HANGUL JONGSEONG NIEUN-SIOS=0011C7;ETHIOPIC SYLLABLE QU=001241" \o
      ";ETHIOPIC SYLLABLE WO=0012CE;MONGOLIAN LETTER MANCHU ALI GALI GHA=00189A" \o
      ";NEW TAI LUE DIGIT SIX=0019D6;SUNDANESE DIGIT FOUR=001BB4;LATIN LETTER SMALL CAPITAL T=001D1B" \o
      ";GREEK CAPITAL LETTER OMEGA WITH PSILI AND PERISPOMENI AND PROSGEGRAMMENI=001FAE" \o
      ";DOWNWARDS ARROW WITH DOUBLE STROKE=0021DF;CONTAINS AS NORMAL SUBGROUP=0022B3" \o
      ";SYMBOL FOR SHIFT OUT=00240E;PERMANENT PAPER SIGN=00267E;REVERSED FORKED PARAGRAPHOS=002E11" \o
      ";CJK STROKE SP=0031D3;CIRCLED NUMBER FORTY=0032B5;SAURASHTRA LETTER DA=00A8A3" \o
      ";LATIN SMALL LETTER R WITHOUT HANDLE=00AB47;ARABIC LETTER HEH GOAL ISOLATED FORM=00FBA6" \o
      ";ARABIC LIGATURE THEH WITH YEH ISOLATED FORM=00FC14;VARIATION SELECTOR-8=00FE07" \o
      ";FULLWIDTH CIRCUMFLEX ACCENT=00FF3E;HALFWIDTH KATAKANA LETTER KA=00FF76" \o
      ";KHAROSHTHI LETTER MA=010A28;BRAHMI VIRAMA=011046;BRAHMI NUMBER NINETY=011063" \o
      ";WARANG CITI SMALL LETTER ENN=0118D0;BHAIKSUKI LETTER NYA=011C17" \o
      ";CUNEIFORM SIGN AL TIMES GISH=012023;MRO LETTER TA=016A40;MRO DIGIT SIX=016A66" \o
      ";MEDEFAIDRIN CAPITAL LETTER M=016E40;HENTAIGANA LETTER U-1=01B00A;NUSHU CHARACTER-1B1AA=01B1AA" \o
      ";ZNAMENNY NEUME PALKA=01CF5C;MUSICAL SYMBOL NATURAL DOWN=01D12F" \o
      ";MUSICAL SYMBOL TORCULUS RESUPINUS=01D1DC;MATHEMATICAL BOLD ITALIC CAPITAL CHI=01D732" \o
      ";SIGNWRITING HAND-FIST INDEX THUMB SIDE INDEX HINGE=01D8E3;SIGNWRITING HAND-FIST THUMB=01D8F5" \o
      ";SIGNWRITING MOVEMENT-FLOORPLANE BOX LARGE=01D97A;SMIRKING FACE=01F60F",
    ";SYRIAC ZQAPHA DOTTED=000735;GURMUKHI LETTER GHHA=000A5A;LAO LETTER YO=000EA2" \o
      ";ETHIOPIC SYLLABLE RU=001229;ETHIOPIC SYLLABLE XO=001286;CANADIAN SYLLABICS SAYISI HE=0015C0" \o
      ";LATIN LETTER SMALL CAPITAL U=001D1C;VULGAR FRACTION FIVE SIXTHS=00215A" \o
      ";APL FUNCTIONAL SYMBOL DEL DIAERESIS=002362;BLACK MEDIUM LEFT-POINTING TRIANGLE=0023F4" \o
      ";PLUTO=002647;LIGHT LEFT TORTOISE SHELL BRACKET ORNAMENT=002772;CIRCLED HANGUL SIOS A=003274" \o
      ";ARABIC LIGATURE NOON WITH JEEM INITIAL FORM=00FCD2" \o
      ";ARABIC LIGATURE NOON WITH JEEM WITH MEEM FINAL FORM=00FD97;VARIATION SELECTOR-9=00FE08" \o
      ";HALFWIDTH KATAKANA LETTER HE=00FF8D;UGARITIC LETTER HOTA=010388" \o
      ";MODIFIER LETTER SMALL H WITH STROKE=010795;IMPERIAL ARAMAIC LETTER BETH=010841" \o
      ";KHAROSHTHI LETTER NA=010A23;OLD HUNGARIAN SMALL LETTER O=010CDB;SHARADA VOWEL SIGN AA=0111B3" \o
      ";TIRHUTA VOWEL SIGN U=0114B3;BHAIKSUKI LETTER TTA=011C18;CUNEIFORM SIGN EZEN TIMES U2=0120B3" \o
      ";CUNEIFORM SIGN HI TIMES DISH=012131;CUNEIFORM SIGN PIRIG=01228A;CUNEIFORM SIGN SHESH=0122C0" \o
      ";CUNEIFORM SIGN UMBIN=012322;MEDEFAIDRIN CAPITAL LETTER N=016E5B;HENTAIGANA LETTER U-2=01B00B" \o
      ";NUSHU CHARACTER-1B1AB=01B1AB;NUSHU CHARACTER-1B1BA=01B1BA;NUSHU CHARACTER-1B2AA=01B2AA" \o
      ";OTTOMAN SIYAQ NUMBER FOUR THOUSAND=01ED1F;PLAYING CARD TRUMP-10=01F0EA" \o
      ";TORTOISE SHELL BRACKETED CJK UNIFIED IDEOGRAPH-672C=01F240" \o
      ";TORTOISE SHELL BRACKETED CJK UNIFIED IDEOGRAPH-4E09=01F241" \o
      ";TORTOISE SHELL BRACKETED CJK UNIFIED IDEOGRAPH-70B9=01F244;WAXING CRESCENT MOON SYMBOL=01F312" \o
      ";JAPANESE OGRE=01F479;EXTREMELY HEAVY GREEK CROSS=01F7A7;NORTH WEST SANS-SERIF ARROW=01F854" \o
      ";UPPER LEFT BLOCK DIAGONAL UPPER MIDDLE LEFT TO UPPER RIGHT=01FB58",
    ";CYRILLIC SMALL LETTER U WITH MACRON=0004EF;ARABIC LETTER REH WITH SMALL V BELOW=000695" \o
      ";GURMUKHI DIGIT THREE=000A69;SINHALA VOWEL SIGN DIGA GAYANUKITTA=000DF3" \o
      ";HANGUL JONGSEONG RIEUL-SIOS=0011B3;HANGUL JONGSEONG SIOS-RIEUL=0011E9" \o
      ";ETHIOPIC SYLLABLE SU=001231;ETHIOPIC SYLLABLE YO=0012EE;MONGOLIAN DIGIT ZERO=001810" \o
      ";CANADIAN SYLLABICS OJIBWAY K=0018D6;TAI THAM VOWEL SIGN O=001A6B" \o
      ";COMBINING DOUBLED CIRCUMFLEX ACCENT=001AB0;LATIN LETTER SMALL CAPITAL V=001D20" \o
      ";MODIFIER LETTER SMALL I WITH STROKE=001DA4;GREEK PSILI AND VARIA=001FCD" \o
      ";VULGAR FRACTION ZERO THIRDS=002189;LEFTWARDS HARPOON OVER RIGHTWARDS HARPOON=0021CB" \o
      ";RIGHTWARDS HARPOON OVER LEFTWARDS HARPOON=0021CC;CONICAL TAPER=002332" \o
      ";N-ARY TIMES OPERATOR=002A09;UPWARDS TWO-HEADED ARROW WITH TRIANGLE ARROWHEADS=002BED" \o
      ";HYPODIASTOLE=002E12;TOP LEFT HALF BRACKET=002E22;WIGGLY VERTICAL LINE=002E3E" \o
      ";ARABIC LIGATURE SEEN WITH YEH ISOLATED FORM=00FCFC;HALFWIDTH KATAKANA LETTER MA=00FF8F" \o
      ";AEGEAN NUMBER TWENTY=010111;ROMAN CENTURIAL SIGN=01019B;OLD ITALIC LETTER CHE=01031C" \o
      ";IMPERIAL ARAMAIC LETTER KAPH=01084A;MONGOLIAN SWIRL BIRGA WITH DOUBLE ORNAMENT=01166B" \o
      ";SOYOMBO VOWEL SIGN O=011A55;PAU CIN HAU SANDHI TONE FINAL=011AEE" \o
      ";CUNEIFORM SIGN DIM TIMES SHE=012075;CUNEIFORM SIGN GA2 TIMES BUR PLUS RA=0120C2" \o
      ";CUNEIFORM SIGN DUG TIMES LAM=01249F;MEDEFAIDRIN CAPITAL LETTER O=016E5D" \o
      ";HENTAIGANA LETTER U-3=01B00C;NUSHU CHARACTER-1B1AC=01B1AC;NUSHU CHARACTER-1B1BB=01B1BB" \o
      ";NUSHU CHARACTER-1B1CA=01B1CA;NUSHU CHARACTER-1B2AB=01B2AB;NUSHU CHARACTER-1B2BA=01B2BA" \o
      ";BYZANTINE MUSICAL SYMBOL STAVROS APODEXIA=01D01F;MUSICAL SYMBOL LONGA=01D1B7" \o
      ";MATHEMATICAL ITALIC CAPITAL OMICRON=01D6F0;PLAYING CARD TRUMP-11=01F0EB" \o
      ";PLAYING CARD TRUMP-20=01F0F4;ROUNDED SYMBOL FOR SHUANGXI=01F264;FISHING POLE AND FISH=01F3A3" \o
      ";BLACK UP-POINTING ISOSCELES RIGHT TRIANGLE=01F781;TAG FULL STOP=0E002E",
    ";CYRILLIC CAPITAL LETTER EL WITH MIDDLE HOOK=000520;NKO LETTER OO=0007CF" \o
      ";ARABIC RIGHT ARROWHEAD BELOW=0008FA;KANNADA VOWEL SIGN EE=000CC7;KANNADA VOWEL SIGN AI=000CC8" \o
      ";HANGUL CHOSEONG SIOS-TIKEUT=00112F;HANGUL JONGSEONG IEUNG-SSANGKIYEOK=0011ED" \o
      ";ETHIOPIC SYLLABLE TU=001271;ETHIOPIC SYLLABLE ZO=0012DE;KHMER INDEPENDENT VOWEL RYY=0017AC" \o
      ";MONGOLIAN LETTER MANCHU ALI GALI JHA=00189D;LATIN LETTER SMALL CAPITAL W=001D21" \o
      ";DOTTED CIRCLE=0025CC;WHITE MEDIUM LOZENGE=002B28;TIFINAGH LETTER YAZH=002D4A" \o
      ";CJK RADICAL HEART TWO=002E97;CJK RADICAL C-SIMPLIFIED LEAF=002EDA;KANGXI RADICAL DO NOT=002F4F" \o
      ";HANGUL LETTER MIEUM-PANSIOS=003170;IDEOGRAPHIC TELEGRAPH SYMBOL FOR HOUR ZERO=003358" \o
      ";LISU LETTER I=00A4F2;VAI SYLLABLE NDOLE KA=00A611;SAURASHTRA LETTER GA=00A894" \o
      ";HANGUL CHOSEONG TIKEUT-SIOS=00A962;MYANMAR LETTER TAI LAING NYA=00A9E7" \o
      ";MEETEI MAYEK VOWEL SIGN INAP=00ABE4;COMBINING CYRILLIC TITLO RIGHT HALF=00FE2F" \o
      ";HALFWIDTH KATAKANA LETTER NA=00FF85;PHAISTOS DISC SIGN SMALL AXE=0101FB" \o
      ";KHAROSHTHI LETTER PA=010A24;BRAHMI VOWEL SIGN VOCALIC RR=01103F" \o
      ";SINHALA ARCHAIC NUMBER FIFTY=0111EE;GRANTHA VOWEL SIGN VOCALIC R=011343" \o
      ";COMBINING GRANTHA DIGIT FIVE=01136B;TAMIL SIGN MUTHALIYA=011FF0" \o
      ";CUNEIFORM SIGN EZEN TIMES HA=0120A9;CUNEIFORM SIGN SAG TIMES SAL=01229F" \o
      ";CUNEIFORM SIGN DUB TIMES SHE=012376;CUNEIFORM SIGN DUG TIMES DIN=012490" \o
      ";CUNEIFORM SIGN SAG TIMES SHE AT LEFT=01252F;MRO LETTER WA=016A57" \o
      ";MEDEFAIDRIN CAPITAL LETTER P=016E47;HENTAIGANA LETTER U-4=01B00D;NUSHU CHARACTER-1B1AD=01B1AD" \o
      ";NUSHU CHARACTER-1B1BC=01B1BC;NUSHU CHARACTER-1B1CB=01B1CB;NUSHU CHARACTER-1B1DA=01B1DA" \o
      ";NUSHU CHARACTER-1B2AC=01B2AC;NUSHU CHARACTER-1B2BB=01B2BB;NUSHU CHARACTER-1B2CA=01B2CA" \o
      ";ZNAMENNY NEUME OSOKA KLYUCHEVAYA SVETLAYA=01CFB3;ZNAMENNY NEUME NEMKA=01CFC2" \o
      ";BYZANTINE MUSICAL SYMBOL KENTIMATA=01D010;BYZANTINE MUSICAL SYMBOL KRATIMATA=01D032" \o
      ";BYZANTINE MUSICAL SYMBOL KENTIMATA NEO ANO=01D04E;PLAYING CARD TRUMP-12=01F0EC" \o
      ";PLAYING CARD TRUMP-21=01F0F5;NEUTRAL CHESS BISHOP=01FA03;NEUTRAL CHESS KNIGHT=01FA04" \o
      ";SALUTING FACE=01FAE1",
    ";NEGATIVE ACKNOWLEDGE=000015;COPTIC CAPITAL LETTER GANGIA=0003EA;TIBETAN SIGN MCHU CAN=000F89" \o
      ";HANGUL JONGSEONG PIEUP-SIOS=0011B9;HANGUL JONGSEONG SIOS-PIEUP=0011EA" \o
      ";CANADIAN SYLLABICS AA=00140B;CANADIAN SYLLABICS CARRIER Z=001646" \o
      ";CANADIAN SYLLABICS OJIBWAY M=0018D8;SUNDANESE DIGIT ZERO=001BB0" \o
      ";LATIN CAPITAL LETTER SHARP S=001E9E;DOUBLE-STRUCK ITALIC SMALL D=002146;INTERSECTION=002229" \o
      ";CYLINDRICITY=00232D;BOX DRAWINGS LIGHT VERTICAL AND HORIZONTAL=00253C" \o
      ";HEAVY CIRCLE WITH STROKE AND TWO DOTS ABOVE=0026E3" \o
      ";HEAVY LEFT-POINTING ANGLE QUOTATION MARK ORNAMENT=00276E" \o
      ";SUBSET OF OR EQUAL TO WITH DOT ABOVE=002AC3;KANGXI RADICAL BADGER=002F98" \o
      ";HANGUL LETTER YU-YEO=00318A;BOPOMOFO LETTER AINN=0031AE;CJK STROKE ST=0031D9" \o
      ";CYRILLIC CAPITAL LETTER BINOCULAR O=00A66A;PHAGS-PA SUBJOINED LETTER RA=00A871" \o
      ";SAURASHTRA LETTER HA=00A8B2;REJANG VIRAMA=00A953;LATIN SMALL LETTER SAKHA YAT=00AB60" \o
      ";ARABIC LIGATURE NOON WITH MEEM INITIAL FORM=00FCD5;HALFWIDTH KATAKANA LETTER KE=00FF79" \o
      ";OLD NORTH ARABIAN LETTER WAW=010A85;INSCRIPTIONAL PARTHIAN LETTER AYIN=010B4F" \o
      ";WARANG CITI SMALL LETTER SII=0118DE;CUNEIFORM SIGN TAG TIMES GUD=0122F5" \o
      ";CUNEIFORM SIGN TAG TIMES SHE=0122F6;CUNEIFORM SIGN DUG TIMES ASH=01248E" \o
      ";CUNEIFORM SIGN DUG TIMES ASH AT LEFT=01248F;BASSA VAH LETTER DHII=016AD7" \o
      ";MEDEFAIDRIN CAPITAL LETTER Q=016E55;HENTAIGANA LETTER U-5=01B00E;NUSHU CHARACTER-1B1AE=01B1AE" \o
      ";NUSHU CHARACTER-1B1BD=01B1BD;NUSHU CHARACTER-1B1CC=01B1CC;NUSHU CHARACTER-1B1DB=01B1DB" \o
      ";NUSHU CHARACTER-1B1EA=01B1EA;NUSHU CHARACTER-1B2AD=01B2AD;NUSHU CHARACTER-1B2BC=01B2BC" \o
      ";NUSHU CHARACTER-1B2CB=01B2CB;NUSHU CHARACTER-1B2DA=01B2DA" \o
      ";BYZANTINE MUSICAL SYMBOL KRATIMOYPORROON=01D054;TETRAGRAM FOR EMBELLISHMENT=01D342" \o
      ";MATHEMATICAL SANS-SERIF DIGIT SEVEN=01D7E9" \o
      ";SIGNWRITING MOVEMENT-WALLPLANE SINGLE WRIST FLEX=01D92E" \o
      ";SIGNWRITING MOVEMENT-WALLPLANE BOX MEDIUM=01D943;TOTO LETTER A=01E2AD" \o
      ";PLAYING CARD TRUMP-13=01F0ED;BLACK DROPLET=01F322;CLOUD WITH LIGHTNING=01F329" \o
      ";CONFETTI BALL=01F38A;GRINNING FACE WITH STAR EYES=01F929;LOTUS=01FAB7;TAG AMPERSAND=0E0026",
    ";START OF GUARDED AREA=000096;LATIN LETTER SMALL CAPITAL Y=00028F" \o
      ";CYRILLIC CAPITAL LETTER EN WITH MIDDLE HOOK=000522;ARMENIAN CAPITAL LETTER JHEH=00054B" \o
      ";ARABIC LETTER NOON WITH RING=0006BC;ARABIC SMALL LOW SEEN=0006E3;GURMUKHI LETTER KHHA=000A59" \o
      ";GUJARATI LETTER TTHA=000AA0;MALAYALAM FRACTION ONE FIFTH=000D5E" \o
      ";TIBETAN VOWEL SIGN VOCALIC R=000F76;GEORGIAN CAPITAL LETTER GHAN=0010B6" \o
      ";GEORGIAN CAPITAL LETTER CHAR=0010BD;ETHIOPIC SYLLABLE VU=001269" \o
      ";CANADIAN SYLLABICS SAYISI HI=0015C1;MONGOLIAN LETTER MANCHU ALI GALI LHA=0018AA" \o
      ";CANADIAN SYLLABICS OJIBWAY N=0018D9;GREEK CAPITAL LETTER ETA WITH DASIA AND OXIA=001F2D" \o
      ";DOUBLE-STRUCK ITALIC SMALL E=002147;CIRCLED TIMES=002297" \o
      ";HEAVY DOUBLE COMMA QUOTATION MARK ORNAMENT=00275E" \o
      ";ARROW POINTING RIGHTWARDS THEN CURVING DOWNWARDS=002935" \o
      ";ARROW POINTING DOWNWARDS THEN CURVING RIGHTWARDS=002937" \o
      ";TRIPLE HORIZONTAL BAR WITH DOUBLE VERTICAL STROKE=002A68;SHORT UP TACK=002AE0" \o
      ";DOWNWARDS BLACK CIRCLED WHITE ARROW=002B8B;COPTIC CAPITAL LETTER CRYPTOGRAMMIC GANGIA=002CED" \o
      ";TIFINAGH LETTER YARR=002D55;HANGUL LETTER RIEUL-THIEUTH=00313E" \o
      ";HANGUL LETTER NIEUN-PANSIOS=003168;VAI SYLLABLE NDOLE MA=00A62A" \o
      ";CYRILLIC CAPITAL LETTER BLENDED YUS=00A65A;LATIN SMALL LETTER TURNED INSULAR G=00A77F" \o
      ";SAURASHTRA LETTER EE=00A88D;SAURASHTRA LETTER AI=00A88E;HALFWIDTH KATAKANA LETTER HI=00FF8B" \o
      ";PALMYRENE NUMBER ONE=010879;KHAROSHTHI LETTER RA=010A2A;OLD SOUTH ARABIAN LETTER SAT=010A6A" \o
      ";OLD SOUTH ARABIAN LETTER AYN=010A72;INSCRIPTIONAL PARTHIAN LETTER RESH=010B53" \o
      ";INSCRIPTIONAL PARTHIAN LETTER SHIN=010B54;BHAIKSUKI NUMBER SIX=011C5F" \o
      ";CUNEIFORM SIGN BULUG=012051;CUNEIFORM SIGN DAG KISIM5 TIMES U2 PLUS GIR2=01206C" \o
      ";CUNEIFORM NUMERIC SIGN SIX ASH TENU=01244E;MRO LETTER KO=016A59" \o
      ";MEDEFAIDRIN CAPITAL LETTER R=016E5C;NUSHU CHARACTER-1B1AF=01B1AF;NUSHU CHARACTER-1B1BE=01B1BE" \o
      ";NUSHU CHARACTER-1B1CD=01B1CD;NUSHU CHARACTER-1B1DC=01B1DC;NUSHU CHARACTER-1B1EB=01B1EB" \o
      ";NUSHU CHARACTER-1B1FA=01B1FA;NUSHU CHARACTER-1B2AE=01B2AE;NUSHU CHARACTER-1B2BD=01B2BD" \o
      ";NUSHU CHARACTER-1B2CC=01B2CC;NUSHU CHARACTER-1B2DB=01B2DB;NUSHU CHARACTER-1B2EA=01B2EA" \o
      ";BYZANTINE MUSICAL SYMBOL DIESIS TRIGRAMMOS OKTO DODEKATA=01D0D3;MUSICAL SYMBOL BREVE=01D15C" \o
      ";MATHEMATICAL BOLD SMALL ZETA=01D6C7;MATHEMATICAL ITALIC CAPITAL EPSILON=01D6E6" \o
      ";MATHEMATICAL BOLD DIGIT FOUR=01D7D2;SIGNWRITING HAND-HINGE INDEX MIDDLE RING CONJOINED=01D88D" \o
      ";SIGNWRITING MOVEMENT-FLOORPLANE HUMP HITTING FLOOR LARGE DOUBLE=01D9C9" \o
      ";SIGNWRITING MOVEMENT-FLOORPLANE LOOP HITTING FLOOR LARGE DOUBLE=01D9CF" \o
      ";COMBINING GLAGOLITIC LETTER BIG YUS=01E028;PLAYING CARD TRUMP-14=01F0EE" \o
      ";NEUTRAL CHESS QUEEN ROTATED NINETY DEGREES=01FA16",
    ";SAMARITAN PUNCTUATION ANGED=000832;KANNADA LETTER NAKAARA POLLU=000CDD" \o
      ";TIBETAN SIGN SNA LDAN=000F83;ETHIOPIC SYLLABLE WU=0012C9;CANADIAN SYLLABICS CA=001490" \o
      ";CANADIAN SYLLABICS NUNAVIK H=00157B;RUNIC LETTER OTHALAN ETHEL O=0016DF" \o
      ";MONGOLIAN LETTER MANCHU ALI GALI NGA=00189B;NEW TAI LUE DIGIT TWO=0019D2" \o
      ";LATIN SMALL LETTER TURNED AE=001D02;LATIN LETTER SMALL CAPITAL Z=001D22" \o
      ";MODIFIER LETTER SMALL OPEN O=001D53" \o
      ";GREEK CAPITAL LETTER ALPHA WITH DASIA AND VARIA AND PROSGEGRAMMENI=001F8B;L B BAR SYMBOL=002114" \o
      ";DOWNWARDS ARROW WITH TIP LEFTWARDS=0021B2;RIGHT CEILING=002309;OPEN CENTRE ASTERISK=002732" \o
      ";LESS-THAN WITH CIRCLE INSIDE=002A79;LEFTWARDS ARROW WITH TIP DOWNWARDS=002B10" \o
      ";LATIN SMALL LETTER L WITH DOUBLE BAR=002C61;HEXAGRAM FOR MODESTY=004DCE;VAI FULL STOP=00A60E" \o
      ";LATIN SMALL LETTER GLOTTAL A=00A7BB;SAURASHTRA LETTER JA=00A899" \o
      ";ARABIC SYMBOL TWO DOTS ABOVE=00FBB4;ARABIC LIGATURE DAD WITH ALEF MAKSURA ISOLATED FORM=00FD07" \o
      ";COMBINING LIGATURE LEFT HALF=00FE20;HALFWIDTH KATAKANA LETTER ME=00FF92" \o
      ";GREEK ACROPHONIC ATTIC FIVE STATERS=01014F;PHAISTOS DISC SIGN BULLS LEG=0101EB" \o
      ";UGARITIC LETTER QOPA=010396;SHAVIAN LETTER ARRAY=01047C;KHAROSHTHI LETTER SA=010A2F" \o
      ";MANICHAEAN PUNCTUATION STAR=010AF0;SOGDIAN COMBINING HOOK ABOVE=010F4C" \o
      ";CUNEIFORM SIGN ASH ZIDA TENU=012039;CUNEIFORM SIGN KA TIMES GAR PLUS SHA3 PLUS A=012166" \o
      ";CUNEIFORM SIGN SHID TIMES IM=0122C5;CUNEIFORM SIGN DAG TIMES KUR=012489" \o
      ";BAMUM LETTER PHASE-D NGKEURI=016910;MRO LETTER OL=016A4D;MRO LETTER RI=016A5D" \o
      ";MRO DIGIT TWO=016A62;MEDEFAIDRIN CAPITAL LETTER S=016E41;NUSHU CHARACTER-1B1BF=01B1BF" \o
      ";NUSHU CHARACTER-1B1CE=01B1CE;NUSHU CHARACTER-1B1DD=01B1DD;NUSHU CHARACTER-1B1EC=01B1EC" \o
      ";NUSHU CHARACTER-1B1FB=01B1FB;NUSHU CHARACTER-1B2AF=01B2AF;NUSHU CHARACTER-1B2BE=01B2BE" \o
      ";NUSHU CHARACTER-1B2CD=01B2CD;NUSHU CHARACTER-1B2DC=01B2DC;NUSHU CHARACTER-1B2EB=01B2EB" \o
      ";NUSHU CHARACTER-1B2FA=01B2FA;ZNAMENNY COMBINING TONAL RANGE MARK SVETLO=01CF31" \o
      ";MATHEMATICAL BOLD ITALIC CAPITAL ETA=01D722;MATHEMATICAL BOLD ITALIC SMALL LAMDA=01D740" \o
      ";SIGNWRITING HAND-FIST MIDDLE THUMB HOOKED INDEX UP=01D830" \o
      ";SIGNWRITING HAND-FIST INDEX THUMB HOOKED MIDDLE UP=01D831" \o
      ";SIGNWRITING MOVEMENT-FLOORPLANE SINGLE STRAIGHT LARGEST=01D968;INDIC SIYAQ LAKH MARK=01ECA0" \o
      ";PLAYING CARD TRUMP-15=01F0EF;RECREATIONAL VEHICLE=01F699",
    ";CYRILLIC CAPITAL LETTER ROUND OMEGA=00047A;CYRILLIC CAPITAL LETTER PE WITH MIDDLE HOOK=0004A6" \o
      ";BENGALI VOWEL SIGN AI=0009C8;KANNADA SIGN AVAGRAHA=000CBD;THAI CHARACTER TO TAO=000E15" \o
      ";HANGUL JUNGSEONG WEO=00116F;ETHIOPIC SYLLABLE XU=001281;CANADIAN SYLLABICS SAYISI JI=00161A" \o
      ";CANADIAN SYLLABICS OJIBWAY P=0018D4;BALINESE LETTER AKARA TEDUNG=001B06" \o
      ";BALINESE MUSICAL SYMBOL LEFT-HAND OPEN PING=001B7C;UPWARDS DASHED ARROW=0021E1" \o
      ";PARTIAL DIFFERENTIAL=002202;LOWER BLADE SCISSORS=002703" \o
      ";DOUBLE LEFT ARC GREATER-THAN BRACKET=002995;TIFINAGH LETTER YASS=002D5A;TRIPLE DAGGER=002E4B" \o
      ";HANGZHOU NUMERAL ONE=003021;HANGUL LETTER RIEUL-PANSIOS=00316C" \o
      ";HANGUL LETTER PIEUP-THIEUTH=003177;CJK STROKE SW=0031C4;CJK STROKE PZ=0031DC" \o
      ";HEXAGRAM FOR YOUTHFUL FOLLY=004DC3;SAURASHTRA LETTER KA=00A892" \o
      ";JAVANESE LETTER SA MAHAPRANA=00A9B0;HANGUL JONGSEONG PIEUP-SIOS-TIKEUT=00D7E7" \o
      ";HALFWIDTH KATAKANA LETTER NE=00FF88;HALFWIDTH KATAKANA LETTER RA=00FF97" \o
      ";UGARITIC LETTER SHIN=01038C;IMPERIAL ARAMAIC LETTER HETH=010847" \o
      ";MEROITIC CURSIVE NUMBER SIX=0109C5;KHAROSHTHI LETTER TA=010A1F" \o
      ";INSCRIPTIONAL PARTHIAN LETTER YODH=010B49;OLD TURKIC LETTER YENISEI AB=010C0A" \o
      ";OLD TURKIC LETTER ORKHON AEB=010C0B;OLD HUNGARIAN SMALL LETTER U=010CEA" \o
      ";OLD UYGHUR COMBINING TWO DOTS ABOVE=010F84;MULTANI SECTION MARK=0112A9" \o
      ";SIDDHAM VOWEL SIGN AA=0115AF;CUNEIFORM SIGN DAG KISIM5 TIMES AMAR=012058" \o
      ";CUNEIFORM SIGN EZEN TIMES LA=0120AF;CUNEIFORM SIGN GU2 TIMES NUN=01211B" \o
      ";CUNEIFORM SIGN URUDA=01234F;PAHAWH HMONG CLAN SIGN XYOOJ=016B81" \o
      ";MEDEFAIDRIN CAPITAL LETTER T=016E48;OLD CHINESE HOOK MARK=016FE2;NUSHU CHARACTER-1B1CF=01B1CF" \o
      ";NUSHU CHARACTER-1B1DE=01B1DE;NUSHU CHARACTER-1B1ED=01B1ED;NUSHU CHARACTER-1B1FC=01B1FC" \o
      ";NUSHU CHARACTER-1B2BF=01B2BF;NUSHU CHARACTER-1B2CE=01B2CE;NUSHU CHARACTER-1B2DD=01B2DD" \o
      ";NUSHU CHARACTER-1B2EC=01B2EC;NUSHU CHARACTER-1B2FB=01B2FB" \o
      ";BYZANTINE MUSICAL SYMBOL APOSTROFOS DIPLI=01D012" \o
      ";BYZANTINE MUSICAL SYMBOL SIMANSIS THESEOS=01D0DE;MUSICAL SYMBOL PEDAL UP MARK=01D1AF" \o
      ";MUSICAL SYMBOL KIEVAN QUARTER NOTE STEM UP=01D1E5;MATHEMATICAL ITALIC SMALL XI=01D709" \o
      ";SIGNWRITING HAND-ANGLE LITTLE INDEX THUMB INDEX THUMB OUT=01D89E" \o
      ";SIGNWRITING TRAVEL-WALLPLANE ROTATION-FLOORPLANE DOUBLE=01D94F" \o
      ";SIGNWRITING TRAVEL-FLOORPLANE ROTATION-WALLPLANE DOUBLE=01D985" \o
      ";SIGNWRITING DYNAMIC GRADUAL=01D9FE;PLAYING CARD TRUMP-16=01F0F0;SQUARED TWO K=01F19D" \o
      ";SQUARED LATIN SMALL LETTER D=01F1A5;TORTOISE SHELL BRACKETED CJK UNIFIED IDEOGRAPH-5B89=01F243" \o
      ";TORTOISE SHELL BRACKETED CJK UNIFIED IDEOGRAPH-76D7=01F246;SEWING NEEDLE=01FAA1",
    ";LATIN SMALL LETTER A WITH RING ABOVE=0000E5;ARABIC LETTER HIGH HAMZA ALEF=000675" \o
      ";DEVANAGARI LETTER VOCALIC LL=000961;SINHALA LETTER MAHAAPRAANA TTAYANNA=000DA8" \o
      ";TIBETAN LETTER FIXED-FORM RA=000F6A;TIBETAN SIGN GRU CAN RGYINGS=000F8A" \o
      ";MYANMAR SIGN SECTION=00104B;GEORGIAN CAPITAL LETTER JHAN=0010BF;ETHIOPIC SYLLABLE YU=0012E9" \o
      ";LIMBU SIGN MUKPHRENG=001939;TAI THAM VOWEL SIGN U=001A69" \o
      ";GEORGIAN MTAVRULI CAPITAL LETTER HE=001CB1;EQUAL AND PARALLEL TO=0022D5" \o
      ";DENTISTRY SYMBOL LIGHT DOWN AND HORIZONTAL WITH TRIANGLE=0023C4" \o
      ";BLACK DOWN-POINTING DOUBLE TRIANGLE=0023EC;N-ARY SQUARE INTERSECTION OPERATOR=002A05" \o
      ";COPTIC CAPITAL LETTER DIALECT-P ALEF=002CB2;CJK RADICAL SMALL TWO=002E8D" \o
      ";HANGUL LETTER KIYEOK=003131;HEXAGRAM FOR THE JOYOUS LAKE=004DF9" \o
      ";PHAGS-PA LETTER ALTERNATE YA=00A86D;SAURASHTRA LETTER LA=00A8AD;JAVANESE PANGRANGKEP=00A9CF" \o
      ";ARABIC LETTER DAD MEDIAL FORM=00FEC0;HALFWIDTH KATAKANA LETTER KI=00FF77" \o
      ";HALFWIDTH KATAKANA LETTER SA=00FF7B;PHAISTOS DISC SIGN WAVY BAND=0101FC" \o
      ";MODIFIER LETTER SMALL O WITH STROKE=0107A2;INSCRIPTIONAL PARTHIAN LETTER TETH=010B48" \o
      ";INSCRIPTIONAL PARTHIAN NUMBER FOUR=010B5B;SOYOMBO VOWEL SIGN U=011A53" \o
      ";CUNEIFORM SIGN LU2 TIMES LA PLUS ASH=012209;CUNEIFORM SIGN UR2 TIMES U2 PLUS ASH=012332" \o
      ";CUNEIFORM SIGN DUG TIMES SHE=0124A7;MEDEFAIDRIN CAPITAL LETTER U=016E52" \o
      ";NUSHU CHARACTER-1B1DF=01B1DF;NUSHU CHARACTER-1B1EE=01B1EE;NUSHU CHARACTER-1B1FD=01B1FD" \o
      ";NUSHU CHARACTER-1B2CF=01B2CF;NUSHU CHARACTER-1B2DE=01B2DE;NUSHU CHARACTER-1B2ED=01B2ED" \o
      ";BYZANTINE MUSICAL SYMBOL IMIFTHORA=01D035;MUSICAL SYMBOL PIANO=01D18F" \o
      ";MATHEMATICAL ITALIC SMALL MU=01D707;SIGNWRITING AIR BLOWING OUT=01DA35;TOTO LETTER E=01E2A6" \o
      ";ADLAM SMALL LETTER RA=01E92A;PLAYING CARD TRUMP-17=01F0F1;HEAVY SIX POINTED BLACK STAR=01F7CC" \o
      ";LEFT AND RIGHT TRIANGULAR HALF BLOCK=01FB9B",
    ";MODIFIER LETTER LOW TONE BAR=0002E8" \o
      ";ARABIC LETTER REH WITH SMALL ARABIC LETTER TAH AND TWO DOTS=000771;SAMARITAN LETTER QUF=000812" \o
      ";THAI CHARACTER RO RUA=000E23;GEORGIAN CAPITAL LETTER CHIN=0010B9;HANGUL JUNGSEONG YEO=001167" \o
      ";ETHIOPIC SYLLABLE ZU=0012D9;CANADIAN SYLLABICS FA=001559;MONGOLIAN LETTER TSA=00183C" \o
      ";TAI THAM SIGN SATKAAN=001AAA;SUNDANESE LETTER LEU=001BBC" \o
      ";LATIN SMALL LETTER A WITH HOOK ABOVE=001EA3" \o
      ";GREEK CAPITAL LETTER OMEGA WITH DASIA AND VARIA AND PROSGEGRAMMENI=001FAB" \o
      ";DOUBLE-STRUCK ITALIC SMALL I=002148;DOES NOT CONTAIN AS NORMAL SUBGROUP=0022EB" \o
      ";DIAMETER SIGN=002300;BOX DRAWINGS HEAVY VERTICAL AND HORIZONTAL=00254B" \o
      ";WHITE LEFT LANE MERGE=0026D9;OUTLINED GREEK CROSS=002719" \o
      ";LEFTWARDS HARPOON WITH BARB DOWN ABOVE RIGHTWARDS HARPOON WITH BARB DOWN=002967" \o
      ";RIGHTWARDS HARPOON WITH BARB DOWN ABOVE LEFTWARDS HARPOON WITH BARB DOWN=002969" \o
      ";GREATER-THAN CLOSED BY CURVE=002AA7;OVERLAPPING WHITE AND BLACK SQUARES=002BBB" \o
      ";TIFINAGH LETTER YATT=002D5F;TURNED DAGGER=002E38;LISU LETTER O=00A4F3" \o
      ";CYRILLIC CAPITAL LETTER CCHE=00A686;PHAGS-PA SUBJOINED LETTER WA=00A867" \o
      ";SAURASHTRA LETTER MA=00A8AA;MEETEI MAYEK VOWEL SIGN ONAP=00ABE3" \o
      ";HALFWIDTH KATAKANA LETTER TA=00FF80;UGARITIC LETTER ZETA=010387;PALMYRENE LETTER MEM=01086C" \o
      ";KHAROSHTHI LETTER VA=010A2C;OLD SOUTH ARABIAN LETTER TAW=010A69" \o
      ";OLD TURKIC LETTER YENISEI AD=010C12;OLD TURKIC LETTER ORKHON AED=010C13" \o
      ";SHARADA VOWEL SIGN AI=0111BD;WARANG CITI DIGIT ONE=0118E1;CUNEIFORM SIGN EZEN TIMES AN=0120A5" \o
      ";MRO LETTER OO=016A51;MEDEFAIDRIN CAPITAL LETTER V=016E42;NUSHU CHARACTER-1B1EF=01B1EF" \o
      ";NUSHU CHARACTER-1B1FE=01B1FE;NUSHU CHARACTER-1B2DF=01B2DF;NUSHU CHARACTER-1B2EE=01B2EE" \o
      ";DUPLOYAN LETTER J S WITH DOT=01BC2F;TETRAGRAM FOR DUTIES=01D320" \o
      ";MATHEMATICAL ITALIC SMALL NU=01D708;MATHEMATICAL BOLD DIGIT ZERO=01D7CE" \o
      ";OTTOMAN SIYAQ NUMBER EIGHTY=01ED11;PLAYING CARD TRUMP-18=01F0F2" \o
      ";NO ONE UNDER EIGHTEEN SYMBOL=01F51E;SOUTH WEST SANS-SERIF ARROW=01F857",
    ";CYRILLIC CAPITAL LETTER DCHE=00052C;SAMARITAN LETTER ZEN=000806;GURMUKHI SIGN VIRAMA=000A4D" \o
      ";HANGUL CHOSEONG SSANGKIYEOK=001101;HANGUL JONGSEONG SSANGIEUNG=0011EE" \o
      ";CANADIAN SYLLABICS SOUTH-SLAVEY KAH=001488;CANADIAN SYLLABICS CE=001489" \o
      ";CANADIAN SYLLABICS OJIBWAY S=0018DA;GEORGIAN MTAVRULI CAPITAL LETTER AN=001C90" \o
      ";GEORGIAN MTAVRULI CAPITAL LETTER FI=001CB6" \o
      ";GREEK SMALL LETTER UPSILON WITH DIALYTIKA AND OXIA=001FE3;DOUBLE-STRUCK ITALIC SMALL J=002149" \o
      ";WHITE DIAMOND=0025C7;LOWER RIGHT TRIANGLE=0025FF;BLACK CROSS ON SHIELD=0026E8" \o
      ";UPPER BLADE SCISSORS=002701;DINGBAT CIRCLED SANS-SERIF DIGIT ONE=002780" \o
      ";SPHERICAL ANGLE OPENING LEFT=0029A0;PERPENDICULAR WITH S=002AE1" \o
      ";LEFT ARROW WITH SMALL CIRCLE=002B30;LEFT VERTICAL BAR WITH QUILL=002E20;HANGUL FILLER=003164" \o
      ";CJK STROKE SZ=0031D7;PARENTHESIZED IDEOGRAPH SIX=003225;VAI SYLLABLE NDOLE DO=00A62B" \o
      ";SAURASHTRA LETTER NA=00A8A5;ARABIC LETTER TEH MARBUTA FINAL FORM=00FE94" \o
      ";HALFWIDTH KATAKANA LETTER MI=00FF90;OLD ITALIC LETTER KHE=010319" \o
      ";MODIFIER LETTER DENTAL CLICK=0107B6;PALMYRENE NUMBER TEN=01087E" \o
      ";OLD TURKIC LETTER YENISEI AE=010C02;MARCHEN SUBJOINED LETTER CHA=011C97" \o
      ";CUNEIFORM SIGN E OVER E NUN OVER NUN=01208C;CUNEIFORM SIGN MUSH3 TIMES A PLUS DI=01223B" \o
      ";CUNEIFORM SIGN ZA SQUARED TIMES KUR=01235F;BASSA VAH LETTER KPAH=016AD8" \o
      ";MEDEFAIDRIN CAPITAL LETTER W=016E43;NUSHU CHARACTER-1B1FF=01B1FF;NUSHU CHARACTER-1B2EF=01B2EF" \o
      ";MUSICAL SYMBOL VIRGA=01D1D3;MATHEMATICAL BOLD ITALIC SMALL GAMMA=01D738" \o
      ";SIGNWRITING MOVEMENT-FLOORPLANE HUMP HITTING FLOOR TRIPLE LARGE TRIPLE=01D9CB" \o
      ";ADLAM SMALL LETTER PE=01E928;PLAYING CARD TRUMP-19=01F0F3;ATHLETIC SHOE=01F45F" \o
      ";WHITE HARD SHELL FLOPPY DISK=01F5AB;SMILING FACE WITH OPEN MOUTH=01F603" \o
      ";HEAVY NORTH WEST POINTING VINE LEAF=01F65C;RINGED PLANET=01FA90",
    ";MODIFIER LETTER END LOW TONE=0002FC;COMBINING DOUBLE BREVE BELOW=00035C" \o
      ";BENGALI SIGN AVAGRAHA=0009BD;GURMUKHI DIGIT SEVEN=000A6D;GURMUKHI SIGN YAKASH=000A75" \o
      ";TELUGU VOWEL SIGN UU=000C42;KANNADA VOWEL SIGN II=000CC0;THAI CHARACTER SO SUA=000E2A" \o
      ";HANGUL CHOSEONG CHITUEUMSSANGCIEUC=00114F;HANGUL CHOSEONG YEORINHIEUH=001159" \o
      ";CANADIAN SYLLABICS SAYISI HO=0015C2;CANADIAN SYLLABICS WOODS-CREE THWOO=00167B" \o
      ";CANADIAN SYLLABICS OJIBWAY T=0018D5;CANADIAN SYLLABICS EASTERN W=0018DC" \o
      ";SUNDANESE LETTER NYA=001B91;VEDIC TONE RING ABOVE=001CF8" \o
      ";LATIN SMALL LETTER R WITH FISHHOOK AND MIDDLE TILDE=001D73;DOUBLE QUESTION MARK=002047" \o
      ";PARENTHESIZED NUMBER ELEVEN=00247E;SQUARE WITH HORIZONTAL FILL=0025A4" \o
      ";BLACK DIAMOND CENTRED=002BC1;IDEOGRAPHIC DESCRIPTION CHARACTER LEFT TO MIDDLE AND RIGHT=002FF2" \o
      ";CYRILLIC CAPITAL LETTER TE WITH MIDDLE HOOK=00A68A;MODIFIER LETTER STRESS AND LOW TONE=00A721" \o
      ";PHAGS-PA SUBJOINED LETTER YA=00A868;HALFWIDTH KATAKANA LETTER NI=00FF86" \o
      ";HALFWIDTH KATAKANA LETTER HO=00FF8E;HALFWIDTH KATAKANA LETTER RE=00FF9A" \o
      ";GOTHIC LETTER AIHVUS=010334;OLD NORTH ARABIAN LETTER ES-1=010A8A" \o
      ";INSCRIPTIONAL PARTHIAN LETTER QOPH=010B52;WARANG CITI SMALL LETTER ENY=0118CD" \o
      ";BHAIKSUKI NUMBER TWO=011C5B;MARCHEN VOWEL SIGN AA=011CB0" \o
      ";TAMIL FRACTION THREE SIXTY-FOURTHS=011FC7;CUNEIFORM SIGN LU2 TIMES SHU=01238B" \o
      ";CUNEIFORM NUMERIC SIGN TWO ASH TENU=01244A;MEDEFAIDRIN CAPITAL LETTER X=016E58" \o
      ";BYZANTINE MUSICAL SYMBOL ENDOFONON=01D07B;MUSICAL SYMBOL QUARTER NOTE=01D15F" \o
      ";SIGNWRITING MOVEMENT-WALLPLANE CURVE HALF-CIRCLE LARGEST=01D98F" \o
      ";SIGNWRITING TEETH ON TONGUE=01DA63;NYIAKENG PUACHUE HMONG SYLLABLE LENGTHENER=01E13D" \o
      ";SUPERVILLAIN=01F9B9",
    ";LATIN SMALL LETTER L WITH MIDDLE DOT=000140;MODIFIER LETTER ACUTE ACCENT=0002CA" \o
      ";MODIFIER LETTER UNASPIRATED=0002ED;ARABIC LETTER KEHEH WITH TWO DOTS VERTICALLY BELOW=00088D" \o
      ";TIBETAN SIGN GRU MED RGYINGS=000F8B;CANADIAN SYLLABICS AI=00141C;MONGOLIAN LETTER ZHI=001841" \o
      ";BALINESE MUSICAL SYMBOL RIGHT-HAND OPEN DUG=001B74" \o
      ";GREEK SMALL LETTER ALPHA WITH DASIA AND OXIA=001F05" \o
      ";GREEK SMALL LETTER IOTA WITH PSILI AND PERISPOMENI=001F36" \o
      ";GREEK SMALL LETTER ETA WITH PERISPOMENI AND YPOGEGRAMMENI=001FC7;STRAIGHTNESS=0023E4" \o
      ";BLACK RIGHT-POINTING SMALL TRIANGLE=0025B8;SKULL AND CROSSBONES=002620" \o
      ";HEAVY SINGLE COMMA QUOTATION MARK ORNAMENT=00275C;LONG LEFT RIGHT DOUBLE ARROW=0027FA" \o
      ";RIGHT-POINTING CURVED ANGLE BRACKET=0029FD;CJK RADICAL C-SIMPLIFIED GATE=002ED4" \o
      ";CJK RADICAL C-SIMPLIFIED BIRD=002EE6;HANGZHOU NUMERAL TEN=003038" \o
      ";PARENTHESIZED HANGUL CIEUC A=003216;PARENTHESIZED IDEOGRAPH SUN=003230" \o
      ";IDEOGRAPHIC TELEGRAPH SYMBOL FOR SEPTEMBER=0032C8;SAURASHTRA LETTER PA=00A8A6" \o
      ";JAVANESE TURNED PADA PISELEH=00A9CD;HANGUL JONGSEONG RIEUL-SSANGKIYEOK=00D7D5" \o
      ";ARABIC LIGATURE BEH WITH ALEF MAKSURA ISOLATED FORM=00FC09;HALFWIDTH KATAKANA LETTER SE=00FF7E" \o
      ";HALFWIDTH KATAKANA LETTER WA=00FF9C;HALFWIDTH HANGUL LETTER NIEUN-CIEUC=00FFA5" \o
      ";KHAROSHTHI LETTER YA=010A29;OLD SOUTH ARABIAN LETTER WAW=010A65" \o
      ";OLD NORTH ARABIAN LETTER ES-2=010A86;INSCRIPTIONAL PAHLAVI LETTER ZAYIN=010B66" \o
      ";OLD TURKIC LETTER YENISEI AG=010C0E;OLD TURKIC LETTER ORKHON AEG=010C0F" \o
      ";OLD TURKIC LETTER YENISEI EC=010C33;ELYMAIC LETTER ZAYIN=010FE6;TIRHUTA SIGN VISARGA=0114C1" \o
      ";WARANG CITI SMALL LETTER TTE=0118D2;NANDINAGARI LETTER VOCALIC R=0119A6" \o
      ";CUNEIFORM SIGN AB2 TIMES SHA3=01201A;CUNEIFORM SIGN KAD5 OVER KAD5=012194" \o
      ";BAMUM LETTER PHASE-C TITUAEP=0168C6;MRO LETTER RO=016A53;MEDEFAIDRIN CAPITAL LETTER Y=016E5F" \o
      ";MUSICAL SYMBOL END OF STIMME=01D1A8;TETRAGRAM FOR RITUAL=01D335" \o
      ";SIGNWRITING HAND-FLAT SPLIT CENTRE THUMB SIDE BENT=01D864" \o
      ";SIGNWRITING MOVEMENT-FLOORPLANE LOOP HITTING FLOOR LARGE SINGLE=01D9CD" \o
      ";SIGNWRITING DYNAMIC RELAXED=01D9FA" \o
      ";SIGNWRITING FACE DIRECTION POSITION NOSE FORWARD TILTING=01DA07;TOTO LETTER I=01E2A1" \o
      ";ADLAM SMALL LETTER VA=01E93E;SNOW CAPPED MOUNTAIN=01F3D4;LEFT HAND TELEPHONE RECEIVER=01F57B" \o
      ";SOLID QUILT SQUARE ORNAMENT=01F66A",
    ";CHARACTER TABULATION=000009;ARABIC SMALL HIGH WORD AR-RUB=0008D4;THAI CHARACTER YO YAK=000E22" \o
      ";MYANMAR VOWEL SIGN VOCALIC L=001058;GEORGIAN CAPITAL LETTER KHAR=0010B5" \o
      ";HANGUL JONGSEONG RIEUL-YEORINHIEUH=0011D9;CANADIAN SYLLABICS FE=001553" \o
      ";MONGOLIAN LETTER MANCHU ALI GALI CYA=0018A3;TAI THAM CONSONANT SIGN HIGH RATHA OR LOW PA=001A5B" \o
      ";LATIN SMALL LETTER B WITH LINE BELOW=001E07;LATIN SMALL LETTER E WITH HOOK ABOVE=001EBB" \o
      ";NOT LESS-THAN=00226E;BOTTOM CURLY BRACKET=0023DF;BOX DRAWINGS UP LIGHT AND LEFT HEAVY=002519" \o
      ";BOX DRAWINGS UP HEAVY AND LEFT LIGHT=00251A;UPPER RIGHT TRIANGLE=0025F9;BLACK SNOWMAN=0026C7" \o
      ";MEASURED ANGLE WITH OPEN ARM ENDING IN ARROW POINTING UP AND RIGHT=0029A8" \o
      ";MEASURED ANGLE WITH OPEN ARM ENDING IN ARROW POINTING RIGHT AND UP=0029AC" \o
      ";COPTIC CAPITAL LETTER DIALECT-P KAPA=002CB8;COPTIC CAPITAL LETTER OLD COPTIC DJA=002CD8" \o
      ";KANGXI RADICAL BRANCH=002F40;VERTICAL KANA REPEAT WITH VOICED SOUND MARK=003032" \o
      ";LATIN SMALL LETTER SIGMOID S=00A7D9;NORTH INDIC PLACEHOLDER MARK=00A837" \o
      ";SAURASHTRA LETTER II=00A885;ARABIC LETTER GAF MEDIAL FORM=00FB95" \o
      ";ARABIC LIGATURE RADI ALLAAHU ANHUNNA=00FD45;FULLWIDTH DIGIT FOUR=00FF14" \o
      ";HALFWIDTH KATAKANA LETTER TE=00FF83;OLD PERMIC LETTER GAI=010352" \o
      ";MEROITIC CURSIVE NUMBER TWO=0109C1;KHAROSHTHI LETTER ZA=010A30;KHAROSHTHI DIGIT TWO=010A41" \o
      ";OLD NORTH ARABIAN LETTER ES-3=010A8F;SOGDIAN LETTER ZAYIN=010F35;BRAHMI NUMBER THIRTY=01105D" \o
      ";SHARADA SIGN AVAGRAHA=0111C1;CUNEIFORM SIGN LU2 SHESHIG TIMES BAD=012389" \o
      ";CUNEIFORM SIGN DUG TIMES MES=0124A3;PAHAWH HMONG SIGN HLI=016B65" \o
      ";MEDEFAIDRIN CAPITAL LETTER Z=016E45;MUSICAL SYMBOL SEGNO=01D10B" \o
      ";MATHEMATICAL SANS-SERIF BOLD SMALL A=01D5EE;MATHEMATICAL BOLD ITALIC CAPITAL PHI=01D731" \o
      ";MATHEMATICAL BOLD ITALIC SMALL ALPHA=01D736" \o
      ";SIGNWRITING HAND-FIST MIDDLE THUMB CUPPED INDEX UP=01D836" \o
      ";SIGNWRITING HAND-FIST INDEX THUMB CUPPED MIDDLE UP=01D837" \o
      ";SIGNWRITING MOVEMENT-WALLPLANE HUMP SMALL=01D992" \o
      ";SIGNWRITING MOVEMENT-WALLPLANE LOOP SMALL=01D995;CROSSED FLAGS=01F38C;BOOKMARK TABS=01F4D1" \o
      ";PERSON BOWING DEEPLY=01F647;NO ENTRY SIGN=01F6AB;POTABLE WATER SYMBOL=01F6B0",
    ";LATIN SMALL LETTER TONE FIVE=0001BD;SAMARITAN LETTER TIT=000808;SAMARITAN LETTER NUN=00080D" \o
      ";CANADIAN SYLLABICS KA=001472;CANADIAN SYLLABICS SOUTH-SLAVEY KEH=001485" \o
      ";CANADIAN SYLLABICS CI=00148B;MONGOLIAN LETTER ZRA=00183F;BALINESE MUSICAL SYMBOL DANG=001B64" \o
      ";GEORGIAN MTAVRULI CAPITAL LETTER EN=001C94" \o
      ";LATIN SMALL LETTER A WITH CIRCUMFLEX AND HOOK ABOVE=001EA9;NORTH WEST ARROW TO LONG BAR=0021B8" \o
      ";BLACK MEDIUM DOWN-POINTING TRIANGLE=0023F7;BALLOT BOX WITH CHECK=002611;ERIS FORM TWO=002BF1" \o
      ";TIFINAGH LETTER AHAGGAR YAZH=002D4B;PARENTHESIZED HANGUL KIYEOK=003200" \o
      ";LATIN SMALL LETTER GLOTTAL I=00A7BD;SAURASHTRA LETTER RA=00A8AC" \o
      ";ARABIC LIGATURE HAH WITH ALEF MAKSURA ISOLATED FORM=00FCFF;WAVY LOW LINE=00FE4F" \o
      ";ARABIC LETTER BEH MEDIAL FORM=00FE92;HALFWIDTH KATAKANA LETTER KO=00FF7A" \o
      ";HALFWIDTH KATAKANA LETTER YA=00FF94;AEGEAN NUMBER EIGHT THOUSAND=010129" \o
      ";GOTHIC LETTER NAUTHS=01033D;OSAGE SMALL LETTER AH=0104DB;OSAGE SMALL LETTER HA=0104E1" \o
      ";OLD SOUTH ARABIAN LETTER NUN=010A6C;OLD SOGDIAN LETTER HE=010F05" \o
      ";BAMUM LETTER PHASE-A NAA MFON=016804;BASSA VAH LETTER HWAH=016ADA;MUSICAL SYMBOL C CLEF=01D121" \o
      ";MAYAN NUMERAL TWELVE=01D2EC;COUNTING ROD TENS DIGIT FIVE=01D36D" \o
      ";COUNTING ROD TENS DIGIT NINE=01D371;MATHEMATICAL SANS-SERIF BOLD SMALL B=01D5EF" \o
      ";SIGNWRITING TRAVEL-WALLPLANE ROTATION-FLOORPLANE SINGLE=01D94E" \o
      ";SIGNWRITING MOVEMENT-FLOORPLANE BOX SMALL=01D978" \o
      ";SIGNWRITING TRAVEL-FLOORPLANE ROTATION-WALLPLANE SINGLE=01D984" \o
      ";TORTOISE SHELL BRACKETED CJK UNIFIED IDEOGRAPH-52DD=01F247;BANANA=01F34C" \o
      ";FACE WITH STUCK-OUT TONGUE AND TIGHTLY-CLOSED EYES=01F61D",
    ";VERTICAL LINE=00007C;MODIFIER LETTER GRAVE ACCENT=0002CB;COMBINING TURNED COMMA ABOVE=000312" \o
      ";ARABIC REVERSED DAMMA=00065D;BENGALI VOWEL SIGN II=0009C0;KANNADA VOWEL SIGN AU=000CCC" \o
      ";CANADIAN SYLLABICS LA=0014DA;BALINESE LETTER IKARA TEDUNG=001B08;SUNDANESE LETTER REU=001BBB" \o
      ";LATIN SMALL LETTER IOTA WITH STROKE=001D7C;LATIN SMALL LETTER D WITH LINE BELOW=001E0F" \o
      ";GREEK SMALL LETTER OMEGA WITH DASIA AND OXIA=001F65;CIRCLED MINUS=002296" \o
      ";WHITE LEFT-POINTING POINTER=0025C5;DOWN-POINTING TRIANGLE WITH LEFT HALF BLACK=0029E8" \o
      ";TRIPLE VERTICAL BAR BINARY RELATION=002AF4;GLAGOLITIC CAPITAL LETTER PE=002C1A" \o
      ";RAISED INTERPOLATION MARKER=002E06;CJK RADICAL GRASS TWO=002EBF;KANGXI RADICAL BAMBOO=002F75" \o
      ";SQUARE ERA NAME REIWA=0032FF;YI RADICAL CHE=00A4C3;LISU LETTER U=00A4F4" \o
      ";SAURASHTRA LETTER SA=00A8B1;MEETEI MAYEK VOWEL SIGN UNAP=00ABE8" \o
      ";HANGUL JONGSEONG SSANGMIEUM=00D7E0;ARABIC LIGATURE KAF WITH ALEF MAKSURA ISOLATED FORM=00FC3D" \o
      ";HALFWIDTH KATAKANA LETTER RI=00FF98;OLD ITALIC LETTER PHE=010318;OSAGE SMALL LETTER AI=0104D9" \o
      ";IMPERIAL ARAMAIC LETTER AYIN=01084F;SIDDHAM VOWEL SIGN AI=0115B9;DIVES AKURU MEDIAL RA=011942" \o
      ";CUNEIFORM SIGN EZEN TIMES LI=0120B1;CUNEIFORM SIGN DUG TIMES DUN=012491" \o
      ";DUPLOYAN AFFIX ATTACHED TAIL=01BC79;ZNAMENNY NEUME SLOZHITIE S KRYZHEM=01CF80" \o
      ";BYZANTINE MUSICAL SYMBOL AGOGI ARGI=01D09C;MATHEMATICAL SANS-SERIF BOLD SMALL C=01D5F0" \o
      ";MATHEMATICAL BOLD PHI SYMBOL=01D6DF;ADLAM SMALL LETTER YA=01E934;DESERT ISLAND=01F3DD" \o
      ";WATER BUFFALO=01F403;WIDE-HEADED LEFTWARDS VERY HEAVY BARB ARROW=01F880",
    ";RIGHT-FACING ARMENIAN ETERNITY SIGN=00058D;ARABIC INVERTED DAMMA=000657" \o
      ";TIBETAN SUBJOINED LETTER DDA=000F9C;CANADIAN SYLLABICS SAYISI TH=0014A2" \o
      ";CANADIAN SYLLABICS MA=0014AA;SUNDANESE LETTER SYA=001BAF" \o
      ";LEFT RIGHT DOUBLE ARROW WITH STROKE=0021CE;CJK RADICAL SNOUT ONE=002E94" \o
      ";HANGUL LETTER YESIEUNG-SIOS=003182;BOPOMOFO LETTER AUNN=0031AF" \o
      ";PARENTHESIZED IDEOGRAPH TWO=003221;LATIN SMALL LETTER AA=00A733" \o
      ";LATIN SMALL LETTER INSULAR D=00A77A;SAURASHTRA LETTER TA=00A8A1;SAURASHTRA DIGIT SIX=00A8D6" \o
      ";HEBREW LETTER WIDE HE=00FB23;ARABIC LIGATURE FEH WITH ALEF MAKSURA ISOLATED FORM=00FC31" \o
      ";ARABIC LETTER HAH MEDIAL FORM=00FEA4;HALFWIDTH KATAKANA LETTER SI=00FF7C" \o
      ";HALFWIDTH KATAKANA LETTER MO=00FF93;DESERET SMALL LETTER LONG OO=01042D" \o
      ";OSMANYA LETTER SHIIN=010489;IMPERIAL ARAMAIC LETTER RESH=010853" \o
      ";IMPERIAL ARAMAIC LETTER SHIN=010854;OLD TURKIC LETTER ORKHON AEK=010C1A" \o
      ";MODI SIGN ARDHACANDRA=011640;CUNEIFORM SIGN GA2 TIMES ASH2=01237A" \o
      ";CUNEIFORM SIGN KA TIMES SHUL=012385;ANATOLIAN HIEROGLYPH A410A END LOGOGRAM MARK=0145CF" \o
      ";BAMUM LETTER PHASE-A SEUNYAM=016811;BAMUM LETTER PHASE-B NDU NJAA=016865" \o
      ";BASSA VAH LETTER ENNI=016AD0;BYZANTINE MUSICAL SYMBOL FTHORA NAOS ICHOS=01D0BC" \o
      ";MATHEMATICAL FRAKTUR SMALL A=01D51E;MATHEMATICAL SANS-SERIF BOLD SMALL D=01D5F1" \o
      ";MATHEMATICAL BOLD ITALIC SMALL OMEGA=01D74E;CIRCLED DOLLAR SIGN WITH OVERLAID BACKSLASH=01F10F" \o
      ";BLACK ROSETTE=01F3F6;ELECTRIC PLUG=01F50C;LEFT HALF RUNNING MAN=01FBB2",
    ";RIGHT-POINTING DOUBLE ANGLE QUOTATION MARK=0000BB;MALAYALAM NUMBER ONE HUNDRED=000D71" \o
      ";HANGUL JONGSEONG SSANGNIEUN=0011FF;CANADIAN SYLLABICS AN=00142E;CANADIAN SYLLABICS NA=0014C7" \o
      ";CANADIAN SYLLABICS FI=001555;LATIN SMALL LETTER I WITH HOOK ABOVE=001EC9" \o
      ";DINGBAT NEGATIVE CIRCLED DIGIT EIGHT=00277D;PLUS SIGN IN LEFT HALF CIRCLE=002A2D" \o
      ";CJK RADICAL C-SIMPLIFIED GOLD=002ED0;BOPOMOFO LETTER INNN=0031B3" \o
      ";LATIN CAPITAL LETTER K WITH DIAGONAL STROKE=00A742;SAURASHTRA LETTER AU=00A891" \o
      ";MYANMAR SIGN TAI LAING TONE-2=00AA7C;ARABIC LETTER BEEH FINAL FORM=00FB53" \o
      ";ARABIC LIGATURE NOON WITH YEH ISOLATED FORM=00FC50;ARABIC LETTER KAF MEDIAL FORM=00FEDC" \o
      ";FULLWIDTH DIGIT ZERO=00FF10;HALFWIDTH KATAKANA LETTER TI=00FF81" \o
      ";HALFWIDTH KATAKANA LETTER NO=00FF89;HALFWIDTH KATAKANA LETTER HU=00FF8C" \o
      ";GOTHIC LETTER THIUTH=010338;OSAGE SMALL LETTER KA=0104E4;OLD TURKIC LETTER YENISEI AL=010C1F" \o
      ";OLD TURKIC LETTER ORKHON AEL=010C20;SHARADA VOWEL SIGN II=0111B5" \o
      ";CUNEIFORM SIGN AB2 TIMES TAK4=01201B;CUNEIFORM SIGN GUM TIMES SHE=012124" \o
      ";CUNEIFORM SIGN SAG TIMES LUM=01229C;MUSICAL SYMBOL F CLEF=01D122;MUSICAL SYMBOL FORTE=01D191" \o
      ";MATHEMATICAL FRAKTUR SMALL B=01D51F;MATHEMATICAL SANS-SERIF BOLD SMALL E=01D5F2" \o
      ";MATHEMATICAL BOLD ITALIC SMALL DELTA=01D739;COMBINING GLAGOLITIC LETTER GLAGOLI=01E003" \o
      ";NATIONAL PARK=01F3DE;BLACK PUSHPIN=01F588;SIDEWAYS BLACK RIGHT POINTING INDEX=01F59B" \o
      ";DOWNWARD FACING NOTCHED HOOK=01F909;MARTIAL ARTS UNIFORM=01F94B",
    ";ARABIC SIGN RADI ALLAHOU ANHU=000613;TIBETAN SUBJOINED LETTER BHA=000FA7" \o
      ";GEORGIAN CAPITAL LETTER PHAR=0010B4;CANADIAN SYLLABICS KE=00146B" \o
      ";CANADIAN SYLLABICS SOUTH-SLAVEY KIH=001486;BALINESE MUSICAL SYMBOL DENG=001B62" \o
      ";GEORGIAN MTAVRULI CAPITAL LETTER IN=001C98" \o
      ";LATIN SMALL LETTER E WITH CIRCUMFLEX AND HOOK ABOVE=001EC3;COMBINING LEFT HARPOON ABOVE=0020D0" \o
      ";NEGATED DOUBLE VERTICAL BAR DOUBLE RIGHT TURNSTILE=0022AF;CJK RADICAL WATER TWO=002EA2" \o
      ";CJK RADICAL MOUND TWO=002ED6;VERTICAL KANA REPEAT MARK LOWER HALF=003035" \o
      ";HANGUL LETTER TIKEUT=003137;LATIN SMALL LETTER INSULAR F=00A77C;SAURASHTRA LETTER VA=00A8AE" \o
      ";MEETEI MAYEK LETTER E=00AAE0;ARABIC LETTER DDAL FINAL FORM=00FB89" \o
      ";ARABIC SYMBOL TWO DOTS BELOW=00FBB5;ARABIC LIGATURE HEH WITH ALEF MAKSURA ISOLATED FORM=00FC53" \o
      ";ARABIC LETTER FEH MEDIAL FORM=00FED4;OLD ITALIC LETTER ESH=01030E;OLD ITALIC LETTER SHE=010311" \o
      ";GOTHIC LETTER NINETY=010341;OSAGE SMALL LETTER LA=0104E7;IMPERIAL ARAMAIC LETTER YODH=010849" \o
      ";MEROITIC HIEROGLYPHIC SYMBOL VIDJ-2=01099F;OLD HUNGARIAN CAPITAL LETTER CLOSE E=010C8A" \o
      ";SOGDIAN COMBINING HOOK BELOW=010F4D;GRANTHA VOWEL SIGN AA=01133E" \o
      ";MARCHEN SUBJOINED LETTER KHA=011C93;CUNEIFORM SIGN ASH OVER ASH OVER ASH=01203C" \o
      ";CUNEIFORM SIGN GAN2 OVER GAN2=0120F9;CUNEIFORM SIGN LAGAB SQUARED=0121EB" \o
      ";CUNEIFORM SIGN UR2 TIMES NUN=012330;CUNEIFORM SIGN NINDA2 TIMES U PLUS U=01252B" \o
      ";BAMUM LETTER PHASE-C MA NSIEE=0168D8;MUSICAL SYMBOL G CLEF=01D11E" \o
      ";MATHEMATICAL FRAKTUR SMALL C=01D520;MATHEMATICAL SANS-SERIF BOLD SMALL F=01D5F3" \o
      ";SIGNWRITING HAND-CUP=01D86D;SIGNWRITING MOVEMENT-WALLPLANE TRIPLE WRIST FLEX=01D935" \o
      ";TOTO LETTER O=01E2AA;CONSTRUCTION WORKER=01F477;HEAVY SOUTH WEST POINTING VINE LEAF=01F65D" \o
      ";SANS-SERIF HEAVY LOW DOUBLE COMMA QUOTATION MARK ORNAMENT=01F678;SHOPPING BAGS=01F6CD" \o
      ";LEFTWARDS FINGER-POST ARROW=01F834;RIGHTWARDS SANS-SERIF ARROW=01F852;BADGER=01F9A1" \o
      ";TAG SEMICOLON=0E003B",
    ";CANCEL=000018;BENGALI VOWEL SIGN AU=0009CC;TIBETAN SUBJOINED LETTER CHA=000F96" \o
      ";MYANMAR VOWEL SIGN VOCALIC R=001056;HANGUL JONGSEONG SSANGRIEUL=0011D0" \o
      ";ETHIOPIC SYLLABLE GLOTTAL AA=0012A3;CANADIAN SYLLABICS PA=001438;CANADIAN SYLLABICS LE=0014D3" \o
      ";CANADIAN SYLLABICS SAYISI JU=001615;MONGOLIAN LETTER MANCHU ALI GALI ZHA=0018A4" \o
      ";BALINESE VOWEL SIGN ULU SARI=001B37;BALINESE MUSICAL SYMBOL LEFT-HAND OPEN PUNG=001B79" \o
      ";LATIN SMALL LETTER INSULAR G=001D79;LATIN SMALL LETTER H WITH LINE BELOW=001E96" \o
      ";APL FUNCTIONAL SYMBOL IOTA UNDERBAR=002378;SYMBOL FOR SYNCHRONOUS IDLE=002416" \o
      ";OUTLINED LATIN CROSS=00271F;GLAGOLITIC CAPITAL LETTER LATINATE MYSLITE=002C2E" \o
      ";CJK RADICAL BRUSH TWO=002EBB;IDEOGRAPHIC DESCRIPTION CHARACTER OVERLAID=002FFB" \o
      ";LATIN CAPITAL LETTER SMALL CAPITAL I=00A7AE;SYLOTI NAGRI SIGN ALTERNATE HASANTA=00A82C" \o
      ";MEETEI MAYEK VOWEL SIGN NUNG=00ABEA" \o
      ";ARABIC LIGATURE JEEM WITH MEEM WITH ALEF MAKSURA FINAL FORM=00FDA7;DOUBLE WAVY OVERLINE=00FE4C" \o
      ";OLD ITALIC LETTER THE=010308;DESERET SMALL LETTER SHORT A=010430;OSAGE SMALL LETTER MA=0104E8" \o
      ";IMPERIAL ARAMAIC LETTER TETH=010848;OLD TURKIC LETTER ORKHON AEN=010C24" \o
      ";SOGDIAN COMBINING RESH BELOW=010F4F;OLD UYGHUR LETTER FINAL HETH=010F75" \o
      ";OLD UYGHUR COMBINING TWO DOTS BELOW=010F85;CHAKMA AU MARK=011132;MODI LETTER VOCALIC L=011608" \o
      ";SOYOMBO SIGN VISARGA=011A97;CUNEIFORM SIGN EZEN TIMES UD=0120B4" \o
      ";CUNEIFORM SIGN GA2 TIMES HUB2=0120D5;CUNEIFORM SIGN SAG TIMES USH=0122A6" \o
      ";CUNEIFORM SIGN KA TIMES U U U=0124D2;BAMUM LETTER PHASE-A NTOQPEN=016812;MRO LETTER YO=016A42" \o
      ";DUPLOYAN LETTER J M S=01BC2D;BYZANTINE MUSICAL SYMBOL APODERMA ARCHAION=01D022" \o
      ";MUSICAL SYMBOL QUARTER REST=01D13D;MATHEMATICAL FRAKTUR SMALL D=01D521" \o
      ";MATHEMATICAL SANS-SERIF BOLD SMALL G=01D5F4" \o
      ";SIGNWRITING MOVEMENT-WALLPLANE CURVE THREE-QUARTER CIRCLE SMALL=01D990" \o
      ";SIGNWRITING MOVEMENT-FLOORPLANE HUMP HITTING FLOOR SMALL DOUBLE=01D9C8" \o
      ";SIGNWRITING MOVEMENT-FLOORPLANE LOOP HITTING FLOOR SMALL DOUBLE=01D9CE" \o
      ";SIGNWRITING MOUTH OPEN OVAL=01DA47;MENDE KIKAKUI SYLLABLE M086 LONG NGGE=01E880" \o
      ";TORTOISE SHELL BRACKETED CJK UNIFIED IDEOGRAPH-4E8C=01F242;UP-POINTING AIRPLANE=01F6E7" \o
      ";LOWER RIGHT TRIANGULAR MEDIUM SHADE=01FB9E",
    ";LATIN SMALL LETTER AE=0000E6;CYRILLIC CAPITAL LETTER U WITH DOUBLE ACUTE=0004F2" \o
      ";ARABIC PLACE OF SAJDAH=0006E9;DEVANAGARI LETTER VOCALIC RR=000960;DEVANAGARI LETTER BBA=00097F" \o
      ";TIBETAN VOWEL SIGN AA=000F71;TIBETAN SUBJOINED LETTER DHA=000FA2" \o
      ";HANGUL CHOSEONG SSANGTIKEUT=001104;CANADIAN SYLLABICS II=001404;CANADIAN SYLLABICS CO=00148D" \o
      ";CANADIAN SYLLABICS ME=0014A3;CANADIAN SYLLABICS QA=001583;LATIN SMALL LETTER TURNED OE=001D14" \o
      ";LATIN SMALL LETTER A WITH RING BELOW=001E01;GREEK CAPITAL LETTER IOTA WITH DASIA=001F39" \o
      ";SUBSET OF OR EQUAL TO=002286;QUADRANT LOWER RIGHT=002597;LONG LEFTWARDS ARROW=0027F5" \o
      ";GLAGOLITIC CAPITAL LETTER SMALL YUS=002C24;COPTIC CAPITAL LETTER OLD COPTIC HEI=002CD2" \o
      ";DOUBLE HYPHEN=002E40;SQUARE APAATO=003300;MYANMAR SIGN TAI LAING TONE-5=00AA7D" \o
      ";TAI VIET LETTER LOW O=00AAAE;MEETEI MAYEK LETTER I LONSUM=00ABE2" \o
      ";HEBREW LETTER VAV WITH HOLAM=00FB4B;ARABIC LETTER HEH MEDIAL FORM=00FEEC" \o
      ";HALFWIDTH KATAKANA LETTER KU=00FF78;OSAGE SMALL LETTER NA=0104E9;BRAHMI NUMBER TWENTY=01105C" \o
      ";ZANABAZAR SQUARE CLUSTER-INITIAL LETTER RA=011A3A;MARCHEN SUBJOINED LETTER NGA=011C95" \o
      ";CUNEIFORM SIGN LAM TIMES KUR=0121F5;CUNEIFORM SIGN SAG TIMES NUN=01229E" \o
      ";CUNEIFORM SIGN TAG TIMES SHU=0122F7;BAMUM LETTER PHASE-A MOOMEUT=016836" \o
      ";DUPLOYAN LETTER J N S=01BC31;ZNAMENNY NEUME REVERSED CHELYUSTKA=01CF6C" \o
      ";ZNAMENNY NEUME OSOKA=01CFAF;COUNTING ROD UNIT DIGIT FIVE=01D364" \o
      ";COUNTING ROD UNIT DIGIT NINE=01D368;MATHEMATICAL FRAKTUR SMALL E=01D522" \o
      ";MATHEMATICAL SANS-SERIF BOLD SMALL H=01D5F5;MATHEMATICAL BOLD ITALIC SMALL KAPPA=01D73F" \o
      ";SIGNWRITING HAND-FIST INDEX THUMB CURLICUE=01D8E7;SIGNWRITING LOCATION HEIGHT=01DA81" \o
      ";ADLAM ALIF LENGTHENER=01E944;CANDLE=01F56F",
    ";START OF TEXT=000002;LATIN SMALL LETTER DOTLESS I=000131;COMBINING CYRILLIC POKRYTIE=000487" \o
      ";CYRILLIC CAPITAL LETTER REVERSED ZE=000510;TELUGU SIGN ANUSVARA=000C02" \o
      ";SINHALA VOWEL SIGN DIGA GAETTA-PILLA=000DF2;CANADIAN SYLLABICS EN=00142B" \o
      ";CANADIAN SYLLABICS NE=0014C0;CANADIAN SYLLABICS RA=00154B;CANADIAN SYLLABICS HK=00157D" \o
      ";BALINESE LETTER OKARA TEDUNG=001B12;OL CHIKI RELAA=001C7B;COMBINING KAVYKA ABOVE RIGHT=001DF6" \o
      ";GREEK SMALL LETTER IOTA WITH DASIA AND VARIA=001F33;ROMAN NUMERAL TWELVE=00216B" \o
      ";UP DOWN ARROW=002195;N-ARY PRODUCT=00220F;SQUARED DOT OPERATOR=0022A1" \o
      ";APL FUNCTIONAL SYMBOL QUAD LEFTWARDS ARROW=002347" \o
      ";BOX DRAWINGS VERTICAL LIGHT AND RIGHT HEAVY=00251D" \o
      ";BOX DRAWINGS VERTICAL HEAVY AND RIGHT LIGHT=002520;TRIGRAM FOR MOUNTAIN=002636" \o
      ";TIFINAGH LETTER YAZZ=002D65;COMBINING CYRILLIC LETTER BE=002DE0;DOTTED OBELOS=002E13" \o
      ";CJK RADICAL C-SIMPLIFIED CART=002ECB;CJK RADICAL C-SIMPLIFIED FISH=002EE5" \o
      ";VERTICAL KANA REPEAT MARK UPPER HALF=003033;SQUARE ERA NAME MEIZI=00337E" \o
      ";CYRILLIC CAPITAL LETTER MONOCULAR O=00A668;SAURASHTRA LETTER YA=00A8AB" \o
      ";DEVANAGARI GAP FILLER=00A8F9;HANGUL JONGSEONG SSANGPIEUP=00D7E6" \o
      ";ARABIC LIGATURE QAF WITH ALEF MAKSURA ISOLATED FORM=00FC35" \o
      ";ARABIC LIGATURE AIN WITH ALEF MAKSURA ISOLATED FORM=00FCF7" \o
      ";ARABIC LIGATURE SAD WITH ALEF MAKSURA ISOLATED FORM=00FD05" \o
      ";ARABIC LIGATURE SEEN WITH KHAH WITH ALEF MAKSURA FINAL FORM=00FDA8" \o
      ";ARABIC LETTER ALEF FINAL FORM=00FE8E;HALFWIDTH KATAKANA LETTER RO=00FF9B" \o
      ";LINEAR B IDEOGRAM B241 CHARIOT=0100CD;AEGEAN NUMBER THREE THOUSAND=010124" \o
      ";GREEK FIVE OBOLS SIGN=010180;OLD ITALIC LETTER EKS=010317;KHAROSHTHI FRACTION ONE HALF=010A48" \o
      ";OLD TURKIC LETTER ORKHON ENC=010C28;SHARADA VOWEL SIGN AU=0111BF" \o
      ";SINHALA ARCHAIC NUMBER FORTY=0111ED;COMBINING GRANTHA DIGIT FOUR=01136A" \o
      ";NEWA LETTER VOCALIC L=011408;CUNEIFORM SIGN SAG TIMES KUR=01229B;DUPLOYAN LETTER G R S=01BC3E" \o
      ";ZNAMENNY COMBINING ATTACHING VERTICAL OMET=01CF3E;IDEOGRAPHIC TALLY MARK THREE=01D374" \o
      ";MATHEMATICAL FRAKTUR SMALL F=01D523;MATHEMATICAL SANS-SERIF BOLD SMALL I=01D5F6" \o
      ";MATHEMATICAL ITALIC CAPITAL UPSILON=01D6F6;MATHEMATICAL BOLD ITALIC CAPITAL RHO=01D72C" \o
      ";SIGNWRITING SURFACE BETWEEN=01D915;TROPICAL FISH=01F420;WOMANS SANDAL=01F461" \o
      ";INDEX POINTING AT THE VIEWER=01FAF5",
    ";LATIN SMALL LETTER DOTLESS J=000237;ARABIC LETTER ALEF WITH ATTACHED BOTTOM RIGHT KASRA=000875" \o
      ";CANADIAN SYLLABICS KI=00146D;CANADIAN SYLLABICS SA=0014F4;CANADIAN SYLLABICS SAYISI YI=001541" \o
      ";CANADIAN SYLLABICS LH=0015A6;TAI THAM SIGN KAANKUU=001AA9;BALINESE MUSICAL SYMBOL DING=001B66" \o
      ";LATIN SMALL LETTER K WITH LINE BELOW=001E35;LATIN CAPITAL LETTER U WITH DIAERESIS BELOW=001E72" \o
      ";COPTIC CAPITAL LETTER OLD COPTIC AIN=002CB4;RAISED SQUARE=002E0B" \o
      ";PARENTHESIZED HANGUL HIEUH A=00321B;HEXAGRAM FOR THE WELL=004DEF" \o
      ";LATIN CAPITAL LETTER REVERSED HALF H=00A7F5;SAURASHTRA DIGIT TWO=00A8D2" \o
      ";JAVANESE PADA PANGKAT=00A9C7;MEETEI MAYEK LETTER I=00ABCF;HALFWIDTH KATAKANA LETTER SO=00FF7F" \o
      ";HALFWIDTH KATAKANA LETTER MU=00FF91;HALFWIDTH HANGUL LETTER NIEUN-HIEUH=00FFA6" \o
      ";ROMAN DUPONDIUS SIGN=010199;OLD PERMIC LETTER LEI=01035B;OSAGE SMALL LETTER PA=0104EC" \o
      ";IMPERIAL ARAMAIC LETTER QOPH=010852;PALMYRENE LETTER TAW=010876" \o
      ";OLD TURKIC LETTER YENISEI AQ=010C35;OLD SOGDIAN LETTER PE=010F14;DIVES AKURU MEDIAL YA=011940" \o
      ";CUNEIFORM SIGN BAHAR2=012043;CUNEIFORM SIGN GA2 TIMES TAK4=0120E9" \o
      ";ZNAMENNY NEUME STRELA KRYUKOVAYA GROMNAYA=01CFB9;MUSICAL SYMBOL CROIX=01D1CF" \o
      ";MATHEMATICAL FRAKTUR SMALL G=01D524;MATHEMATICAL SANS-SERIF BOLD SMALL J=01D5F7" \o
      ";MATHEMATICAL BOLD ITALIC CAPITAL TAU=01D72F" \o
      ";SIGNWRITING MOVEMENT-DIAGONAL BETWEEN AWAY MEDIUM=01D95E;OTTOMAN SIYAQ NUMBER NINETY=01ED12" \o
      ";CARP STREAMER=01F38F;CAMERA=01F4F7;RIGHT SPEAKER=01F568;HIPPOPOTAMUS=01F99B" \o
      ";UPPER RIGHT TRIANGULAR MEDIUM SHADE=01FB9D",
    ";ARABIC EMPTY CENTRE LOW STOP=0006EA;ARABIC SMALL HIGH WORD AL-JUZ=000898" \o
      ";KANNADA VOWEL SIGN OO=000CCB;MALAYALAM FRACTION ONE TENTH=000D5C" \o
      ";TIBETAN SUBJOINED LETTER GHA=000F93;CANADIAN SYLLABICS PE=00142F;CANADIAN SYLLABICS TA=001455" \o
      ";CANADIAN SYLLABICS MH=0014BD;CANADIAN SYLLABICS LI=0014D5;CANADIAN SYLLABICS FO=001557" \o
      ";CANADIAN SYLLABICS NG=001595;RUNIC LETTER SHORT-TWIG-AR A=0016C6" \o
      ";MONGOLIAN LETTER MANCHU ALI GALI SSA=0018A2;GEORGIAN MTAVRULI CAPITAL LETTER WE=001CB3" \o
      ";LATIN SMALL LETTER L WITH LINE BELOW=001E3B;LATIN SMALL LETTER O WITH HOOK ABOVE=001ECF" \o
      ";DAGGER=002020;LEFTWARDS WAVE ARROW=00219C;QUADRANT UPPER RIGHT=00259D" \o
      ";COPTIC CAPITAL LETTER OLD NUBIAN NGI=002CDE;COMBINING CYRILLIC LETTER DE=002DE3" \o
      ";COMBINING CYRILLIC LETTER HA=002DEF;KANGXI RADICAL SPEECH=002F94" \o
      ";PARENTHESIZED IDEOGRAPH ENTERPRISE=00323D" \o
      ";IDEOGRAPHIC TELEGRAPH SYMBOL FOR HOUR TWENTY-FOUR=003370" \o
      ";LATIN CAPITAL LETTER Q WITH DIAGONAL STROKE=00A758;MEETEI MAYEK CHEIKHEI=00ABEB" \o
      ";ARABIC LIGATURE LAM WITH ALEF MAKSURA ISOLATED FORM=00FC43;ARABIC LETTER SAD MEDIAL FORM=00FEBC" \o
      ";ARABIC LETTER AIN MEDIAL FORM=00FECC;ARABIC LETTER QAF MEDIAL FORM=00FED8" \o
      ";HALFWIDTH KATAKANA LETTER TO=00FF84;HALFWIDTH KATAKANA LETTER NU=00FF87" \o
      ";FULLWIDTH POUND SIGN=00FFE1;LINEAR B IDEOGRAM B225 BATHTUB=0100C5" \o
      ";DESERET SMALL LETTER SHORT E=01042F;OLD TURKIC LETTER YENISEI AR=010C3B" \o
      ";OLD TURKIC LETTER ORKHON AER=010C3C;SIDDHAM VOWEL SIGN II=0115B1" \o
      ";WARANG CITI SMALL LETTER YUJ=0118CE;PAU CIN HAU RISING TONE FINAL=011AE9" \o
      ";MARCHEN SUBJOINED LETTER PHA=011C9F;TAMIL FRACTION ONE EIGHTIETH=011FC2" \o
      ";CUNEIFORM SIGN GURUN=012127;CUNEIFORM SIGN LU2 TIMES SI PLUS ASH=01220E" \o
      ";DUPLOYAN LETTER M N S=01BC2B;DUPLOYAN LETTER N M S=01BC2C" \o
      ";BYZANTINE MUSICAL SYMBOL YFESIS TRIGRAMMOS OKTO DODEKATA=01D0D7" \o
      ";MUSICAL SYMBOL TRIANGLE NOTEHEAD LEFT BLACK=01D14B;MATHEMATICAL FRAKTUR SMALL H=01D525" \o
      ";MATHEMATICAL SANS-SERIF BOLD SMALL K=01D5F8;MATHEMATICAL BOLD RHO SYMBOL=01D6E0" \o
      ";SIGNWRITING HAND-FIST THUMB BETWEEN INDEX MIDDLE STRAIGHT=01D82C" \o
      ";SIGNWRITING HAND-ANGLE LITTLE INDEX=01D8A3" \o
      ";SIGNWRITING HAND-CLAW MIDDLE RING LITTLE CONJOINED=01D8D6;ETHIOPIC SYLLABLE GURAGE BWI=01E7F3" \o
      ";MENDE KIKAKUI SYLLABLE M105 LONG MBOO=01E89D;MUSICAL SCORE=01F3BC;PAGE FACING UP=01F4C4" \o
      ";ALCHEMICAL SYMBOL FOR REGULUS OF ANTIMONY-2=01F731",
    ";LATIN SMALL LETTER N PRECEDED BY APOSTROPHE=000149;LATIN SMALL LETTER RAMS HORN=000264" \o
      ";ARABIC LETTER TCHEHEH=000687;DEVANAGARI LETTER DDA=000921" \o
      ";MALAYALAM FRACTION THREE EIGHTIETHS=000D5A;TIBETAN CANTILLATION SIGN SBUB -CHAL=000FC3" \o
      ";CANADIAN SYLLABICS SOUTH-SLAVEY KOH=001487;CANADIAN SYLLABICS MI=0014A5" \o
      ";CANADIAN SYLLABICS NH=0014D2;GEORGIAN MTAVRULI CAPITAL LETTER ON=001C9D" \o
      ";SINGLE RIGHT-POINTING ANGLE QUOTATION MARK=00203A;FIVE DOT PUNCTUATION=002059" \o
      ";LEFTWARDS ARROW WITH STROKE=00219A;NOT ASYMPTOTICALLY EQUAL TO=002244" \o
      ";LESS-THAN OR EQUAL TO=002264;EQUAL TO OR LESS-THAN=0022DC" \o
      ";DINGBAT NEGATIVE CIRCLED DIGIT THREE=002778" \o
      ";HEAVY LOWER RIGHT-SHADOWED WHITE RIGHTWARDS ARROW=0027AD;N-ARY CIRCLED TIMES OPERATOR=002A02" \o
      ";WHITE HEXAGON=002B21;TILDE WITH RING ABOVE=002E1B;PARENTHESIZED HANGUL TIKEUT=003202" \o
      ";CIRCLED IDEOGRAPH ONE=003280;MEETEI MAYEK CHEIKHAN=00AAF0" \o
      ";HANGUL JONGSEONG SSANGTIKEUT-PIEUP=00D7CE;ARABIC LETTER NOON GHUNNA FINAL FORM=00FB9F" \o
      ";ARABIC LETTER FARSI YEH INITIAL FORM=00FBFE;HALFWIDTH HANGUL LETTER RIEUL-HIEUH=00FFB0" \o
      ";GREEK ACROPHONIC ATTIC FIFTY=010144;OLD PERMIC LETTER DOI=010353" \o
      ";OLD TURKIC LETTER YENISEI OE=010C08;OLD TURKIC LETTER ORKHON AES=010C3E" \o
      ";CUNEIFORM SIGN EZEN TIMES A PLUS LAL=0120A3;CUNEIFORM SIGN URU TIMES GAL=01233D" \o
      ";CUNEIFORM SIGN UTUKI=012359;CUNEIFORM SIGN URU TIMES LU3=012540;MEDEFAIDRIN DIGIT ONE=016E81" \o
      ";MUSICAL SYMBOL FINAL BARLINE=01D102;MATHEMATICAL FRAKTUR SMALL I=01D526" \o
      ";MATHEMATICAL SANS-SERIF BOLD SMALL L=01D5F9;MATHEMATICAL BOLD ITALIC CAPITAL PSI=01D733" \o
      ";MATHEMATICAL BOLD ITALIC SMALL SIGMA=01D748" \o
      ";SIGNWRITING HAND-FIST LITTLE DOWN RIPPLE STRAIGHT=01D88F" \o
      ";SIGNWRITING MOVEMENT-FLOORPLANE HUMP HITTING FLOOR TRIPLE SMALL TRIPLE=01D9CA" \o
      ";SIGNWRITING EYES WIDENING MOVEMENT=01DA1C;TOTO LETTER U=01E2A5" \o
      ";ETHIOPIC SYLLABLE GURAGE GWE=01E7FA;PLAYING CARD JACK OF DIAMONDS=01F0CB",
    ";SINGLE GRAPHIC CHARACTER INTRODUCER=000099;MODIFIER LETTER LOW RIGHT ARROWHEAD=0002F2" \o
      ";SYRIAC SUBLINEAR COLON SKEWED RIGHT=000709;GEORGIAN CAPITAL LETTER SHIN=0010B8" \o
      ";MODIFIER LETTER GEORGIAN NAR=0010FC;CANADIAN SYLLABICS IN=00142C;CANADIAN SYLLABICS NI=0014C2" \o
      ";CANADIAN SYLLABICS RE=001542;TAGBANWA VOWEL SIGN I=001772" \o
      ";MONGOLIAN LETTER MANCHU ALI GALI TTA=00189E;LATIN CAPITAL LETTER E WITH MACRON AND ACUTE=001E16" \o
      ";LATIN SMALL LETTER N WITH LINE BELOW=001E49;UPWARDS DOUBLE ARROW=0021D1" \o
      ";APL FUNCTIONAL SYMBOL JOT DIAERESIS=002364;CANCER=00264B;LEFT ARROW WITH CIRCLED PLUS=002B32" \o
      ";RUSSIAN ASTROLOGICAL SYMBOL NOVILE=002BF4;GLAGOLITIC SMALL LETTER VEDE=002C32" \o
      ";GLAGOLITIC SMALL LETTER FITA=002C5A;CJK RADICAL C-SIMPLIFIED FROG=002EEA" \o
      ";CJK RADICAL C-SIMPLIFIED EVEN=002EEC;KANGXI RADICAL FATHER=002F57;HANGZHOU NUMERAL SIX=003026" \o
      ";IDEOGRAPHIC RISING TONE MARK=00302B;CIRCLED NUMBER FIFTY ON BLACK SQUARE=00324C" \o
      ";YI RADICAL LIE=00A4BB;COMBINING CYRILLIC LETTER EF=00A69E;SAURASHTRA LETTER OO=00A890" \o
      ";CHAM LETTER BA=00AA1D;CHAM DIGIT ONE=00AA51;ARABIC LETTER KHAH FINAL FORM=00FEA6" \o
      ";ARABIC LETTER LAM MEDIAL FORM=00FEE0;OSAGE SMALL LETTER SA=0104EE;PALMYRENE LETTER WAW=010865" \o
      ";OLD TURKIC LETTER ORKHON ENG=010C2D;OLD TURKIC LETTER YENISEI AT=010C44" \o
      ";OLD TURKIC LETTER ORKHON AET=010C45;COMBINING GRANTHA DIGIT ZERO=011366" \o
      ";TIRHUTA VOWEL SIGN VOCALIC L=0114B7;MODI LETTER VOCALIC R=011606" \o
      ";ZANABAZAR SQUARE LETTER DDHA=011A17;CUNEIFORM SIGN KWU318=0121B6" \o
      ";CUNEIFORM SIGN NUNUZ AB2 TIMES SILA3=012276;CUNEIFORM SIGN URU TIMES BAR=01233A" \o
      ";DUPLOYAN LETTER S J S=01BC2E;DUPLOYAN LETTER K R S=01BC3D;DUPLOYAN LETTER S K R=01BC40" \o
      ";MATHEMATICAL FRAKTUR SMALL J=01D527;MATHEMATICAL SANS-SERIF BOLD SMALL M=01D5FA" \o
      ";MATHEMATICAL SANS-SERIF BOLD ITALIC EPSILON SYMBOL=01D7C4" \o
      ";COMBINING GLAGOLITIC LETTER LJUDIJE=01E00E;MENDE KIKAKUI SYLLABLE M011 BA=01E81C" \o
      ";STEAMING BOWL=01F35C;PAGODA=01F6D4;FLYING SAUCER=01F6F8;LIGHT SALTIRE=01F7A9" \o
      ";FACE WITH HEAD-BANDAGE=01F915;XIANGQI BLACK GENERAL=01FA67;LADDER=01FA9C",
    ";LATIN CAPITAL LETTER T WITH DIAGONAL STROKE=00023E;CYRILLIC CAPITAL LETTER FITA=000472" \o
      ";CYRILLIC CAPITAL LETTER SHHA=0004BA;ARABIC SIGN SINDHI POSTPOSITION MEN=0006FE" \o
      ";DEVANAGARI LETTER BHA=00092D;DEVANAGARI DIGIT FIVE=00096B;DEVANAGARI DIGIT NINE=00096F" \o
      ";GURMUKHI LETTER TTHA=000A20;TELUGU AI LENGTH MARK=000C56;TELUGU VOWEL SIGN VOCALIC LL=000C63" \o
      ";CANADIAN SYLLABICS WA=001417;CANADIAN SYLLABICS SE=0014ED;RUNIC LETTER RAIDO RAD REID R=0016B1" \o
      ";RUNIC LETTER CWEORTH=0016E2;BOX DRAWINGS LIGHT UP AND HEAVY DOWN=00257D" \o
      ";BOX DRAWINGS HEAVY UP AND LIGHT DOWN=00257F;CURVED STEM PARAGRAPH SIGN ORNAMENT=002761" \o
      ";MEDIUM FLATTENED LEFT PARENTHESIS ORNAMENT=00276A" \o
      ";TRIPLE HORIZONTAL BAR WITH TRIPLE VERTICAL STROKE=002A69;EQUALS WITH ASTERISK=002A6E" \o
      ";LEFTWARDS TWO-HEADED ARROW WITH TAIL WITH VERTICAL STROKE=002B3C" \o
      ";COMBINING CYRILLIC LETTER KA=002DE6;KANGXI RADICAL DRAGON=002FD3" \o
      ";CYRILLIC CAPITAL LETTER TCHE=00A692;BAMUM COMBINING MARK KOQNDON=00A6F0" \o
      ";LATIN SMALL LETTER GLOTTAL U=00A7BF;JAVANESE PADA PISELEH=00A9CC" \o
      ";ARABIC LIGATURE TAH WITH ALEF MAKSURA ISOLATED FORM=00FCF5" \o
      ";ARABIC LIGATURE SEEN WITH JEEM WITH ALEF MAKSURA FINAL FORM=00FD5E" \o
      ";HALFWIDTH KATAKANA LETTER WO=00FF66;AEGEAN LIQUID MEASURE FIRST SUBUNIT=01013D" \o
      ";OLD PERMIC LETTER TAI=010362;OSAGE SMALL LETTER TA=0104F0;GRANTHA VOWEL SIGN EE=011347" \o
      ";GRANTHA VOWEL SIGN AI=011348;PAU CIN HAU MID-LEVEL TONE LONG FINAL=011AF1" \o
      ";MARCHEN SUBJOINED LETTER SHA=011CAC;CUNEIFORM SIGN GUD TIMES KUR=012120" \o
      ";CUNEIFORM SIGN IGI RI=012148;CUNEIFORM SIGN DAG KISIM5 TIMES U2 PLUS MASH=012373" \o
      ";CUNEIFORM SIGN DUG TIMES KUR=01249B;BAMUM LETTER PHASE-C KEUSEUX=0168E0" \o
      ";PAHAWH HMONG SIGN TAU=016B6F;NUSHU ITERATION MARK=016FE1" \o
      ";ZNAMENNY NEUME STRELA DVOECHELNOPOVODNAYA=01CF9D;BYZANTINE MUSICAL SYMBOL AGOGI MESI=01D09E" \o
      ";MUSICAL SYMBOL COMBINING SPRECHGESANG STEM=01D166;MUSICAL SYMBOL KORON=01D1EA" \o
      ";MATHEMATICAL FRAKTUR SMALL K=01D528;MATHEMATICAL SANS-SERIF BOLD SMALL N=01D5FB" \o
      ";SIGNWRITING HAND-CIRCLE RING LITTLE=01D8B1" \o
      ";SIGNWRITING MOVEMENT-FLOORPLANE LOOP HITTING FLOOR SMALL SINGLE=01D9CC" \o
      ";LATIN SMALL LETTER R WITH FISHHOOK AND PALATAL HOOK=01DF16;CINEMA=01F3A6" \o
      ";TWO MEN HOLDING HANDS=01F46C;DANCER=01F483",
    ";DEVANAGARI LETTER CHA=00091B;TIBETAN SUBJOINED LETTER KHA=000F91" \o
      ";ETHIOPIC SYLLABLE GLOTTAL EE=0012A4;CANADIAN SYLLABICS PI=001431;CANADIAN SYLLABICS TE=00144C" \o
      ";CANADIAN SYLLABICS NUNAVUT H=00157C;CANADIAN SYLLABICS FULL STOP=00166E" \o
      ";LIMBU SMALL LETTER KA=001930;BALINESE LETTER UKARA TEDUNG=001B0A" \o
      ";COMBINING LATIN SMALL LETTER FLATTENED OPEN A ABOVE=001DD3;GREEK PROSGEGRAMMENI=001FBE" \o
      ";NEITHER LESS-THAN NOR EQUIVALENT TO=002274;MEDIUM RIGHT CURLY BRACKET ORNAMENT=002775" \o
      ";HEAVY UPPER RIGHT-SHADOWED WHITE RIGHTWARDS ARROW=0027AE;LEFTWARDS ARROW-TAIL=002919" \o
      ";DOUBLE-LINE EQUAL TO OR GREATER-THAN=002A9A;DIAMOND WITH RIGHT HALF BLACK=002B17" \o
      ";ANTICLOCKWISE TRIANGLE-HEADED RIGHT U-SHAPED ARROW=002B8C;GLAGOLITIC SMALL LETTER KAKO=002C3D" \o
      ";COPTIC CAPITAL LETTER OLD COPTIC HAT=002CD4;CJK RADICAL C-SIMPLIFIED LONG=002ED3" \o
      ";KANGXI RADICAL SECOND=002F04;PARENTHESIZED HANGUL IEUNG A=003215;SQUARE PENIHI=003338" \o
      ";HEXAGRAM FOR THE ARMY=004DC6;YI RADICAL GEP=00A497;YI RADICAL CIP=00A4BE" \o
      ";COMBINING CYRILLIC LETTER SOFT SIGN=00A67A;MODIFIER LETTER HIGH DOTTED TONE BAR=00A709" \o
      ";CHAM LETTER DA=00AA15;HALFWIDTH KATAKANA LETTER RU=00FF99;LINEAR B IDEOGRAM B162 GARMENT=0100AA" \o
      ";DESERET SMALL LETTER SHORT I=01042E;PALMYRENE LETTER NUN=01086E;NABATAEAN LETTER BETH=010883" \o
      ";NABATAEAN NUMBER FIVE=0108AC;OLD TURKIC LETTER ORKHON ASH=010C3F;NEWA LETTER VOCALIC R=011406" \o
      ";SIDDHAM VOWEL SIGN AU=0115BB;WARANG CITI DIGIT SIX=0118E6;NANDINAGARI LETTER AA=0119A1" \o
      ";MARCHEN SUBJOINED LETTER THA=011C9B;CUNEIFORM SIGN DAG KISIM5 TIMES GA PLUS MASH=01205C" \o
      ";CUNEIFORM SIGN EZEN TIMES LU=0120B2;BASSA VAH LETTER YEIN=016AE4" \o
      ";MATHEMATICAL FRAKTUR SMALL L=01D529;MATHEMATICAL SANS-SERIF BOLD SMALL O=01D5FC" \o
      ";SIGNWRITING HAND-HINGE LITTLE INDEX=01D8A2;SIGNWRITING SQUEEZE LARGE MULTIPLE=01D918" \o
      ";SIGNWRITING MOVEMENT-WALLPLANE TRIPLE STRAIGHT MOVEMENT=01D934" \o
      ";ETHIOPIC SYLLABLE GURAGE FWI=01E7FB;MENDE KIKAKUI SYLLABLE M183 LONG NGGO=01E882" \o
      ";WEIGHT LIFTER=01F3CB;JAPANESE SYMBOL FOR BEGINNER=01F530;CLOCK FACE ONE-THIRTY=01F55C" \o
      ";RAILWAY TRACK=01F6E4;ALCHEMICAL SYMBOL FOR TARTAR=01F73F",
    ";INFORMATION SEPARATOR THREE=00001D;LATIN SMALL LETTER U WITH RING ABOVE=00016F" \o
      ";SAMARITAN VOWEL SIGN SHORT A=000825;SYRIAC LETTER MALAYALAM LLLA=000869" \o
      ";DEVANAGARI LETTER DHA=000927;TIBETAN VOWEL SIGN EE=000F7B;GEORGIAN CAPITAL LETTER ZHAR=0010AF" \o
      ";CANADIAN SYLLABICS KO=00146F;CANADIAN SYLLABICS YA=00152D;CANADIAN SYLLABICS QI=00157F" \o
      ";CANADIAN SYLLABICS AY=0018B1;LIMBU SMALL LETTER LA=001938;BALINESE MUSICAL SYMBOL DONG=001B61" \o
      ";LATIN CAPITAL LETTER E WITH MACRON AND GRAVE=001E14" \o
      ";LATIN SMALL LETTER O WITH CIRCUMFLEX AND HOOK ABOVE=001ED5" \o
      ";GREEK CAPITAL LETTER ALPHA WITH OXIA=001FBB;THUNDERSTORM=002608;HEAVY SPARKLE=002748" \o
      ";DINGBAT CIRCLED SANS-SERIF DIGIT SIX=002785;CIRCLED BOLD X=002BBF" \o
      ";COMBINING CYRILLIC LETTER IE=002DF7;LATIN CAPITAL LETTER V WITH DIAGONAL STROKE=00A75E" \o
      ";MEETEI MAYEK LETTER O=00AAE1;ARABIC LETTER PEH MEDIAL FORM=00FB59" \o
      ";ARABIC LETTER TAH MEDIAL FORM=00FEC4;HALFWIDTH KATAKANA LETTER SU=00FF7D" \o
      ";HALFWIDTH KATAKANA LETTER YO=00FF96;AEGEAN WEIGHT SECOND SUBUNIT=010139" \o
      ";ROMAN QUINARIUS SIGN=010197;OLD ITALIC LETTER ERS=01031B;OLD PERMIC LETTER REI=010360" \o
      ";NABATAEAN LETTER KAPH=01088F;KHUDAWADI LETTER DDDA=0112C9;DIVES AKURU SIGN CANDRABINDU=01193C" \o
      ";NANDINAGARI LETTER BA=0119C4;BAMUM LETTER PHASE-A MOOMPUQ=016826" \o
      ";BAMUM LETTER PHASE-B MA NJUQA=016888;ZNAMENNY COMBINING MARK CURVED OMET=01CF3F" \o
      ";BYZANTINE MUSICAL SYMBOL KLASMA ANO=01D07F;MATHEMATICAL FRAKTUR SMALL M=01D52A" \o
      ";MATHEMATICAL SANS-SERIF BOLD SMALL P=01D5FD;SIGNWRITING MOVEMENT-WALLPLANE JAW=01DA68" \o
      ";ETHIOPIC SYLLABLE GURAGE KWE=01E7F7;ETHIOPIC SYLLABLE GURAGE GWI=01E7F8;WEARY CAT FACE=01F640" \o
      ";COUCH AND LAMP=01F6CB;WIDE-HEADED DOWNWARDS VERY HEAVY BARB ARROW=01F883;ABACUS=01F9EE" \o
      ";TAG GREATER-THAN SIGN=0E003E",
    ";COMBINING COMMA ABOVE=000313;GREEK SMALL LETTER PI=0003C0;HEBREW ACCENT ETNAHTA=000591" \o
      ";SAMARITAN PUNCTUATION ZIQAA=000838;MALAYALAM LETTER DDHA=000D22" \o
      ";TIBETAN SUBJOINED LETTER NGA=000F94;MYANMAR LETTER SHAN A=001022;CANADIAN SYLLABICS LO=0014D7" \o
      ";CANADIAN SYLLABICS SH=001525;CANADIAN SYLLABICS RI=001546;CANADIAN SYLLABICS N-CREE THE=00155F" \o
      ";RUNIC LETTER HAGLAZ H=0016BA;MONGOLIAN LETTER ALI GALI DDA=00188E;LIMBU SMALL LETTER MA=001936" \o
      ";KHMER SYMBOL BEI KOET=0019E3;LATIN SMALL LETTER R WITH LINE BELOW=001E5F" \o
      ";LATIN SMALL LETTER U WITH HOOK ABOVE=001EE7;SOLIDUS WITH OVERBAR=0029F6" \o
      ";MINUS SIGN WITH FALLING DOTS=002A2B;CLOSED SUBSET=002ACF;NEWLINE RIGHT=002B93" \o
      ";LEFT RAISED OMISSION BRACKET=002E0C;CJK RADICAL C-SIMPLIFIED WIND=002EDB" \o
      ";CIRCLED IDEOGRAPH TEN=003289;HEXAGRAM FOR DECREASE=004DE8;LATIN SMALL LETTER R ROTUNDA=00A75B" \o
      ";MEETEI MAYEK LUM IYEK=00ABEC;HALFWIDTH KATAKANA LETTER TU=00FF82;OLD ITALIC LETTER ESS=01031F" \o
      ";OSAGE SMALL LETTER WA=0104F7;MODIFIER LETTER REVERSED GLOTTAL STOP WITH STROKE=0107B4" \o
      ";PALMYRENE NUMBER TWO=01087A;MANICHAEAN NUMBER ONE=010AEB;NANDINAGARI LETTER CA=0119B3" \o
      ";MARCHEN SUBJOINED LETTER DZA=011CA4;CUNEIFORM SIGN LU2 TIMES KAD2=012205" \o
      ";CUNEIFORM SIGN SUHUR=0122E6;CUNEIFORM SIGN UMUM TIMES PA=012325" \o
      ";CUNEIFORM SIGN URU TIMES IGI=012342;CUNEIFORM SIGN NINDA2 TIMES DIM GUNU=012522" \o
      ";MATHEMATICAL FRAKTUR SMALL N=01D52B;MATHEMATICAL SANS-SERIF BOLD SMALL Q=01D5FE" \o
      ";MATHEMATICAL BOLD ITALIC SMALL THETA=01D73D;SIGNWRITING HAND-FIST MIDDLE LITTLE=01D8CC" \o
      ";OTTOMAN SIYAQ ALTERNATE NUMBER SIX HUNDRED=01ED39;CRESCENT MOON=01F319" \o
      ";FIRST QUARTER MOON WITH FACE=01F31B;ONCOMING TAXI=01F696" \o
      ";LOWER RIGHT BLOCK DIAGONAL LOWER MIDDLE LEFT TO UPPER MIDDLE RIGHT=01FB46",
    ";ESCAPE=00001B;ARABIC DATE SEPARATOR=00060D;DEVANAGARI LETTER GGA=00097B" \o
      ";MALAYALAM DIGIT EIGHT=000D6E;ETHIOPIC SYLLABLE BAA=001263;CANADIAN SYLLABICS WE=00140C" \o
      ";CANADIAN SYLLABICS MO=0014A7;CANADIAN SYLLABICS SI=0014EF;CANADIAN SYLLABICS TH=00156A" \o
      ";LIMBU SMALL LETTER NA=001934;TAI THAM SIGN MAI KANG=001A74" \o
      ";GEORGIAN MTAVRULI CAPITAL LETTER UN=001CA3;LATIN SMALL LETTER W WITH RING ABOVE=001E98" \o
      ";DOUBLE SUBSET=0022D0;MIDLINE HORIZONTAL ELLIPSIS=0022EF" \o
      ";CLOCKWISE TRIANGLE-HEADED OPEN CIRCLE ARROW=002B6E;COPTIC CAPITAL LETTER OLD COPTIC ESH=002CC6" \o
      ";CJK RADICAL C-SIMPLIFIED SILK=002EB0;IDEOGRAPHIC ANNOTATION LINKING MARK=003190" \o
      ";LATIN SMALL LETTER AO=00A735;LATIN SMALL LETTER INSULAR R=00A783" \o
      ";MYANMAR MODIFIER LETTER SHAN REDUPLICATION=00A9E6;CHAM LETTER GA=00AA08" \o
      ";LATIN SMALL LETTER TURNED UI=00AB51;ARABIC LIGATURE TEH WITH ALEF MAKSURA ISOLATED FORM=00FC0F" \o
      ";ARABIC LETTER JEEM FINAL FORM=00FE9E;AEGEAN NUMBER SEVEN THOUSAND=010128" \o
      ";ELBASAN LETTER GHAMMA=010526;OLD TURKIC LETTER YENISEI AY=010C17" \o
      ";OLD TURKIC LETTER ORKHON AEY=010C18;OLD TURKIC LETTER ORKHON OEK=010C1C" \o
      ";OLD TURKIC LETTER YENISEI IQ=010C37;GRANTHA SIGN AVAGRAHA=01133D" \o
      ";SIDDHAM SECTION MARK WITH RAYS AND DOTTED DOUBLE CRESCENTS=0115CD;NANDINAGARI LETTER DA=0119BF" \o
      ";CUNEIFORM SIGN LU2 TIMES KAD3=012206;CUNEIFORM SIGN NAGA INVERTED=012241" \o
      ";CUNEIFORM SIGN SHA3 TIMES BAD=0122B0;CUNEIFORM SIGN URU TIMES GAR=01233F" \o
      ";CUNEIFORM SIGN URUDA TIMES U=012350;CUNEIFORM SIGN ZUBUR=01236D;CUNEIFORM SIGN LAK-003=0124D5" \o
      ";CUNEIFORM SIGN LAK-021=0124D6;CUNEIFORM SIGN LAK-030=0124D8;CUNEIFORM SIGN LAK-210=0124E2" \o
      ";BAMUM LETTER PHASE-A UNKNOWN=016844;PAHAWH HMONG SIGN LOS=016B70;DUPLOYAN LETTER S P R=01BC35" \o
      ";MATHEMATICAL FRAKTUR SMALL O=01D52C;MATHEMATICAL SANS-SERIF BOLD SMALL R=01D5FF" \o
      ";SIGNWRITING HAND-FIST INDEX MIDDLE CONJOINED THUMB SIDE CONJOINED=01D82E" \o
      ";SIGNWRITING EYE WINK=01DA1D;ADLAM SMALL LETTER TU=01E93C;ROASTED SWEET POTATO=01F360" \o
      ";ALIEN MONSTER=01F47E;GROWING HEART=01F497;ALCHEMICAL SYMBOL FOR POWDER=01F74B" \o
      ";HEAVY SALTIRE=01F7AC;WIDE-HEADED UPWARDS LIGHT BARB ARROW=01F861" \o
      ";BLACK CHESS KNIGHT ROTATED ONE HUNDRED THIRTY-FIVE DEGREES=01FA1C;BEETLE=01FAB2",
    ";MODIFIER LETTER RAISED COLON=0002F8;SAMARITAN LETTER YUT=000809;DEVANAGARI LETTER GHA=000918" \o
      ";ETHIOPIC SYLLABLE CAA=00127B;CANADIAN SYLLABICS ON=00142D;CANADIAN SYLLABICS TI=00144E" \o
      ";CANADIAN SYLLABICS NO=0014C4;CYRILLIC SMALL LETTER LONG-LEGGED DE=001C81" \o
      ";LATIN SMALL LETTER T WITH LINE BELOW=001E6F" \o
      ";GREEK CAPITAL LETTER ETA WITH DASIA AND PERISPOMENI=001F2F" \o
      ";GREEK CAPITAL LETTER OMEGA WITH OXIA=001FFB;GEOMETRICALLY EQUIVALENT TO=00224E" \o
      ";WHITE CIRCLE WITH DOWN ARROW=0029EC;EQUALS SIGN WITH BUMPY ABOVE=002AAE" \o
      ";COPTIC CAPITAL LETTER THETHE=002C90;COMBINING CYRILLIC LETTER EL=002DE7" \o
      ";CJK RADICAL C-SIMPLIFIED SALT=002EE7;HANGZHOU NUMERAL TWO=003022" \o
      ";LATIN SMALL LETTER INSULAR S=00A785;CHAM LETTER HA=00AA28;ETHIOPIC SYLLABLE BBA=00AB28" \o
      ";HEBREW LETTER YOD WITH HIRIQ=00FB1D;PRESENTATION FORM FOR VERTICAL RIGHT ANGLE BRACKET=00FE40" \o
      ";AEGEAN NUMBER FIFTY THOUSAND=01012F;MODIFIER LETTER SUPERSCRIPT HALF TRIANGULAR COLON=010782" \o
      ";HATRAN NUMBER TWENTY=0108FE;MEROITIC CURSIVE NUMBER ONE HUNDRED=0109D2" \o
      ";PSALTER PAHLAVI TURNED SECTION MARK=010B9A;OLD TURKIC LETTER ORKHON ESH=010C41" \o
      ";TIRHUTA VOWEL SIGN VOCALIC R=0114B5;CUNEIFORM SIGN LUGAL OPPOSING LUGAL=012219" \o
      ";CUNEIFORM SIGN LAK-130=0124E0;CUNEIFORM SIGN LAK-220=0124E4;BAMUM LETTER PHASE-B KEUYEUX=016870" \o
      ";BAMUM LETTER PHASE-E NGGUAESHAE NYAM=016993;BYZANTINE MUSICAL SYMBOL CHOREVMA ARCHAION=01D03B" \o
      ";BYZANTINE MUSICAL SYMBOL VAREIA NEO=01D058;MATHEMATICAL FRAKTUR SMALL P=01D52D" \o
      ";MATHEMATICAL SANS-SERIF BOLD SMALL S=01D600" \o
      ";SIGNWRITING HAND-FIST INDEX MIDDLE RAISED KNUCKLES=01D811;MENDE KIKAKUI SYLLABLE M111 GA=01E884" \o
      ";FORK AND KNIFE=01F374;SLEUTH OR SPY=01F575;TELEPHONE RECEIVER WITH PAGE=01F57C" \o
      ";DOWNWARDS FINGER-POST ARROW=01F837;GARLIC=01F9C4",
    ";DELETE=00007F;GREEK CAPITAL LETTER OMICRON=00039F;ARMENIAN CAPITAL LETTER LIWN=00053C" \o
      ";ARABIC LETTER ALEF WITH ATTACHED RIGHT HAMZA=000881;TIBETAN SUBJOINED LETTER PHA=000FA5" \o
      ";ETHIOPIC SYLLABLE DAA=0012F3;CANADIAN SYLLABICS OO=001406;CANADIAN SYLLABICS YE=001526" \o
      ";LIMBU SMALL LETTER PA=001935;BALINESE LETTER AKARA=001B05" \o
      ";MODIFIER LETTER SMALL CAPITAL I WITH STROKE=001DA7;LATIN SMALL LETTER Y WITH RING ABOVE=001E99" \o
      ";GREEK KORONIS=001FBD;BLACK LEFT-POINTING TRIANGLE=0025C0" \o
      ";HEAVY WEDGE-TAILED RIGHTWARDS ARROW=0027BD;COMBINING CYRILLIC LETTER EM=002DE8" \o
      ";RIGHT LOW PARAPHRASE BRACKET=002E1D;CJK RADICAL J-SIMPLIFIED EVEN=002EEB" \o
      ";VERTICAL IDEOGRAPHIC ITERATION MARK=00303B;PARENTHESIZED HANGUL MIEUM A=003212" \o
      ";PARENTHESIZED HANGUL CIEUC U=00321C;LATIN SMALL LETTER P WITH STROKE THROUGH DESCENDER=00A751" \o
      ";LATIN SMALL LETTER INSULAR T=00A787;CHAM LETTER AI=00AA04;ARABIC LETTER TEH MEDIAL FORM=00FE98" \o
      ";OSAGE SMALL LETTER ZA=0104FA;KHUDAWADI LETTER DDHA=0112CB;SOYOMBO VOWEL SIGN VOCALIC L=011A5A" \o
      ";TAMIL SIGN MUKKURUNI=011FDC;CUNEIFORM SIGN MUSH TIMES ZA=012235;CUNEIFORM SIGN LAK-050=0124D9" \o
      ";BYZANTINE MUSICAL SYMBOL TRIGORGON=01D096;COUNTING ROD TENS DIGIT FOUR=01D36C" \o
      ";MATHEMATICAL FRAKTUR SMALL Q=01D52E;MATHEMATICAL SANS-SERIF BOLD SMALL T=01D601" \o
      ";ETHIOPIC SYLLABLE GURAGE KWI=01E7F5;MENDE KIKAKUI SYLLABLE M010 BI=01E81B" \o
      ";INDIC SIYAQ FRACTION THREE QUARTERS=01ECAF;LEDGER=01F4D2;CLOCK FACE TEN-THIRTY=01F565" \o
      ";FENCER=01F93A;UPPER RIGHT BLOCK DIAGONAL UPPER MIDDLE LEFT TO LOWER MIDDLE RIGHT=01FB67",
    ";PARTIAL LINE BACKWARD=00008C;REVERSE INDEX=00008D;CYRILLIC CAPITAL LETTER DZHE=00040F" \o
      ";CYRILLIC CAPITAL LETTER ABKHASIAN HA=0004A8" \o
      ";ARABIC LETTER HAH WITH SMALL ARABIC LETTER TAH ABOVE=000772;ARABIC CURLY DAMMATAN=0008E8" \o
      ";LAO CANCELLATION MARK=000ECC;CANADIAN SYLLABICS PO=001433;CANADIAN SYLLABICS N-CREE THI=001561" \o
      ";CANADIAN SYLLABICS WESTERN W=0018DD;TAI THAM SIGN KHUEN-LUE KARAN=001A7C;BATAK LETTER A=001BC0" \o
      ";BATAK VOWEL SIGN U FOR SIMALUNGUN SA=001BEF;LATIN SMALL LETTER Y WITH HOOK ABOVE=001EF7" \o
      ";NARROW NO-BREAK SPACE=00202F;HYPHEN BULLET=002043;WHITE UP-POINTING TRIANGLE WITH DOT=0025EC" \o
      ";DINGBAT NEGATIVE CIRCLED DIGIT SEVEN=00277C;LEFT MULTIMAP=0027DC" \o
      ";ETHIOPIC SYLLABLE GLOTTAL OA=002D8A;ETHIOPIC SYLLABLE CCA=002DA8" \o
      ";COMBINING CYRILLIC LETTER EN=002DE9;TOP HALF SECTION SIGN=002E39" \o
      ";CYRILLIC CAPITAL LETTER NEUTRAL YER=00A64E" \o
      ";LATIN SMALL LETTER Q WITH STROKE THROUGH DESCENDER=00A757;CHAM LETTER JA=00AA0E" \o
      ";ARABIC LETTER MEEM FINAL FORM=00FEE2;OBJECT REPLACEMENT CHARACTER=00FFFC" \o
      ";OLD PERMIC LETTER SII=010361;DESERET SMALL LETTER SHORT O=010432;NABATAEAN LETTER HETH=01088A" \o
      ";MANICHAEAN LETTER MEM=010AD6;SOGDIAN PUNCTUATION CIRCLE WITH DOT=010F57" \o
      ";KHUDAWADI DIGIT EIGHT=0112F8;TIRHUTA GVANG=0114C5;WARANG CITI DIGIT TWO=0118E2" \o
      ";NANDINAGARI LETTER GA=0119B0;MARCHEN SUBJOINED LETTER ZHA=011CA6;CUNEIFORM SIGN LAK-051=0124DA" \o
      ";PAHAWH HMONG CONSONANT NCHAU=016B28;DUPLOYAN AFFIX HIGH VERTICAL=01BC88" \o
      ";ZNAMENNY NEUME GOLUBCHIK TRESVETLY=01CF62;MATHEMATICAL FRAKTUR SMALL R=01D52F" \o
      ";MATHEMATICAL SANS-SERIF BOLD SMALL U=01D602" \o
      ";SIGNWRITING HAND-HOOK MIDDLE RING LITTLE CONJOINED=01D8DA;MENDE KIKAKUI SYLLABLE M017 DA=01E83F" \o
      ";RABBIT=01F407;TAMALE=01FAD4",
    ";THAANA ABAFILI=0007A6;SYRIAC LETTER MALAYALAM NNNA=000865;DEVANAGARI LETTER JHA=00091D" \o
      ";MYANMAR VOWEL SIGN AA=00102C;ETHIOPIC SYLLABLE FAA=00134B;CANADIAN SYLLABICS WI=00140E" \o
      ";CANADIAN SYLLABICS QO=001581;LIMBU SMALL LETTER RA=001937;KHMER SYMBOL DAP KOET=0019EA" \o
      ";BUGINESE VOWEL SIGN E=001A19;BALINESE MUSICAL SYMBOL DUNG=001B63" \o
      ";GEORGIAN MTAVRULI CAPITAL LETTER YN=001CB7;APL FUNCTIONAL SYMBOL QUAD DOWNWARDS ARROW=002357" \o
      ";LEFT HALF BLACK CIRCLE=0025D6;COFFIN=0026B0;MALTESE CROSS=002720" \o
      ";DINGBAT CIRCLED SANS-SERIF DIGIT TWO=002781;MATHEMATICAL RISING DIAGONAL=0027CB" \o
      ";LONG DIVISION=0027CC;QUADRUPLE INTEGRAL OPERATOR=002A0C;DOTTED SQUARE=002B1A" \o
      ";GLAGOLITIC CAPITAL LETTER YO=002C26;COPTIC CAPITAL LETTER DIALECT-P HORI=002CCA" \o
      ";PARENTHESIZED HANGUL NIEUN A=00320F;IDEOGRAPHIC TELEGRAPH SYMBOL FOR DAY ELEVEN=0033EA" \o
      ";LATIN SMALL LETTER C WITH BAR=00A793;CHAM LETTER KA=00AA06;ARABIC LETTER VEH MEDIAL FORM=00FB6D" \o
      ";ARABIC LIGATURE YEH WITH HAMZA ABOVE WITH HAH ISOLATED FORM=00FC01" \o
      ";ARABIC LIGATURE YEH WITH HAMZA ABOVE WITH KHAH INITIAL FORM=00FC99" \o
      ";PRESENTATION FORM FOR VERTICAL RIGHT WHITE CORNER BRACKET=00FE44" \o
      ";ARABIC LETTER ZAH MEDIAL FORM=00FEC8;HALFWIDTH KATAKANA LETTER YU=00FF95" \o
      ";HALFWIDTH HANGUL LETTER RIEUL-MIEUM=00FFAB;MANICHAEAN NUMBER TEN=010AED" \o
      ";PSALTER PAHLAVI LETTER SADHE=010B8F;SINHALA ARCHAIC NUMBER SIXTY=0111EF" \o
      ";GRANTHA VOWEL SIGN II=011340;DIVES AKURU LETTER AA=011901;NANDINAGARI LETTER HA=0119CE" \o
      ";CUNEIFORM SIGN AB TIMES LAGAB=012012;CUNEIFORM SIGN NINDA2=012252;CUNEIFORM SIGN SANGA2=0122AB" \o
      ";CUNEIFORM SIGN DISH PLUS SHU=012375;CUNEIFORM NUMERIC SIGN SIX U=012411" \o
      ";CUNEIFORM SIGN EZEN TIMES SU=0124B5;CUNEIFORM SIGN LAK-025=0124D7;CUNEIFORM SIGN LAK-142=0124E1" \o
      ";BAMUM LETTER PHASE-D NGGAAMAE=0168F9;BASSA VAH COMBINING HIGH TONE=016AF0" \o
      ";DUPLOYAN LETTER S T R=01BC33;DUPLOYAN LETTER T R S=01BC37" \o
      ";BYZANTINE MUSICAL SYMBOL SYRMATIKI=01D008;BYZANTINE MUSICAL SYMBOL PIASMA NEO=01D059" \o
      ";BYZANTINE MUSICAL SYMBOL ARKTIKO GA=01D0EB;MATHEMATICAL FRAKTUR SMALL S=01D530" \o
      ";MATHEMATICAL SANS-SERIF BOLD SMALL V=01D603;ETHIOPIC SYLLABLE GURAGE MWI=01E7ED" \o
      ";ETHIOPIC SYLLABLE GURAGE QWE=01E7F2;MENDE KIKAKUI SYLLABLE M002 KA=01E801" \o
      ";MENDE KIKAKUI SYLLABLE M041 HA=01E869;ADLAM GEMINATION MARK=01E946;SOFT ICE CREAM=01F366" \o
      ";WHITE PENNANT=01F3F1;AUTO RICKSHAW=01F6FA;ALCHEMICAL SYMBOL FOR SILVER=01F71B" \o
      ";RIGHTWARDS ARROW WITH SMALL EQUILATERAL ARROWHEAD=01F812;TUMBLER GLASS=01F943;BEAVER=01F9AB" \o
      ";WAFFLE=01F9C7",
    ";DIVISION SIGN=0000F7;LATIN CAPITAL LETTER O WITH TILDE AND MACRON=00022C" \o
      ";GREEK CAPITAL LETTER EPSILON=000395;CYRILLIC CAPITAL LETTER SHHA WITH DESCENDER=000526" \o
      ";NKO COMBINING SHORT LOW TONE=0007EC;DEVANAGARI LETTER KHA=000916;KANNADA VOWEL SIGN UU=000CC2" \o
      ";TIBETAN SUBJOINED LETTER SHA=000FB4;ETHIOPIC SYLLABLE DDA=0012F8;ETHIOPIC SYLLABLE GAA=00130B" \o
      ";CANADIAN SYLLABICS RO=001548;LATIN CAPITAL LETTER O WITH MACRON AND ACUTE=001E52" \o
      ";LATIN SMALL LETTER O WITH HORN AND DOT BELOW=001EE3" \o
      ";GREEK SMALL LETTER ETA WITH DASIA AND YPOGEGRAMMENI=001F91;ONE DOT LEADER=002024" \o
      ";FIRST STRONG ISOLATE=002068;RIGHT-POINTING ANGLE BRACKET=00232A" \o
      ";PARENTHESIZED NUMBER TWELVE=00247F;CHAINS=0026D3;PINWHEEL STAR=00272F" \o
      ";SOUTH EAST ARROW CROSSING NORTH EAST ARROW=00292D" \o
      ";NORTH EAST ARROW CROSSING SOUTH EAST ARROW=00292E;REVERSED ANGLE WITH UNDERBAR=0029A5" \o
      ";PASSED SYMBOL=002BFD;COMBINING CYRILLIC LETTER PE=002DEB;KANGXI RADICAL DIPPER=002F43" \o
      ";YI RADICAL HMO=00A4AD;CYRILLIC CAPITAL LETTER IOTA=00A646;CHAM LETTER LA=00AA24" \o
      ";ETHIOPIC SYLLABLE BBE=00AB2D;ARABIC LIGATURE YEH WITH ALEF MAKSURA ISOLATED FORM=00FC59" \o
      ";OLD TURKIC LETTER YENISEI EZ=010C15;DIVES AKURU LETTER BA=011922;DIVES AKURU DIGIT ONE=011951" \o
      ";NANDINAGARI LETTER AI=0119AB;CUNEIFORM SIGN SHE HU=0122BB;CUNEIFORM SIGN LAK-062=0124DB" \o
      ";CUNEIFORM SIGN LAK-080=0124DD;BAMUM LETTER PHASE-D REN MUCH=016960" \o
      ";MATHEMATICAL FRAKTUR SMALL T=01D531;MATHEMATICAL SANS-SERIF BOLD SMALL W=01D604" \o
      ";SIGNWRITING HAND-HINGE LITTLE THUMB=01D89B;SIGNWRITING MOVEMENT-WALLPLANE CHECK LARGE=01D941" \o
      ";SIGNWRITING MOVEMENT-FLOORPLANE WAVE HITTING FLOOR LARGE=01D9D1" \o
      ";MENDE KIKAKUI SYLLABLE M035 FA=01E85B;OTTOMAN SIYAQ NUMBER THIRTY=01ED0C;BIKINI=01F459" \o
      ";ALCHEMICAL SYMBOL FOR CAPUT MORTUUM=01F74E;WIDE-HEADED UPWARDS HEAVY BARB ARROW=01F879" \o
      ";NESTING DOLLS=01FA86",
    ";LATIN SMALL LETTER LJ=0001C9;MODIFIER LETTER DOUBLE PRIME=0002BA" \o
      ";MODIFIER LETTER CROSS ACCENT=0002DF;SYRIAC LETTER PERSIAN GHAMAL=00072E" \o
      ";SAMARITAN MARK DAGESH=000819;DEVANAGARI LETTER JJA=00097C;LAO DIGIT FIVE=000ED5" \o
      ";LAO DIGIT NINE=000ED9;TIBETAN VOWEL SIGN II=000F73;TIBETAN SUBJOINED LETTER NNA=000F9E" \o
      ";TIBETAN SUBJOINED LETTER THA=000FA0;HANGUL JUNGSEONG U-AE=00118A;HANGUL JUNGSEONG A-EU=0011A3" \o
      ";ETHIOPIC SYLLABLE HAA=001203;CANADIAN SYLLABICS KW=001484;CANADIAN SYLLABICS SO=0014F1" \o
      ";CANADIAN SYLLABICS YI=001528;LIMBU SMALL LETTER TA=001933;BALINESE LETTER EKARA=001B0F" \o
      ";GREEK CAPITAL LETTER ETA WITH PSILI AND OXIA=001F2C" \o
      ";GREEK SMALL LETTER UPSILON WITH DIALYTIKA AND PERISPOMENI=001FE7" \o
      ";ACTIVATE SYMMETRIC SWAPPING=00206B;SQUARED TIMES=0022A0;TWO INTERSECTING LOGICAL AND=002A55" \o
      ";HYGIEA=002BDA;RIGHT TRANSPOSITION BRACKET=002E0A;PARENTHESIZED HANGUL RIEUL A=003211" \o
      ";SQUARE ARUHUA=003301;CYRILLIC CAPITAL LETTER REVERSED YU=00A654;LATIN SMALL LETTER AU=00A737" \o
      ";NORTH INDIC FRACTION THREE QUARTERS=00A832;CHAM LETTER MA=00AA20;HANGUL JUNGSEONG EU-A=00D7B9" \o
      ";ARABIC LIGATURE SALLALLAHOU ALAYHE WASALLAM=00FDFA;FULLWIDTH RIGHT PARENTHESIS=00FF09" \o
      ";OLD TURKIC LETTER ORKHON ELT=010C21;OLD TURKIC LETTER YENISEI OQ=010C39" \o
      ";OLD SOGDIAN FRACTION ONE HALF=010F26;OLD UYGHUR LETTER GIMEL-HETH=010F72" \o
      ";NEWA SIGN CANDRABINDU=011443;DIVES AKURU LETTER CA=011911;NANDINAGARI LETTER JA=0119B5" \o
      ";CUNEIFORM SIGN URU TIMES SHE=012349;CUNEIFORM SIGN LAK-225=0124E5;CUNEIFORM SIGN LAK-441=0124F0" \o
      ";CUNEIFORM SIGN LAK-450=0124F7;BAMUM LETTER PHASE-C TEUTEUX=0168BA" \o
      ";ZNAMENNY COMBINING MARK POVYSHE S KHOKHLOM ON LEFT=01CF0A" \o
      ";BYZANTINE MUSICAL SYMBOL PSIFISTON=01D039;MUSICAL SYMBOL TRIANGLE NOTEHEAD DOWN BLACK=01D14F" \o
      ";MATHEMATICAL FRAKTUR SMALL U=01D532;MATHEMATICAL SANS-SERIF BOLD SMALL X=01D605" \o
      ";TAG DIGIT FIVE=0E0035;TAG DIGIT NINE=0E0039",
    ";GREEK SMALL LETTER XI=0003BE;HEBREW MARK LOWER DOT=0005C5;ARABIC CURLY FATHATAN=0008E7" \o
      ";DEVANAGARI LETTER NGA=000919;MALAYALAM DIGIT THREE=000D69;CANADIAN SYLLABICS TO=001450" \o
      ";TAGBANWA VOWEL SIGN U=001773;LATIN SMALL LETTER Z WITH LINE BELOW=001E95" \o
      ";GREEK CAPITAL LETTER ALPHA WITH PSILI AND VARIA AND PROSGEGRAMMENI=001F8A" \o
      ";GREEK CAPITAL LETTER IOTA WITH VARIA=001FDA;BOX DRAWINGS LIGHT VERTICAL AND LEFT=002524" \o
      ";LARGE LEFT TRIANGLE OPERATOR=002A1E;SHORT DOWN TACK WITH OVERBAR=002AE7" \o
      ";GLAGOLITIC SMALL LETTER IZHE=002C39;GLAGOLITIC SMALL LETTER SHTA=002C4B" \o
      ";ETHIOPIC SYLLABLE CCE=002DAD;COMBINING CYRILLIC LETTER ER=002DEC;KANGXI RADICAL INSECT=002F8D" \o
      ";KATAKANA DIGRAPH KOTO=0030FF;HANGUL LETTER KAPYEOUNMIEUM=003171;LATIN SMALL LETTER AV=00A739" \o
      ";LATIN CAPITAL LETTER AV WITH HORIZONTAL BAR=00A73A;SAURASHTRA LETTER UU=00A887" \o
      ";CHAM LETTER NA=00AA18;ARABIC LETTER YEH MEDIAL FORM=00FEF4;AEGEAN MEASURE THIRD SUBUNIT=01013F" \o
      ";GREEK ACROPHONIC ATTIC FIVE HUNDRED TALENTS=01014C;OLD PERMIC LETTER BUR=010351" \o
      ";OLD PERSIAN SIGN AURAMAZDAA-2=0103C9;AHOM LETTER BA=011708;AHOM DIGIT ONE=011731" \o
      ";DIVES AKURU LETTER DA=01191D;NANDINAGARI LETTER KA=0119AE" \o
      ";CUNEIFORM SIGN DUG TIMES KUSHU2 PLUS KASKAL=01249D;CUNEIFORM SIGN LAK-343=0124EA" \o
      ";CUNEIFORM SIGN LAK-550=0124FF;PAHAWH HMONG NUMBER HUNDREDS=016B5C;PAHAWH HMONG SIGN MUS=016B71" \o
      ";MATHEMATICAL FRAKTUR SMALL V=01D533;MATHEMATICAL SANS-SERIF BOLD SMALL Y=01D606" \o
      ";ETHIOPIC SYLLABLE GURAGE PWI=01E7FD;SQUARE TARGET=01F796;SELFIE=01F933;WILTED FLOWER=01F940" \o
      ";XIANGQI BLACK CHARIOT=01FA6B",
    ";CONTROL SEQUENCE INTRODUCER=00009B;LATIN SMALL LETTER OI=0001A3;LATIN SMALL LETTER NJ=0001CC" \o
      ";GREEK SMALL LETTER MU=0003BC;ARABIC SUBSCRIPT ALEF=000656;ARABIC LETTER HEH DOACHASHMEE=0006BE" \o
      ";DEVANAGARI ABBREVIATION SIGN=000970;TELUGU VOWEL SIGN VOCALIC RR=000C44;THAI DIGIT ONE=000E51" \o
      ";TIBETAN SUBJOINED LETTER DZA=000FAB;HANGUL CHOSEONG SIOS-CHIEUCH=001137" \o
      ";ETHIOPIC SYLLABLE BEE=001264;ETHIOPIC SYLLABLE JAA=001303;ETHIOPIC SYLLABLE CHA=001328" \o
      ";CANADIAN SYLLABICS TH-CREE TH=0015AE;BUGINESE VOWEL SIGN I=001A17" \o
      ";COMBINING LATIN SMALL LETTER TURNED W BELOW=001AC0" \o
      ";LATIN CAPITAL LETTER O WITH MACRON AND GRAVE=001E50" \o
      ";GREEK SMALL LETTER ALPHA WITH DASIA AND PERISPOMENI=001F07" \o
      ";GREEK SMALL LETTER ALPHA WITH MACRON=001FB1;GEMINI=00264A;DIGRAM FOR LESSER YIN=00268D" \o
      ";GREATER-THAN ABOVE RIGHTWARDS ARROW=002978;BLACK UPWARDS EQUILATERAL ARROWHEAD=002B9D" \o
      ";BLACK MEDIUM LEFT-POINTING TRIANGLE CENTRED=002BC7;COPTIC SMALL LETTER OLD NUBIAN SHIMA=002CDD" \o
      ";COPTIC CAPITAL LETTER OLD NUBIAN WAU=002CE2;COMBINING CYRILLIC LETTER ES=002DED" \o
      ";KANGXI RADICAL MILLET=002FC9;PARENTHESIZED HANGUL PIEUP A=003213;VAI SYLLABLE A=00A549" \o
      ";DEVANAGARI SIGN CANDRABINDU AVAGRAHA=00A8F7;ARABIC LETTER GUEH FINAL FORM=00FB97" \o
      ";ARABIC LETTER THEH FINAL FORM=00FE9A;ARABIC LETTER THAL FINAL FORM=00FEAC" \o
      ";PHAISTOS DISC SIGN BOOMERANG=0101E1;OLD TURKIC LETTER ORKHON ENT=010C26" \o
      ";MAHAJANI SECTION MARK=011175;GRANTHA VOWEL SIGN AU=01134C;NEWA PLACEHOLDER MARK=01145B" \o
      ";AHOM LETTER CA=011740;NANDINAGARI LETTER LA=0119C9;SOYOMBO VOWEL SIGN VOCALIC R=011A59" \o
      ";MARCHEN SUBJOINED LETTER NYA=011C99;MARCHEN SUBJOINED LETTER TSA=011CA2" \o
      ";CUNEIFORM SIGN LUGAL SHESHIG=01221A;CUNEIFORM SIGN NUNUZ=01226D;CUNEIFORM SIGN LAK-092=0124DF" \o
      ";CUNEIFORM SIGN LAK-470=0124F9;MIAO LETTER BA=016F01;MUSICAL SYMBOL MEZZO=01D190" \o
      ";COUNTING ROD UNIT DIGIT FOUR=01D363;MATHEMATICAL FRAKTUR SMALL W=01D534" \o
      ";MATHEMATICAL SANS-SERIF BOLD SMALL Z=01D607;SIGNWRITING HAND-FLAT THUMB FORWARD=01D860" \o
      ";SIGNWRITING HAND-CLAW THUMB FORWARD=01D869;ETHIOPIC SYLLABLE GURAGE QWI=01E7F0" \o
      ";RAISED MC SIGN=01F16A;REVERSE CHECKER BOARD=01F67F;SHIELD=01F6E1" \o
      ";NORTHEAST-POINTING AIRPLANE=01F6EA;HEAVY RIGHTWARDS ARROW WITH EQUILATERAL ARROWHEAD=01F81A" \o
      ";FACE WITH UNEVEN EYES AND WAVY MOUTH=01F974;MOTORIZED WHEELCHAIR=01F9BC",
    ";GREEK SMALL LETTER NU=0003BD;CYRILLIC CAPITAL LETTER A WITH BREVE=0004D0" \o
      ";BENGALI VOWEL SIGN UU=0009C2;GUJARATI VOWEL SIGN E=000AC7;ETHIOPIC SYLLABLE CEE=00127C" \o
      ";ETHIOPIC SYLLABLE KAA=0012AB;ETHIOPIC SYLLABLE DDE=0012FD;FUNCTION APPLICATION=002061" \o
      ";DOWN RIGHT DIAGONAL ELLIPSIS=0022F1;NOT CHECK MARK=00237B;PREVIOUS PAGE=002397" \o
      ";HISTORIC SITE=0026EC;COPTIC SMALL LETTER O=002C9F;COMBINING CYRILLIC LETTER TE=002DEE" \o
      ";YI RADICAL KIT=00A492;LATIN SMALL LETTER ET=00A76B;CHAM LETTER PA=00AA1A" \o
      ";ETHIOPIC SYLLABLE BBI=00AB2A;ARABIC LETTER DYEH FINAL FORM=00FB73" \o
      ";ARABIC LIGATURE YEH WITH HAMZA ABOVE WITH JEEM INITIAL FORM=00FC97;GREEK FOUR OBOLS SIGN=01017F" \o
      ";CAUCASIAN ALBANIAN LETTER CHA=010539;PSALTER PAHLAVI LETTER ALEPH=010B80" \o
      ";MONGOLIAN SWIRL BIRGA WITH ORNAMENT=01166A;AHOM LETTER DA=011713;NANDINAGARI LETTER MA=0119C6" \o
      ";PAU CIN HAU LETTER CHA=011AD4;CUNEIFORM SIGN LAGAB TIMES GA=0121C4" \o
      ";CUNEIFORM SIGN LAK-219=0124E3;CUNEIFORM SIGN LAK-228=0124E6;CUNEIFORM SIGN LAK-390=0124EF" \o
      ";CUNEIFORM SIGN LAK-648 TIMES IGI GUNU=012511;BAMUM LETTER PHASE-A NZA MFON=016807" \o
      ";VIETNAMESE ALTERNATE READING MARK CA=016FF0;BYZANTINE MUSICAL SYMBOL ARKTIKO DI=01D0EC" \o
      ";MATHEMATICAL FRAKTUR SMALL X=01D535;RAISED MD SIGN=01F16B;COOKIE=01F36A;HAMMER=01F528" \o
      ";BASKET=01F9FA",
    ";NO-BREAK SPACE=0000A0;ARMENIAN CAPITAL LETTER TIWN=00054F;ARMENIAN CAPITAL LETTER PIWR=000553" \o
      ";HEBREW MARK UPPER DOT=0005C4;DEVANAGARI LETTER PHA=00092B;DEVANAGARI LETTER LLA=000933" \o
      ";ETHIOPIC SYLLABLE LAA=00120B;ETHIOPIC SYLLABLE DEE=0012F4;CANADIAN SYLLABICS WO=001412" \o
      ";CANADIAN SYLLABICS Y-CREE COO=00148F;BALINESE LETTER IKARA=001B07" \o
      ";BALINESE LETTER ASYURA SASAK=001B4B;LATIN SMALL LETTER UE=001D6B" \o
      ";GREEK CAPITAL LETTER OMEGA WITH PSILI AND VARIA AND PROSGEGRAMMENI=001FAA" \o
      ";UPWARDS WHITE ARROW FROM BAR=0021EA;BLACK SQUARE FOR STOP=0023F9;DIGIT EIGHT FULL STOP=00248F" \o
      ";ANCHOR=002693;SCALES=002696;PENCIL=00270F;GLAGOLITIC CAPITAL LETTER YU=002C23" \o
      ";CJK RADICAL SNOUT TWO=002E95;KANGXI RADICAL ARRIVE=002F84;CIRCLED IDEOGRAPH LOW=0032A6" \o
      ";SQUARE ININGU=003304;YI RADICAL TAT=00A4A0;YI RADICAL BUR=00A4A5;VAI DIGIT FIVE=00A625" \o
      ";VAI DIGIT NINE=00A629;LATIN SMALL LETTER AY=00A73D;MYANMAR SIGN SHAN SAW=00A9E5" \o
      ";HANGUL JUNGSEONG EU-E=00D7BB;ARABIC SYMBOL SMALL TAH ABOVE=00FBC0" \o
      ";ARABIC LETTER SEEN FINAL FORM=00FEB2;HALFWIDTH HANGUL LETTER RIEUL-PIEUP=00FFAC" \o
      ";KHUDAWADI DIGIT THREE=0112F3;MODI LETTER AA=011601;DIVES AKURU LETTER GA=01190E" \o
      ";NANDINAGARI LETTER NA=0119C1;CUNEIFORM SIGN LAGAB TIMES HA=0121C8" \o
      ";CUNEIFORM SIGN URU TIMES ISH=012344;CUNEIFORM SIGN URU TIMES MIN=012347" \o
      ";CUNEIFORM NUMERIC SIGN EIGHT U VARIANT FORM=01246D;CUNEIFORM SIGN LAK-238=0124E7" \o
      ";CUNEIFORM SIGN LAK-265=0124E8;CUNEIFORM SIGN LAK-490=0124FB;CUNEIFORM SIGN LAK-724=012517" \o
      ";MIAO LETTER DA=016F0B;ZNAMENNY NEUME STRELA KRYUKOVAYA GROMNAYA WITH SINGLE ZAPYATAYA=01CFB7" \o
      ";TETRAGRAM FOR PURITY=01D32A;MATHEMATICAL FRAKTUR SMALL Y=01D536" \o
      ";MENDE KIKAKUI SYLLABLE M163 EE=01E825;MENDE KIKAKUI SYLLABLE M016 DI=01E83E" \o
      ";MENDE KIKAKUI SYLLABLE M113 JE=01E84F;MAHJONG TILE EIGHT OF BAMBOOS=01F017" \o
      ";PLAYING CARD KING OF DIAMONDS=01F0CE;DRAGON=01F409;ALCHEMICAL SYMBOL FOR BORAX-2=01F743" \o
      ";ALCHEMICAL SYMBOL FOR SPIRIT=01F747;RIGHTWARDS TRIANGLE-HEADED ARROW WITH MEDIUM SHAFT=01F826" \o
      ";BRIEFS=01FA72",
    ";CURRENCY SIGN=0000A4;COMBINING COMMA BELOW=000326;ARABIC SIGN TAKHALLUS=000614" \o
      ";ARABIC SMALL HIGH JEEM=0006DA;SAMARITAN PUNCTUATION QITSA=000839;THAI CHARACTER SARA AA=000E32" \o
      ";MYANMAR CONSONANT SIGN MON MEDIAL LA=001060;ETHIOPIC SYLLABLE MAA=00121B" \o
      ";ETHIOPIC SYLLABLE GLOTTAL WA=0012A7;ETHIOPIC SYLLABLE GGA=001318;BALINESE SIGN REREKAN=001B34" \o
      ";BATAK LETTER I=001BE4;LATIN SMALL LETTER U WITH HORN AND DOT BELOW=001EF1" \o
      ";GREEK SMALL LETTER OMEGA WITH DASIA AND PERISPOMENI=001F67;ANGSTROM SIGN=00212B" \o
      ";LEFTWARDS HARPOON WITH BARB UPWARDS=0021BC;UPWARDS HARPOON WITH BARB LEFTWARDS=0021BF" \o
      ";RING OPERATOR=002218;BOX DRAWINGS VERTICAL SINGLE AND HORIZONTAL DOUBLE=00256A" \o
      ";BOX DRAWINGS VERTICAL DOUBLE AND HORIZONTAL SINGLE=00256B;CASTLE=0026EB" \o
      ";GLAGOLITIC SMALL LETTER HERU=002C48;COPTIC CAPITAL LETTER OLD NUBIAN NYI=002CE0" \o
      ";ETHIOPIC SYLLABLE CCI=002DAA;COMBINING CYRILLIC LETTER VE=002DE1;INVERTED INTERROBANG=002E18" \o
      ";KANGXI RADICAL WEAPON=002F4E;KANGXI RADICAL BITTER=002F9F;YI RADICAL GOT=00A4B6" \o
      ";CHAM LETTER RA=00AA23;HANGUL JONGSEONG MIEUM-CIEUC=00D7E2" \o
      ";ARABIC LIGATURE NOON WITH JEEM WITH ALEF MAKSURA FINAL FORM=00FD99" \o
      ";ARABIC LIGATURE ALAYHE ISOLATED FORM=00FDF7;VARIATION SELECTOR-10=00FE09" \o
      ";OLD PERMIC LETTER VER=01036E;NABATAEAN LETTER AYIN=010897;SHARADA VOWEL SIGN UU=0111B7" \o
      ";MODI LETTER BA=011624;MODI DIGIT ONE=011651;WARANG CITI CAPITAL LETTER DA=0118B4" \o
      ";DIVES AKURU LETTER HA=01192D;ZANABAZAR SQUARE SIGN VIRAMA=011A34;BHAIKSUKI LETTER DDHA=011C1B" \o
      ";CUNEIFORM SIGN LAK-266=0124E9;CUNEIFORM SIGN LAK-347=0124EB;CUNEIFORM SIGN LAK-383=0124ED" \o
      ";CUNEIFORM SIGN LAK-608=012500;CUNEIFORM SIGN LAK-617=012501" \o
      ";BYZANTINE MUSICAL SYMBOL SEISMA NEO=01D069" \o
      ";BYZANTINE MUSICAL SYMBOL MARTYRIA PLAGIOS TETARTOS ICHOS=01D0B3" \o
      ";MATHEMATICAL FRAKTUR SMALL Z=01D537;SIGNWRITING HAND-ANGLE INDEX=01D805" \o
      ";SIGNWRITING HAND-FIST LITTLE TOUCHES THUMB=01D899;SIGNWRITING SQUEEZE SMALL MULTIPLE=01D919" \o
      ";SIGNWRITING MOVEMENT-WALLPLANE WRIST CIRCLE FRONT DOUBLE=01D9EE" \o
      ";MENDE KIKAKUI SYLLABLE M001 KI=01E800;MENDE KIKAKUI SYLLABLE M026 LA=01E837" \o
      ";OTTOMAN SIYAQ ALTERNATE NUMBER FIVE=01ED32;OTTOMAN SIYAQ ALTERNATE NUMBER NINE=01ED36" \o
      ";PLAYING CARD FIVE OF DIAMONDS=01F0C5;PLAYING CARD NINE OF DIAMONDS=01F0C9" \o
      ";SQUARED ONE HUNDRED TWENTY P=01F1A4;RIBBON=01F380;FOLDER=01F5C0" \o
      ";ALCHEMICAL SYMBOL FOR CROCUS OF IRON=01F71E;ALCHEMICAL SYMBOL FOR BORAX-3=01F744;MAGNET=01F9F2" \o
      ";TAG CIRCUMFLEX ACCENT=0E005E",
    ";CYRILLIC CAPITAL LETTER TSHE=00040B;THAANA EBEFILI=0007AC" \o
      ";ARABIC LETTER LAM WITH SMALL ARABIC LETTER TAH ABOVE=0008C7;DEVANAGARI LETTER RHA=00095D" \o
      ";TIBETAN SUBJOINED LETTER ZHA=000FAE;MYANMAR VOWEL SIGN AI=001032" \o
      ";MYANMAR CONSONANT SIGN MON MEDIAL MA=00105F;ETHIOPIC SYLLABLE NAA=001293" \o
      ";ETHIOPIC SYLLABLE CHE=00132D;ETHIOPIC SYLLABLE FEE=00134C;CANADIAN SYLLABICS YO=00152A" \o
      ";BUHID LETTER A=001740;MONGOLIAN LETTER ALI GALI NGA=00188A;CANADIAN SYLLABICS OY=0018B0" \o
      ";COMBINING INVERTED DOUBLE ARCH ABOVE=001AC7;LATIN CAPITAL LETTER MIDDLE-WELSH LL=001EFA" \o
      ";FOUR DOT PUNCTUATION=002058;SPESMILO SIGN=0020B7;VULGAR FRACTION FIVE EIGHTHS=00215D" \o
      ";BOX DRAWINGS HEAVY VERTICAL AND LEFT=00252B;BOX DRAWINGS DOUBLE VERTICAL=002551;PALLAS=0026B4" \o
      ";CHURCH=0026EA;SMASH PRODUCT=002A33;TRIPLE VERTICAL BAR WITH HORIZONTAL STROKE=002AF5" \o
      ";HIRAGANA DIGRAPH YORI=00309F;CIRCLED IDEOGRAPH SIX=003285;YI SYLLABLE BA=00A020" \o
      ";YI RADICAL VEP=00A4B1;VAI SYLLABLE E=00A5E1;LATIN SMALL LETTER IS=00A76D" \o
      ";LATIN CAPITAL LETTER REVERSED OPEN E=00A7AB;CHAM LETTER SA=00AA27" \o
      ";ARABIC LIGATURE YEH WITH HAMZA ABOVE WITH MEEM INITIAL FORM=00FC9A;VARIATION SELECTOR-11=00FE0A" \o
      ";OLD PERMIC LETTER YAT=010371;NABATAEAN LETTER RESH=01089B;NABATAEAN LETTER SHIN=01089D" \o
      ";NEWA LETTER AA=011401;MODI LETTER CA=011613;AHOM LETTER GA=011715;NANDINAGARI LETTER PA=0119C2" \o
      ";BHAIKSUKI DIGIT EIGHT=011C58;CUNEIFORM SIGN GA2 TIMES SHID=0120E7" \o
      ";CUNEIFORM SIGN LAGAB TIMES BI=0121C1;CUNEIFORM SIGN USH TIMES KUR=012354" \o
      ";CUNEIFORM SIGN LAK-348=0124EC;CUNEIFORM SIGN LAK-384=0124EE;CUNEIFORM SIGN LAK-483=0124FA" \o
      ";CUNEIFORM SIGN LAK-492=0124FC;CUNEIFORM SIGN LAK-636=01250C;MEDEFAIDRIN DIGIT SIX=016E86" \o
      ";MIAO LETTER FA=016F07;BYZANTINE MUSICAL SYMBOL ARKTIKO KE=01D0ED" \o
      ";MUSICAL SYMBOL FERMATA BELOW=01D111;MATHEMATICAL BOLD CAPITAL CHI=01D6BE" \o
      ";SIGNWRITING ROTATION-WALLPLANE DOUBLE HITTING FRONT WALL=01D9AB" \o
      ";MENDE KIKAKUI SYLLABLE M020 SA=01E82F;MENDE KIKAKUI SYLLABLE M029 JA=01E84C" \o
      ";MENDE KIKAKUI SYLLABLE M034 FI=01E85A;OTTOMAN SIYAQ NUMBER TWENTY=01ED0B" \o
      ";MAHJONG TILE EIGHT OF CIRCLES=01F020;FACE SCREAMING IN FEAR=01F631;DRUM WITH DRUMSTICKS=01F941" \o
      ";CURLING STONE=01F94C;MECHANICAL LEG=01F9BF;PINATA=01FA85;PALM DOWN HAND=01FAF3" \o
      ";VARIATION SELECTOR-20=0E0103",
    ";LATIN SMALL LETTER L WITH BAR=00019A;MODIFIER LETTER TURNED COMMA=0002BB" \o
      ";SYRIAC LETTER GAMAL GARSHUNI=000714;DEVANAGARI LETTER SHA=000936;GUJARATI VOWEL SIGN I=000ABF" \o
      ";TIBETAN KU RU KHA BZHI MIG CAN=000FBF;MYANMAR CONSONANT SIGN MON MEDIAL NA=00105E" \o
      ";HANGUL CHOSEONG CIEUC=00110C;HANGUL JONGSEONG NIEUN-CIEUC=0011AC;ETHIOPIC SYLLABLE HHA=001210" \o
      ";ETHIOPIC SYLLABLE DDI=0012FA;ETHIOPIC SYLLABLE GEE=00130C" \o
      ";RUNIC LETTER SIGEL LONG-BRANCH-SOL S=0016CB;KHMER SIGN BATHAMASAT=0017D3" \o
      ";LATIN SMALL LETTER TOP HALF O=001D16;GREEK SMALL LETTER ALPHA WITH PSILI AND OXIA=001F04" \o
      ";COMBINING ANTICLOCKWISE ARROW ABOVE=0020D4;CIRCLED NUMBER ELEVEN=00246A;SHINTO SHRINE=0026E9" \o
      ";LONG LEFT TACK=0027DE;COPTIC SMALL LETTER OLD COPTIC SHIMA=002CDB;KANGXI RADICAL CORPSE=002F2B" \o
      ";KANGXI RADICAL TURBAN=002F31;HANGUL LETTER KAPYEOUNPIEUP=003178" \o
      ";CIRCLED NUMBER FORTY ON BLACK SQUARE=00324B;HEXAGRAM FOR INCREASE=004DE9;YI SYLLABLE CA=00A2B8" \o
      ";YI RADICAL CYP=00A494;YI RADICAL MOP=00A49C;VAI SYMBOL FAA=00A618;CHAM LETTER TA=00AA13" \o
      ";CHAM DIGIT SIX=00AA56;ARABIC LIGATURE DAD WITH KHAH WITH MEEM INITIAL FORM=00FD70" \o
      ";VARIATION SELECTOR-12=00FE0B;PSALTER PAHLAVI LETTER GIMEL=010B82" \o
      ";OLD TURKIC LETTER ORKHON ENY=010C2A;NEWA LETTER BA=011427;NEWA DIGIT ONE=011451" \o
      ";MODI LETTER DA=01161F;AHOM LETTER HA=011711;DOGRA LETTER A=011800;DIVES AKURU LETTER JA=011913" \o
      ";NANDINAGARI LETTER II=0119A3;CUNEIFORM SIGN KA TIMES BALAG=01215D" \o
      ";CUNEIFORM SIGN PIRIG OPPOSING PIRIG=01228E;CUNEIFORM SIGN URU TIMES DUN=01233B" \o
      ";CUNEIFORM SIGN LAK-457=0124F8;CUNEIFORM SIGN LAK-493=0124FD;MIAO LETTER GA=016F1F" \o
      ";BYZANTINE MUSICAL SYMBOL ARKTIKO PA=01D0E9;MUSICAL SYMBOL VOID NOTEHEAD=01D157" \o
      ";MENDE KIKAKUI SYLLABLE M097 BE=01E81F;MENDE KIKAKUI SYLLABLE M075 FE=01E85E" \o
      ";CONTROL KNOBS=01F39B;MEDIUM EIGHT SPOKED ASTERISK=01F7BC;BUCKET=01FAA3" \o
      ";SEGMENTED DIGIT EIGHT=01FBF8;VARIATION SELECTOR-21=0E0104;VARIATION SELECTOR-30=0E010D",
    ";LATIN SMALL LETTER HV=000195;LATIN SMALL LETTER DZ=0001F3" \o
      ";CYRILLIC SMALL LETTER SEMISOFT SIGN=00048D;CYRILLIC CAPITAL LETTER HA WITH HOOK=0004FC" \o
      ";DEVANAGARI LETTER NNA=000923;DEVANAGARI LETTER THA=000925;DEVANAGARI DIGIT FOUR=00096A" \o
      ";HANGUL JUNGSEONG EO-O=00117A;HANGUL JUNGSEONG O-EO=00117F;HANGUL JUNGSEONG I-YA=001199" \o
      ";HANGUL JUNGSEONG I-EU=00119C;ETHIOPIC SYLLABLE HEE=001204;ETHIOPIC SYLLABLE PAA=001353" \o
      ";CANADIAN SYLLABICS SW=001507;BUGINESE VOWEL SIGN O=001A1A;DECIMAL SEPARATOR KEY SYMBOL=002396" \o
      ";RIGHT-SHADED WHITE RIGHTWARDS ARROW=0027A9;LEFT FISH TAIL=00297C;UNITED SYMBOL=002BFA" \o
      ";GLAGOLITIC SMALL LETTER YATI=002C51;ETHIOPIC SYLLABLE BOA=002D85;CJK RADICAL LAME THREE=002E90" \o
      ";KANGXI RADICAL VALLEY=002F95;CIRCLED HANGUL CIEUC A=003276;CIRCLED IDEOGRAPH SUN=003290" \o
      ";YI SYLLABLE DA=00A109;YI RADICAL JJY=00A4B5" \o
      ";CYRILLIC CAPITAL LETTER IOTIFIED CLOSED LITTLE YUS=00A65C;LATIN SMALL LETTER OO=00A74F" \o
      ";MYANMAR LETTER TAI LAING DDHA=00A9EE;LATIN SMALL LETTER UI=00AB50" \o
      ";ARABIC LIGATURE NOON WITH MEEM WITH ALEF MAKSURA FINAL FORM=00FD9B;VARIATION SELECTOR-13=00FE0C" \o
      ";OLD PERMIC LETTER YER=01036F;NABATAEAN LETTER YODH=01088D" \o
      ";INSCRIPTIONAL PAHLAVI LETTER LAMEDH=010B6B;ELYMAIC LETTER LAMEDH=010FEB;NEWA LETTER CA=011414" \o
      ";WARANG CITI CAPITAL LETTER GA=0118AB;DIVES AKURU LETTER KA=01190C;NANDINAGARI LETTER RA=0119C8" \o
      ";CUNEIFORM SIGN ASHGAB=01203F;CUNEIFORM SIGN DAG KISIM5 TIMES PAP PLUS PAP=012069" \o
      ";CUNEIFORM SIGN LAGAB TIMES AL=0121BD;CUNEIFORM SIGN GA2 TIMES EREN=0124BA" \o
      ";CUNEIFORM SIGN LAK-449=0124F1;BAMUM LETTER PHASE-B TU NSIEE=016868" \o
      ";PAHAWH HMONG CONSONANT PLHAU=016B2A;MEDEFAIDRIN DIGIT ONE ALTERNATE FORM=016E94" \o
      ";MIAO LETTER HA=016F26;MIAO LETTER AH=016F43;MATHEMATICAL ITALIC CAPITAL A=01D434;GOLFER=01F3CC" \o
      ";LIGHTNING MOOD BUBBLE=01F5F1;ALCHEMICAL SYMBOL FOR PURIFY=01F763;VERY BOLD GREEK CROSS=01F7A5" \o
      ";RIGHTWARDS COMPRESSED ARROW=01F83E;RIGHTWARDS RIGHT-SHADED WHITE ARROW=01F8A5" \o
      ";LOTION BOTTLE=01F9F4;VARIATION SELECTOR-22=0E0105;VARIATION SELECTOR-31=0E010E" \o
      ";VARIATION SELECTOR-40=0E0117",
    ";MACRON=0000AF;LATIN SMALL LETTER S WITH SWASH TAIL=00023F" \o
      ";COMBINING DOUBLE VERTICAL LINE ABOVE=00030E;CYRILLIC CAPITAL LETTER EL WITH TAIL=0004C5" \o
      ";ARMENIAN CAPITAL LETTER YIWN=000552;HEBREW POINT SHIN DOT=0005C1" \o
      ";ARABIC LETTER HAH WITH SMALL ARABIC LETTER TAH BELOW=00076E;NKO LETTER DAGBASINNA=0007D1" \o
      ";KANNADA SIGN ANUSVARA=000C82;MALAYALAM SIGN VIRAMA=000D4D;THAI CHARACTER SARA AE=000E41" \o
      ";HANGUL CHOSEONG KAPYEOUNSSANGPIEUP=00112C;ETHIOPIC SYLLABLE QAA=001243" \o
      ";ETHIOPIC SYLLABLE GGE=00131D;MONGOLIAN LETTER ALI GALI PHA=001893" \o
      ";BLACK DOWN-POINTING TRIANGLE=0025BC;ETHIOPIC SYLLABLE COA=002D87" \o
      ";COMBINING CYRILLIC LETTER ZE=002DE5;CYRILLIC CAPITAL LETTER SHWE=00A696" \o
      ";MYANMAR TAI LAING DIGIT EIGHT=00A9F8;CHAM LETTER VA=00AA25;ETHIOPIC SYLLABLE BBO=00AB2E" \o
      ";ARABIC LETTER E ISOLATED FORM=00FBE4;VARIATION SELECTOR-14=00FE0D;NABATAEAN LETTER TETH=01088B" \o
      ";NABATAEAN LETTER FINAL LAMEDH=010890;NABATAEAN NUMBER FOUR=0108AA;PHOENICIAN LETTER KAF=01090A" \o
      ";OLD NORTH ARABIAN LETTER ALEF=010A91;INSCRIPTIONAL PAHLAVI LETTER WAW-AYIN-RESH=010B65" \o
      ";PSALTER PAHLAVI SECTION MARK=010B99;SOGDIAN LETTER LAMEDH=010F39;NEWA LETTER DA=011421" \o
      ";SIDDHAM SEPARATOR BAR=0115C5;AHOM LETTER JA=01170A;DIVES AKURU LETTER LA=011928" \o
      ";NANDINAGARI LETTER SA=0119CD;CUNEIFORM SIGN LU2 TIMES ESH2=012200;CUNEIFORM SIGN LAK-495=0124FE" \o
      ";CUNEIFORM SIGN LAK-648=01250D;ZNAMENNY NEUME KRYUK=01CF50" \o
      ";BYZANTINE MUSICAL SYMBOL MARTYRIA TETARTOS LEGETOS ICHOS=01D0A9;TETRAGRAM FOR ADVANCE=01D319" \o
      ";MATHEMATICAL ITALIC CAPITAL B=01D435;SIGNWRITING HAND-HINGE INDEX=01D804" \o
      ";SIGNWRITING EYES HALF CLOSED=01DA1B;MENDE KIKAKUI SYLLABLE M137 EI=01E829" \o
      ";CLOCK FACE FIVE OCLOCK=01F554;CLOCK FACE NINE OCLOCK=01F558;CLOCK FACE SIX-THIRTY=01F561" \o
      ";SCREEN=01F5B5;GRIMACING FACE=01F62C;ALCHEMICAL SYMBOL FOR RETORT=01F76D" \o
      ";XIANGQI BLACK SOLDIER=01FA6D;VARIATION SELECTOR-23=0E0106;VARIATION SELECTOR-32=0E010F" \o
      ";VARIATION SELECTOR-41=0E0118;VARIATION SELECTOR-50=0E0121",
    ";MODIFIER LETTER UP ARROWHEAD=0002C4;COMBINING TILDE BELOW=000330" \o
      ";GREEK RHO WITH STROKE SYMBOL=0003FC;CYRILLIC CAPITAL LETTER EM WITH TAIL=0004CD" \o
      ";MALAYALAM DIGIT SEVEN=000D6D;TIBETAN SUBJOINED LETTER SSA=000FB5;ETHIOPIC SYLLABLE RAA=00122B" \o
      ";ETHIOPIC SYLLABLE JEE=001304;ETHIOPIC SYLLABLE CHI=00132A" \o
      ";CANADIAN SYLLABICS CARRIER INITIAL Z=001647;CANADIAN SYLLABICS R-CREE RWE=0018E0" \o
      ";KHMER SYMBOL PRAM ROC=0019F5;BALINESE LETTER OKARA=001B11" \o
      ";CYRILLIC SMALL LETTER TALL HARD SIGN=001C86;COMBINING SNAKE BELOW=001DC2" \o
      ";GREEK SMALL LETTER OMEGA WITH PSILI AND OXIA=001F64;SUBSCRIPT ONE=002081;EQUIVALENT TO=00224D" \o
      ";SQUARED MINUS=00229F;RIGHT PARENTHESIS EXTENSION=00239F;BRAILLE PATTERN BLANK=002800" \o
      ";UPWARDS TRIPLE ARROW=00290A;UNION WITH LOGICAL OR=002A45;GLAGOLITIC SMALL LETTER YERI=002C50" \o
      ";ETHIOPIC SYLLABLE DOA=002D8C;BOTTOM HALF LEFT PARENTHESIS=002E5B" \o
      ";IDEOGRAPHIC ANNOTATION REVERSE MARK=003191;CIRCLED HANGUL KIYEOK=003260;SQUARE KORUNA=00331D" \o
      ";SQUARE M CUBED=0033A5;YI SYLLABLE BE=00A02A;YI SYLLABLE FA=00A0D3;YI RADICAL SSI=00A495" \o
      ";VAI SYLLABLE I=00A524;HANGUL CHOSEONG TIKEUT-CIEUC=00A963" \o
      ";HEBREW LETTER ALTERNATIVE PLUS SIGN=00FB29;ARABIC LETTER RREH FINAL FORM=00FB8D" \o
      ";ARABIC LETTER YEH BARREE WITH HAMZA ABOVE FINAL FORM=00FBB1" \o
      ";ARABIC LIGATURE KHAH WITH JEEM ISOLATED FORM=00FC19" \o
      ";ARABIC LIGATURE GHAIN WITH JEEM INITIAL FORM=00FCBC;VARIATION SELECTOR-15=00FE0E" \o
      ";PRESENTATION FORM FOR VERTICAL LEFT CORNER BRACKET=00FE41" \o
      ";HALFWIDTH HANGUL LETTER KIYEOK-SIOS=00FFA3;PHOENICIAN LETTER ALF=010900" \o
      ";MANICHAEAN LETTER TAW=010AE4;PSALTER PAHLAVI NUMBER THREE=010BAB" \o
      ";OLD SOGDIAN LETTER FINAL BETH=010F03;COMBINING BINDU BELOW=01133B;GRANTHA VOWEL SIGN OO=01134B" \o
      ";TIRHUTA VOWEL SIGN AA=0114B0;MODI LETTER GA=011610;AHOM LETTER KA=011700" \o
      ";DIVES AKURU LETTER MA=011924;NANDINAGARI LETTER TA=0119BD;CUNEIFORM SIGN HUB2 TIMES HAL=01213A" \o
      ";CUNEIFORM SIGN LAGAB TIMES AN=0121BE;MATHEMATICAL ITALIC CAPITAL C=01D436" \o
      ";SIGNWRITING HAND-HINGE SMALL=01D87E;MENDE KIKAKUI SYLLABLE M012 BU=01E81D" \o
      ";MENDE KIKAKUI SYLLABLE M023 TA=01E845;INDIC SIYAQ FRACTION ONE HALF=01ECAE" \o
      ";ALCHEMICAL SYMBOL FOR SULFUR=01F70D;PRINCE=01F934;FONDUE=01FAD5;VARIATION SELECTOR-24=0E0107" \o
      ";VARIATION SELECTOR-33=0E0110;VARIATION SELECTOR-42=0E0119;VARIATION SELECTOR-51=0E0122" \o
      ";VARIATION SELECTOR-60=0E012B",
    ";COMBINING CARON BELOW=00032C;CYRILLIC CAPITAL LETTER KA WITH HOOK=0004C3" \o
      ";CYRILLIC CAPITAL LETTER EN WITH TAIL=0004C9;SYRIAC LETTER YUDH HE=00071E;NKO LETTER GBA=0007DC" \o
      ";TIBETAN SUBJOINED LETTER NYA=000F99;TIBETAN SUBJOINED LETTER TSA=000FA9" \o
      ";ETHIOPIC SYLLABLE HHE=001215;ETHIOPIC SYLLABLE SAA=001233;ETHIOPIC SYLLABLE KEE=0012AC" \o
      ";RUNIC LETTER TIWAZ TIR TYR T=0016CF;KHMER SYMBOL PII KOET=0019E2" \o
      ";COMBINING LATIN SMALL LETTER R BELOW=001DCA;FORCES=0022A9;DIGIT THREE FULL STOP=00248A" \o
      ";SHADOWED WHITE CIRCLE=00274D;PLUS SIGN IN TRIANGLE=002A39" \o
      ";LATIN SMALL LETTER V WITH RIGHT HOOK=002C71;ETHIOPIC SYLLABLE CCO=002DAE;SQUARE GURAMU=003318" \o
      ";HEXAGRAM FOR TREADING=004DC9;HEXAGRAM FOR APPROACH=004DD2;YI SYLLABLE GA=00A1E4" \o
      ";YI SYLLABLE CE=00A2C2;YI RADICAL CYT=00A4A3;HANGUL JONGSEONG PIEUP-CIEUC=00D7E8" \o
      ";HANGUL JONGSEONG CIEUC-PIEUP=00D7F7;VARIATION SELECTOR-16=00FE0F" \o
      ";ARABIC LETTER ZAIN FINAL FORM=00FEB0;CAUCASIAN ALBANIAN LETTER CHI=01054A" \o
      ";CAUCASIAN ALBANIAN LETTER FAM=010554;KHAROSHTHI PUNCTUATION DOUBLE DANDA=010A57" \o
      ";SIDDHAM VOWEL SIGN UU=0115B3;MODI LETTER HA=01162E;AHOM LETTER LA=01170E" \o
      ";AHOM CONSONANT SIGN MEDIAL LA=01171D;DOGRA LETTER E=011806;DIVES AKURU LETTER NA=01191F" \o
      ";NANDINAGARI LETTER AU=0119AD;ZANABAZAR SQUARE LETTER DZHA=011A26;PAU CIN HAU LETTER KHA=011ACA" \o
      ";TAMIL SIGN VAKAIYARAA=011FF1;CUNEIFORM SIGN LAGAB TIMES GI=012388;CUNEIFORM SIGN LAK-749=012518" \o
      ";CUNEIFORM SIGN LU2 TIMES TAK4=01251E;PAHAWH HMONG NUMBER MILLIONS=016B5E;MIAO LETTER KA=016F1E" \o
      ";KATAKANA LETTER MINNAN TONE-2=01AFF0;ZNAMENNY NEUME KRYZH=01CF81" \o
      ";BYZANTINE MUSICAL SYMBOL OLIGON NEO=01D047;MUSICAL SYMBOL KIEVAN EIGHTH NOTE STEM DOWN=01D1E6" \o
      ";MATHEMATICAL ITALIC CAPITAL D=01D437;SIGNWRITING HAND-FLAT HEEL FIVE FINGERS SPREAD BENT=01D851" \o
      ";SIGNWRITING DYNAMIC ARROWHEAD LARGE=01D9F6;COMBINING GLAGOLITIC LETTER IOTATED BIG YUS=01E029" \o
      ";MENDE KIKAKUI SYLLABLE M073 LE=01E83A;MENDE KIKAKUI SYLLABLE M155 GI=01E883" \o
      ";MENDE KIKAKUI SYLLABLE M051 PE=01E890;MAHJONG TILE THREE OF BAMBOOS=01F012;GRAPES=01F347" \o
      ";FAMILY=01F46A;VARIATION SELECTOR-25=0E0108;VARIATION SELECTOR-34=0E0111" \o
      ";VARIATION SELECTOR-43=0E011A;VARIATION SELECTOR-52=0E0123;VARIATION SELECTOR-61=0E012C" \o
      ";VARIATION SELECTOR-70=0E0135",
    ";QUESTION MARK=00003F;OGONEK=0002DB;COMBINING BREVE BELOW=00032E" \o
      ";CYRILLIC CAPITAL LETTER I WITH GRAVE=00040D;NKO DIGIT FIVE=0007C5;NKO DIGIT NINE=0007C9" \o
      ";SAMARITAN LETTER KAAF=00080A;DEVANAGARI DIGIT ZERO=000966;LAO SEMIVOWEL SIGN LO=000EBC" \o
      ";TIBETAN VOWEL SIGN OO=000F7D;TIBETAN SUBJOINED LETTER TTA=000F9A;TIBETAN SYMBOL NOR BU=000FC9" \o
      ";ETHIOPIC SYLLABLE LEE=00120C;ETHIOPIC SYLLABLE TAA=001273;CANADIAN SYLLABICS Y-CREE KOO=001471" \o
      ";SUBSCRIPT RIGHT PARENTHESIS=00208E;VULGAR FRACTION THREE FIFTHS=002157" \o
      ";WHITE RIGHT-POINTING SMALL TRIANGLE=0025B9;THREE LINES CONVERGING RIGHT=00269E;CHIRON=0026B7" \o
      ";RIGHT DOUBLE ARROW WITH ROUNDED HEAD=002970;CIRCULATION FUNCTION=002A10;DOUBLE UP TACK=002AEB" \o
      ";GLAGOLITIC SMALL LETTER BUKY=002C31;DOTTED TRANSPOSITION MARKER=002E08" \o
      ";KANGXI RADICAL SQUARE=002F45;CIRCLED IDEOGRAPH TWO=003281;SQUARE HUIITO=003333" \o
      ";YI SYLLABLE DE=00A112;YI SYLLABLE HA=00A273;COMBINING CYRILLIC LETTER YI=00A676" \o
      ";CYRILLIC CAPITAL LETTER DZWE=00A682;BAMUM LETTER A=00A6A0;LATIN SMALL LETTER UM=00A778" \o
      ";LATIN LETTER SINOLOGICAL DOT=00A78F;CHAM LETTER YA=00AA22;HANGUL JUNGSEONG I-YE=00D7C0" \o
      ";HANGUL JONGSEONG RIEUL-KIYEOK-HIEUH=00D7D6;GREEK ACROPHONIC ATTIC FIVE HUNDRED STATERS=010153" \o
      ";NABATAEAN LETTER QOPH=01089A;CHORASMIAN LETTER CURLED WAW=010FB7;KHUDAWADI SIGN VIRAMA=0112EA" \o
      ";NEWA LETTER GA=011410;MODI LETTER AI=01160B;AHOM LETTER MA=011709;NANDINAGARI LETTER VA=0119CA" \o
      ";BHAIKSUKI HUNDREDS UNIT MARK=011C6C;MEDEFAIDRIN DIGIT TWO=016E82;MIAO LETTER LA=016F16" \o
      ";KATAKANA LETTER MINNAN TONE-3=01AFF1;MATHEMATICAL ITALIC CAPITAL E=01D438" \o
      ";MATHEMATICAL BOLD CAPITAL ETA=01D6AE;MATHEMATICAL BOLD SMALL LAMDA=01D6CC" \o
      ";SIGNWRITING MOVEMENT-WALLPLANE WRIST CIRCLE FRONT SINGLE=01D9ED" \o
      ";SIGNWRITING EYEBROWS STRAIGHT DOWN=01DA0C;MENDE KIKAKUI SYLLABLE M131 IN=01E82A" \o
      ";MENDE KIKAKUI SYLLABLE M025 LI=01E836;MENDE KIKAKUI SYLLABLE M096 HE=01E86C" \o
      ";MENDE KIKAKUI SYLLABLE M140 HO=01E86E;MENDE KIKAKUI SYLLABLE M171 RA=01E8AD;CACTUS=01F335" \o
      ";POODLE=01F429;LEFTWARDS BOTTOM-SHADED WHITE ARROW=01F8A0;CARPENTRY SAW=01FA9A" \o
      ";VARIATION SELECTOR-17=0E0100;VARIATION SELECTOR-26=0E0109;VARIATION SELECTOR-35=0E0112" \o
      ";VARIATION SELECTOR-44=0E011B;VARIATION SELECTOR-53=0E0124;VARIATION SELECTOR-62=0E012D" \o
      ";VARIATION SELECTOR-71=0E0136;VARIATION SELECTOR-80=0E013F",
    ";ARABIC LETTER YEH BARREE WITH EXTENDED ARABIC-INDIC DIGIT TWO ABOVE=00077A" \o
      ";NKO LETTER CHA=0007D7;SAMARITAN LETTER ALAF=000800;BENGALI SIGN ANUSVARA=000982" \o
      ";GUJARATI VOWEL SIGN O=000ACB;MALAYALAM LETTER LLLA=000D34;ETHIOPIC SYLLABLE MEE=00121C" \o
      ";ETHIOPIC SYLLABLE DDO=0012FE;ETHIOPIC SYLLABLE GOA=00130F;ETHIOPIC SYLLABLE GGI=00131A" \o
      ";CANADIAN SYLLABICS Y-CREE LOO=0014D9;MONGOLIAN LETTER ALI GALI NNA=00188F;CRUZEIRO SIGN=0020A2" \o
      ";RIGHTWARDS OPEN-HEADED ARROW=0021FE;MODELS=0022A7;CIRCLED TRIANGLE DOWN=00238A" \o
      ";MALE WITH STROKE SIGN=0026A6;BLACK QUESTION MARK ORNAMENT=002753;LONG LEFT RIGHT ARROW=0027F7" \o
      ";NORTH EAST ARROW CROSSING NORTH WEST ARROW=002931" \o
      ";NORTH WEST ARROW CROSSING NORTH EAST ARROW=002932;CUPIDO=002BE0" \o
      ";COPTIC CAPITAL LETTER OLD COPTIC OOU=002CBE;TIFINAGH LETTER YADDH=002D3A" \o
      ";KANGXI RADICAL TONGUE=002F86;KANGXI RADICAL TRIPOD=002FCD;CHAM DIGIT TWO=00AA52" \o
      ";ARABIC LETTER NYEH FINAL FORM=00FB77;ARABIC LIGATURE KHAH WITH MEEM ISOLATED FORM=00FC1B" \o
      ";ARABIC LIGATURE MEEM WITH KHAH ISOLATED FORM=00FC47" \o
      ";ARABIC LIGATURE GHAIN WITH MEEM INITIAL FORM=00FCBD" \o
      ";ARABIC LIGATURE GHAIN WITH MEEM WITH MEEM FINAL FORM=00FD79;AEGEAN NUMBER FORTY THOUSAND=01012E" \o
      ";CAUCASIAN ALBANIAN LETTER CAR=010542;MEROITIC CURSIVE NUMBER SIX HUNDRED=0109D7" \o
      ";KHAROSHTHI SIGN CAUDA=010A39;OLD NORTH ARABIAN LETTER KHAH=010A8D;MANICHAEAN LETTER WAW=010AC7" \o
      ";KHUDAWADI DIGIT SEVEN=0112F7;NEWA LETTER HA=011434;MODI LETTER JA=011615;AHOM LETTER NA=011703" \o
      ";DIVES AKURU LETTER PA=011920;PAU CIN HAU LETTER NGA=011AC7;BHAIKSUKI DIGIT THREE=011C53" \o
      ";CUNEIFORM SIGN LAGAB TIMES ME=0121D8;CUNEIFORM SIGN GA2 TIMES ZIZ2=0124C8" \o
      ";PAHAWH HMONG CLAN SIGN TSHEEJ=016B7D;MIAO LETTER MA=016F04;KATAKANA LETTER MINNAN TONE-4=01AFF2" \o
      ";ZNAMENNY COMBINING TONAL RANGE MARK MRACHNO=01CF30;BYZANTINE MUSICAL SYMBOL ARKTIKO NI=01D0EF" \o
      ";MATHEMATICAL ITALIC CAPITAL F=01D439;SIGNWRITING HAND-OVAL THUMB FORWARD=01D87A" \o
      ";SIGNWRITING HAND-CIRCLE INDEX MIDDLE LITTLE=01D8A5" \o
      ";SIGNWRITING MOVEMENT-WALLPLANE CHECK SMALL=01D93F" \o
      ";SIGNWRITING ROTATION-WALLPLANE SINGLE HITTING FRONT WALL=01D9AA" \o
      ";SIGNWRITING MOVEMENT-FLOORPLANE WAVE HITTING FLOOR SMALL=01D9D0" \o
      ";SIGNWRITING SHOULDER HIP POSITIONS=01DA6E;COMBINING GLAGOLITIC LETTER ZHIVETE=01E006" \o
      ";MENDE KIKAKUI SYLLABLE M005 WA=01E809;MENDE KIKAKUI SYLLABLE M138 BO=01E821" \o
      ";MENDE KIKAKUI SYLLABLE M181 DO=01E843;MENDE KIKAKUI SYLLABLE M028 JI=01E84B" \o
      ";MAHJONG TILE THREE OF CIRCLES=01F01B;TICKET=01F3AB" \o
      ";SOLID QUILT SQUARE ORNAMENT IN BLACK SQUARE=01F66B;VARIATION SELECTOR-18=0E0101" \o
      ";VARIATION SELECTOR-27=0E010A;VARIATION SELECTOR-36=0E0113;VARIATION SELECTOR-45=0E011C" \o
      ";VARIATION SELECTOR-54=0E0125;VARIATION SELECTOR-63=0E012E;VARIATION SELECTOR-72=0E0137" \o
      ";VARIATION SELECTOR-81=0E0140;VARIATION SELECTOR-90=0E0149",
    ";LATIN SMALL LETTER OU=000223;THAANA IBIFILI=0007A8;DEVANAGARI LETTER OOE=000974" \o
      ";DEVANAGARI LETTER ZHA=000979;KANNADA AI LENGTH MARK=000CD6;KANNADA VOWEL SIGN VOCALIC LL=000CE3" \o
      ";MYANMAR VOWEL SIGN II=00102E;GEORGIAN LETTER ELIFI=0010F8;HANGUL JUNGSEONG YA-O=001178" \o
      ";HANGUL JUNGSEONG EO-U=00117B;HANGUL JUNGSEONG O-YA=0011A6;ETHIOPIC SYLLABLE HOA=001207" \o
      ";ETHIOPIC SYLLABLE VAA=00126B;ETHIOPIC SYLLABLE NEE=001294;CANADIAN SYLLABICS Y-CREE MOO=0014A9" \o
      ";CANADIAN SYLLABICS CARRIER GA=0015F4;RUNIC LETTER PERTHO PEORTH P=0016C8;BUHID LETTER I=001741" \o
      ";KHMER SYMBOL BUON ROC=0019F4;BUGINESE VOWEL SIGN U=001A18;LATIN LETTER SMALL CAPITAL AE=001D01" \o
      ";PER TEN THOUSAND SIGN=002031;DELTA EQUAL TO=00225C;GREATER-THAN WITH DOT=0022D7" \o
      ";BOX DRAWINGS LIGHT UP=002575;RIGHTWARDS DOUBLE DASH ARROW=00290D" \o
      ";PARENTHESIZED IDEOGRAPH CALL=00323A;YI SYLLABLE BI=00A018;NORTH INDIC FRACTION ONE HALF=00A831" \o
      ";LATIN SMALL LETTER UO=00AB63;HANGUL JUNGSEONG YO-A=00D7B2;HANGUL JUNGSEONG EU-O=00D7BC" \o
      ";LATIN SMALL LIGATURE LONG S T=00FB05;ARABIC LETTER TTEH FINAL FORM=00FB67" \o
      ";ARABIC LETTER NG INITIAL FORM=00FBD5" \o
      ";ARABIC LIGATURE SHADDA WITH SUPERSCRIPT ALEF ISOLATED FORM=00FC63" \o
      ";HALFWIDTH KATAKANA VOICED SOUND MARK=00FF9E;LINEAR B IDEOGRAM B240 WHEELED CHARIOT=0100CC" \o
      ";NEWA LETTER AI=01140B;MODI LETTER KA=01160E;WARANG CITI CAPITAL LETTER AM=0118B6" \o
      ";WARANG CITI OM=0118FF;DIVES AKURU LETTER II=011903;CUNEIFORM SIGN LAGAB TIMES EN=0121C3" \o
      ";CUNEIFORM SIGN LAGAB TIMES NE=0121DB;CUNEIFORM SIGN URU TIMES LUM=012346" \o
      ";CUNEIFORM SIGN EZEN SHESHIG TIMES LA=0124B0;BAMUM LETTER PHASE-C MBEEKEET=016897" \o
      ";PAHAWH HMONG CONSONANT NTHAU=016B2B;MIAO LETTER NA=016F10;KATAKANA LETTER MINNAN TONE-5=01AFF3" \o
      ";BYZANTINE MUSICAL SYMBOL YPOKRISIS=01D00A;MUSICAL SYMBOL COMBINING RIP=01D186" \o
      ";MATHEMATICAL ITALIC CAPITAL G=01D43A;MENDE KIKAKUI SYLLABLE M095 KE=01E804" \o
      ";MENDE KIKAKUI SYLLABLE M195 AN=01E82C;SQUARED KATAKANA KOKO=01F201;SHOOTING STAR=01F320" \o
      ";ALCHEMICAL SYMBOL FOR POWDERED BRICK=01F75A;MECHANICAL ARM=01F9BE;SEGMENTED DIGIT THREE=01FBF3" \o
      ";VARIATION SELECTOR-19=0E0102;VARIATION SELECTOR-28=0E010B;VARIATION SELECTOR-37=0E0114" \o
      ";VARIATION SELECTOR-46=0E011D;VARIATION SELECTOR-55=0E0126;VARIATION SELECTOR-64=0E012F" \o
      ";VARIATION SELECTOR-73=0E0138;VARIATION SELECTOR-82=0E0141;VARIATION SELECTOR-91=0E014A",
    ";LATIN SMALL LETTER DB DIGRAPH=000238;GREEK CAPITAL LETTER UPSILON=0003A5" \o
      ";ARABIC SMALL HIGH SEEN=0006DC;ARABIC LETTER AIN WITH THREE DOTS POINTING DOWNWARDS ABOVE=00075E" \o
      ";ARABIC CURLY KASRATAN=0008E9;DEVANAGARI SIGN NUKTA=00093C;TAMIL DAY SIGN=000BF3" \o
      ";HANGUL CHOSEONG IEUNG-KIYEOK=001141;HANGUL JONGSEONG MIEUM-HIEUH=0011E1" \o
      ";HANGUL JONGSEONG HIEUH-MIEUM=0011F7;ETHIOPIC SYLLABLE HHI=001212;ETHIOPIC SYLLABLE WAA=0012CB" \o
      ";ETHIOPIC SYLLABLE PHA=001330;CANADIAN SYLLABICS Y-CREE NOO=0014C6;MONGOLIAN DIGIT EIGHT=001818" \o
      ";COMBINING WIDE INVERTED BRIDGE BELOW=001DF9;GREEK CAPITAL LETTER IOTA WITH PSILI=001F38" \o
      ";GREEK SMALL LETTER ALPHA WITH VRACHY=001FB0;STAR OPERATOR=0022C6" \o
      ";LINE INTEGRATION WITH RECTANGULAR PATH AROUND POLE=002A12" \o
      ";LESS-THAN OR SLANTED EQUAL TO WITH DOT ABOVE=002A81" \o
      ";BLACK MEDIUM DOWN-POINTING TRIANGLE CENTRED=002BC6;CJK RADICAL SECOND ONE=002E82" \o
      ";SQUARE MARUKU=003346;HEXAGRAM FOR CONFLICT=004DC5;YI SYLLABLE GE=00A1F0;YI SYLLABLE KA=00A201" \o
      ";YI SYLLABLE CI=00A2B0;YI RADICAL QOT=00A490;YI RADICAL SHY=00A4B0" \o
      ";CYRILLIC CAPITAL LETTER DZZE=00A688;SYLOTI NAGRI LETTER A=00A800;ETHIOPIC SYLLABLE BBU=00AB29" \o
      ";GOTHIC LETTER BAIRKAN=010331;PHOENICIAN LETTER AIN=01090F;OLD NORTH ARABIAN LETTER GEEM=010A94" \o
      ";MANICHAEAN LETTER NUN=010AD7;INSCRIPTIONAL PAHLAVI LETTER DALETH=010B63" \o
      ";ELYMAIC LETTER DALETH=010FE3;SHARADA SIGN ANUSVARA=011181;NEWA LETTER JA=011416" \o
      ";SIDDHAM SECTION MARK WITH RAYS AND DOTTED TRIPLE CRESCENTS=0115CE;MODI LETTER LA=011629" \o
      ";AHOM LETTER PA=011706;DOGRA LETTER I=011802;DIVES AKURU LETTER RA=011927" \o
      ";NANDINAGARI LETTER YA=0119C7;CUNEIFORM SIGN LAGAB TIMES KI=0121CF;CUNEIFORM SIGN SHESH2=0122C1" \o
      ";CUNEIFORM SIGN GA2 TIMES SHIM=0124C7;BAMUM LETTER PHASE-C NTU MBIT=01689A" \o
      ";BAMUM LETTER PHASE-E A=0169D5;MATHEMATICAL ITALIC CAPITAL H=01D43B" \o
      ";MENDE KIKAKUI SYLLABLE M032 YA=01E854;MENDE KIKAKUI SYLLABLE M176 HI=01E868" \o
      ";BACTRIAN CAMEL=01F42B;CLOCK FACE TWO-THIRTY=01F55D;SMILING FACE WITH SUNGLASSES=01F60E" \o
      ";FACE WITH MEDICAL MASK=01F637;LIZARD=01F98E;ZOMBIE=01F9DF;VARIATION SELECTOR-29=0E010C" \o
      ";VARIATION SELECTOR-38=0E0115;VARIATION SELECTOR-47=0E011E;VARIATION SELECTOR-56=0E0127" \o
      ";VARIATION SELECTOR-65=0E0130;VARIATION SELECTOR-74=0E0139;VARIATION SELECTOR-83=0E0142" \o
      ";VARIATION SELECTOR-92=0E014B",
    ";LATIN SMALL LETTER Z WITH SWASH TAIL=000240;CYRILLIC CAPITAL LETTER ER WITH TICK=00048E" \o
      ";CYRILLIC CAPITAL LETTER EL WITH HOOK=000512;DEVANAGARI LETTER RRA=000931" \o
      ";ETHIOPIC SYLLABLE QHA=001250;ETHIOPIC SYLLABLE BWA=001267;ETHIOPIC SYLLABLE XAA=001283" \o
      ";ETHIOPIC SYLLABLE CHO=00132E;ETHIOPIC SYLLABLE PEE=001354;CANADIAN SYLLABICS CARRIER EE=001408" \o
      ";COMBINING LATIN SMALL LETTER W BELOW=001ABF;BALINESE LETTER UKARA=001B09" \o
      ";GREEK SMALL LETTER IOTA WITH PSILI AND VARIA=001F32" \o
      ";GREEK SMALL LETTER ETA WITH VARIA AND YPOGEGRAMMENI=001FC2;LEFT RIGHT WAVE ARROW=0021AD" \o
      ";TRIPLE VERTICAL BAR RIGHT TURNSTILE=0022AA;PISCES=002653" \o
      ";VERTICAL BAR TRIPLE RIGHT TURNSTILE=002AE2;PARALLEL WITH TILDE OPERATOR=002AF3" \o
      ";HEAVY CIRCLED SALTIRE=002B59;UPWARDS TRIANGLE-HEADED ARROW TO BAR=002B71" \o
      ";ETHIOPIC SYLLABLE JOA=002D8E;KANGXI RADICAL SCRIPT=002F42;KANGXI RADICAL MORTAR=002F85" \o
      ";IDEOGRAPHIC TELEGRAPH SYMBOL FOR HOUR EIGHT=003360;YI SYLLABLE DI=00A102;YI SYLLABLE LA=00A1C1" \o
      ";YI SYLLABLE HE=00A27E;VAI SYLLABLE O=00A5BA;CYRILLIC CAPITAL LETTER ZHWE=00A684" \o
      ";SAURASHTRA LETTER VOCALIC LL=00A88B;MYANMAR TAI LAING DIGIT THREE=00A9F3" \o
      ";HEBREW LETTER KAF WITH DAGESH=00FB3B;ARABIC SYMBOL SMALL TAH BELOW=00FBC1" \o
      ";GREEK ACROPHONIC NAXIAN FIVE HUNDRED=010170;GREEK TWO THIRDS SIGN=010177" \o
      ";UGARITIC LETTER LAMDA=01038D;CAUCASIAN ALBANIAN LETTER DAT=010533" \o
      ";MODIFIER LETTER SMALL HENG WITH HOOK=010797;INSCRIPTIONAL PARTHIAN NUMBER ONE THOUSAND=010B5F" \o
      ";OLD HUNGARIAN SMALL LETTER AA=010CC1;NEWA LETTER KA=01140E;MODI LETTER MA=011626" \o
      ";DIVES AKURU LETTER SA=01192C;PAU CIN HAU LETTER PHA=011AD1" \o
      ";TAMIL FRACTION ONE ONE-HUNDRED-AND-SIXTIETH=011FC1;TAMIL SIGN NEL=011FD5" \o
      ";CUNEIFORM SIGN AK TIMES ERIN2=01201E;CUNEIFORM SIGN KA TIMES ERIN2=012160;MIAO LETTER PA=016F00" \o
      ";KATAKANA LETTER MINNAN TONE-7=01AFF5;HENTAIGANA LETTER HA-1=01B09E" \o
      ";ZNAMENNY COMBINING MARK VYSOKO S KHOKHLOM ON RIGHT=01CF17" \o
      ";ZNAMENNY NEUME STATYA S ZAPYATOY I KRYZHEM=01CF89" \o
      ";ZNAMENNY NEUME STATYA S KRYZHEM I ZAPYATOY=01CF8A" \o
      ";ZNAMENNY NEUME MECHIK KLYUCHENEPOSTOYANNY=01CFAB;MUSICAL SYMBOL NULL NOTEHEAD=01D159" \o
      ";MATHEMATICAL ITALIC CAPITAL I=01D43C;MATHEMATICAL BOLD SMALL GAMMA=01D6C4" \o
      ";SIGNWRITING HAND-FIST MIDDLE RAISED KNUCKLE=01D8C8;SIGNWRITING SURFACE SYMBOLS=01D914" \o
      ";SIGNWRITING MOVEMENT-WALLPLANE BEND MEDIUM=01D939;MENDE KIKAKUI SYLLABLE M135 IN=01E82B" \o
      ";MENDE KIKAKUI SYLLABLE M116 SE=01E832;DESERT=01F3DC;WRENCH=01F527;SPIDER=01F577" \o
      ";ANGUISHED FACE=01F627;VARIATION SELECTOR-39=0E0116;VARIATION SELECTOR-48=0E011F" \o
      ";VARIATION SELECTOR-57=0E0128;VARIATION SELECTOR-66=0E0131;VARIATION SELECTOR-75=0E013A" \o
      ";VARIATION SELECTOR-84=0E0143;VARIATION SELECTOR-93=0E014C",
    ";ARABIC DOUBLE RIGHT ARROWHEAD ABOVE WITH DOT=0008FC;TAMIL LETTER A=000B85" \o
      ";SINHALA LETTER AYANNA=000D85;THAI CHARACTER SARA AM=000E33;HANGUL CHOSEONG HIEUH=001112" \o
      ";HANGUL JONGSEONG NIEUN-HIEUH=0011AD;HANGUL JONGSEONG HIEUH-NIEUN=0011F5" \o
      ";ETHIOPIC SYLLABLE QEE=001244;ETHIOPIC SYLLABLE CWA=00127F;ETHIOPIC SYLLABLE KOA=0012AF" \o
      ";ETHIOPIC SYLLABLE YAA=0012EB;CANADIAN SYLLABICS Y-CREE POO=001435" \o
      ";CANADIAN SYLLABICS CARRIER JA=00161B;RUNIC LETTER IWAZ EOH=0016C7;TAI THAM VOWEL SIGN AA=001A63" \o
      ";SUNDANESE DIGIT EIGHT=001BB8;BATAK LETTER U=001BE5;BULLET=002022" \o
      ";LEFT RIGHT ARROW WITH STROKE=0021AE;MEDIUM LEFT-POINTING ANGLE BRACKET ORNAMENT=00276C" \o
      ";ELEMENT OF OPENING DOWNWARDS=002AD9;GLAGOLITIC SMALL LETTER SMALL YUS WITH TAIL=002C55" \o
      ";ETHIOPIC SYLLABLE CCU=002DA9;KANGXI RADICAL OPPOSE=002F87;HANGUL LETTER CHIEUCH=00314A" \o
      ";YI SYLLABLE IE=00A006;YI SYLLABLE MA=00A0B7;YI RADICAL YIT=00A4AE" \o
      ";CYRILLIC CAPITAL LETTER TSSE=00A690;ARABIC LIGATURE SHEEN WITH HAH ISOLATED FORM=00FD0A" \o
      ";ARABIC LIGATURE SHEEN WITH KHAH INITIAL FORM=00FD2F" \o
      ";ARABIC LIGATURE SHEEN WITH MEEM WITH KHAH FINAL FORM=00FD6A" \o
      ";ARABIC LIGATURE FEH WITH KHAH WITH MEEM INITIAL FORM=00FD7D;HALFWIDTH HANGUL LETTER SIOS=00FFB5" \o
      ";OLD SOUTH ARABIAN LETTER ALEF=010A71;CHAKMA MAAYYAA=011134;NEWA LETTER LA=01142E" \o
      ";MODI LETTER NA=011621;AHOM LETTER RA=01170D;AHOM CONSONANT SIGN MEDIAL RA=01171E" \o
      ";DIVES AKURU LETTER TA=01191B;DIVES AKURU DIGIT SIX=011956;CUNEIFORM SIGN DUB TIMES ESH2=01207F" \o
      ";CUNEIFORM SIGN LAGAB TIMES IM=0121CC;CUNEIFORM SIGN LU2 TIMES HI TIMES BAD=012203" \o
      ";CUNEIFORM SIGN KA TIMES HI TIMES ASH2=012382;BAMUM LETTER PHASE-C TITA YUE=0168AE" \o
      ";MIAO LETTER QA=016F21;KATAKANA LETTER MINNAN TONE-8=01AFF6;HENTAIGANA LETTER HA-2=01B09F" \o
      ";MATHEMATICAL ITALIC CAPITAL J=01D43D;SIGNWRITING HAND-FIST THUMB FORWARD=01D8FA" \o
      ";MENDE KIKAKUI SYLLABLE M022 TI=01E844;PLAYING CARD KNIGHT OF SPADES=01F0AC" \o
      ";RAISED MR SIGN=01F16C;SCHOOL=01F3EB;HATCHING CHICK=01F423" \o
      ";SIDEWAYS WHITE RIGHT POINTING INDEX=01F599;ROCKET=01F680;VARIATION SELECTOR-49=0E0120" \o
      ";VARIATION SELECTOR-58=0E0129;VARIATION SELECTOR-67=0E0132;VARIATION SELECTOR-76=0E013B" \o
      ";VARIATION SELECTOR-85=0E0144;VARIATION SELECTOR-94=0E014D",
    ";LATIN LETTER RETROFLEX CLICK=0001C3;COMBINING INVERTED DOUBLE ARCH BELOW=00032B" \o
      ";CYRILLIC CAPITAL LETTER EN WITH HOOK=0004C7;ARABIC-INDIC DIGIT ONE=000661" \o
      ";ARABIC SMALL LOW WORD ISHMAAM=000899;DEVANAGARI LETTER SSA=000937" \o
      ";BENGALI VOWEL SIGN VOCALIC LL=0009E3;LAO DIGIT FOUR=000ED4;HANGUL CHOSEONG SIOS-KHIEUKH=001138" \o
      ";HANGUL JUNGSEONG O-YE=001181;ETHIOPIC SYLLABLE REE=00122C;ETHIOPIC SYLLABLE SHA=001238" \o
      ";ETHIOPIC SYLLABLE ZAA=0012DB;ETHIOPIC SYLLABLE DWA=0012F7;CANADIAN SYLLABICS CARRIER GE=0015F1" \o
      ";NEW TAI LUE DIGIT FIVE=0019D5;NEW TAI LUE DIGIT NINE=0019D9" \o
      ";APL FUNCTIONAL SYMBOL QUAD QUESTION=002370;DENTISTRY SYMBOL LIGHT DOWN AND HORIZONTAL=0023C9" \o
      ";SLANTED NORTH ARROW WITH HOOKED HEAD=002B5A;ETHIOPIC SYLLABLE LOA=002D80" \o
      ";CIRCLED HANGUL HIEUH A=00327B;YI SYLLABLE FI=00A0CF;YI SYLLABLE NA=00A185;YI RADICAL LYR=00A49A" \o
      ";MODIFIER LETTER CHINESE TONE YANG QU=00A705;TAI VIET SYMBOL NUENG=00AADC" \o
      ";ARABIC LIGATURE JEEM WITH MEEM ISOLATED FORM=00FC16" \o
      ";ARABIC LIGATURE MEEM WITH JEEM ISOLATED FORM=00FC45" \o
      ";PRESENTATION FORM FOR VERTICAL LEFT SQUARE BRACKET=00FE47;FULLWIDTH LEFT CURLY BRACKET=00FF5B" \o
      ";CAUCASIAN ALBANIAN LETTER BET=010531;CAUCASIAN ALBANIAN LETTER LAN=01053E" \o
      ";PHOENICIAN LETTER BET=010901;PHOENICIAN NUMBER ONE=010916;NEWA LETTER MA=011429" \o
      ";TIRHUTA VOWEL SIGN AI=0114BB;AHOM LETTER SA=01170F;WARANG CITI CAPITAL LETTER II=0118A6" \o
      ";WARANG CITI SMALL LETTER NGAA=0118C0;CUNEIFORM SIGN GIR3 TIMES IGI=01210D" \o
      ";CUNEIFORM SIGN NUN LAGAR TIMES SAL OVER NUN LAGAR TIMES SAL=012267" \o
      ";CUNEIFORM SIGN EZEN SHESHIG TIMES HI=0124AE;EGYPTIAN HIEROGLYPH INSERT AT BOTTOM START=013433" \o
      ";MRO DIGIT FIVE=016A65;MRO DIGIT NINE=016A69;HENTAIGANA LETTER HA-3=01B0A0" \o
      ";MATHEMATICAL ITALIC CAPITAL K=01D43E" \o
      ";SIGNWRITING HAND-FIST INDEX MIDDLE CONJOINED CUPPED THUMB FORWARD=01D835" \o
      ";MENDE KIKAKUI SYLLABLE M018 DU=01E840;MENDE KIKAKUI SYLLABLE M030 JU=01E84D" \o
      ";MENDE KIKAKUI SYLLABLE M063 JO=01E851;OTTOMAN SIYAQ NUMBER EIGHT THOUSAND=01ED23" \o
      ";ROUNDED SYMBOL FOR FU=01F260;LEFTWARDS ARROW WITH EQUILATERAL ARROWHEAD=01F814" \o
      ";NAUSEATED FACE=01F922;CRUTCH=01FA7C;TAG DIGIT FOUR=0E0034;VARIATION SELECTOR-59=0E012A" \o
      ";VARIATION SELECTOR-68=0E0133;VARIATION SELECTOR-77=0E013C;VARIATION SELECTOR-86=0E0145" \o
      ";VARIATION SELECTOR-95=0E014E",
    ";LATIN SMALL LETTER REVERSED R WITH FISHHOOK=00027F;MODIFIER LETTER HIGH TONE BAR=0002E6" \o
      ";ARABIC LETTER HEH GOAL=0006C1;NKO TAMAN SIGN=0007FF;DEVANAGARI LETTER NYA=00091E" \o
      ";GUJARATI VOWEL SIGN U=000AC1;MALAYALAM LETTER NNNA=000D29;TIBETAN MARK BKA- SHOG YIG MGO=000F0A" \o
      ";HANGUL JONGSEONG RIEUL-HIEUH=0011B6;HANGUL JONGSEONG HIEUH-RIEUL=0011F6" \o
      ";ETHIOPIC SYLLABLE SEE=001234;ETHIOPIC SYLLABLE DDU=0012F9;ETHIOPIC SYLLABLE GGO=00131E" \o
      ";ETHIOPIC SYLLABLE THA=001320;ETHIOPIC SYLLABLE PHE=001335;CANADIAN SYLLABICS CARRIER DI=001454" \o
      ";CANADIAN SYLLABICS CARRIER LA=001627;TAGALOG SIGN PAMUDPOD=001715" \o
      ";MONGOLIAN LETTER ALI GALI ZHA=001895;BOWTIE=0022C8;PARENTHESIZED NUMBER TWENTY=002487" \o
      ";BOX DRAWINGS HEAVY UP=002579;RIBBON ARROW UP RIGHT=002BB3;RIBBON ARROW RIGHT UP=002BB5" \o
      ";ETHIOPIC SYLLABLE MOA=002D81;PARENTHESIZED IDEOGRAPH NAME=003234" \o
      ";CIRCLED IDEOGRAPH ENTERPRISE=0032AD;SQUARE POINTO=00333D;HEXAGRAM FOR SPLITTING APART=004DD6" \o
      ";YI SYLLABLE GI=00A1DC;YI SYLLABLE KE=00A20C;MODIFIER LETTER CHINESE TONE YANG RU=00A707" \o
      ";SYLOTI NAGRI LETTER E=00A804;ARABIC LIGATURE YEH WITH HAMZA ABOVE WITH YEH ISOLATED FORM=00FC04" \o
      ";ARABIC LIGATURE ALAYHI AS-SALAATU WAS-SALAAM=00FD4A;ARABIC LETTER NOON FINAL FORM=00FEE6" \o
      ";LINEAR B IDEOGRAM B125 CYPERUS=010092;UGARITIC LETTER GAMLA=010382" \o
      ";CAUCASIAN ALBANIAN LETTER SHA=01053D;MEROITIC CURSIVE NUMBER TWO HUNDRED=0109D3" \o
      ";NEWA LETTER NA=011423;MODI LETTER PA=011622;AHOM LETTER TA=011704;AHOM DIGIT SIX=011736" \o
      ";DIVES AKURU LETTER VA=011929;CUNEIFORM SIGN GA2 TIMES KID PLUS LAL=0120DB" \o
      ";CUNEIFORM SIGN EZEN SHESHIG TIMES ME=0124B2;CUNEIFORM SIGN SAG TIMES TAK4=012530" \o
      ";MIAO LETTER SA=016F3A;HENTAIGANA LETTER KA-1=01B017;HENTAIGANA LETTER HA-4=01B0A1" \o
      ";MATHEMATICAL ITALIC CAPITAL L=01D43F;MATHEMATICAL BOLD CAPITAL PHI=01D6BD" \o
      ";MATHEMATICAL BOLD SMALL ALPHA=01D6C2;SIGNWRITING EYE BLINK SINGLE=01DA17" \o
      ";TOTO LETTER BREATHY E=01E2A7;MENDE KIKAKUI SYLLABLE M003 KU=01E802" \o
      ";MENDE KIKAKUI SYLLABLE M178 EN=01E82D;MENDE KIKAKUI SYLLABLE M055 TE=01E848" \o
      ";MENDE KIKAKUI SYLLABLE M099 PA=01E88D;ALCHEMICAL SYMBOL FOR SUBLIMATE OF ANTIMONY=01F72C" \o
      ";VARIATION SELECTOR-69=0E0134;VARIATION SELECTOR-78=0E013D;VARIATION SELECTOR-87=0E0146" \o
      ";VARIATION SELECTOR-96=0E014F",
    ";DEVANAGARI LETTER TTA=00091F;THAI DIGIT SIX=000E56;THAI CHARACTER KHOMUT=000E5B" \o
      ";LAO VOWEL SIGN MAI KAN=000EB1;HANGUL JUNGSEONG YU-A=00118E;HANGUL JUNGSEONG EU-U=001195" \o
      ";HANGUL JUNGSEONG YA-U=0011A4;ETHIOPIC SYLLABLE QHE=001255;ETHIOPIC SYLLABLE TEE=001274" \o
      ";ETHIOPIC SYLLABLE FWA=00134F;ETHIOPIC NUMBER TEN THOUSAND=00137C;ETHIOPIC SYLLABLE BWE=001387" \o
      ";CANADIAN SYLLABICS Y-CREE SOO=0014F3;CANADIAN SYLLABICS CARRIER MA=00160D;PER MILLE SIGN=002030" \o
      ";NATIONAL DIGIT SHAPES=00206E;EXCESS=002239;DOES NOT FORCE=0022AE;DIGIT SEVEN FULL STOP=00248E" \o
      ";QUADRANT UPPER RIGHT AND LOWER LEFT AND LOWER RIGHT=00259F" \o
      ";LONG LEFTWARDS DOUBLE ARROW FROM BAR=0027FD;TURNED BLACK PENTAGON=002BC2" \o
      ";TIFINAGH LETTER YAGHH=002D34;ETHIOPIC SYLLABLE NOA=002D88;KANGXI RADICAL RIGHT OPEN BOX=002F15" \o
      ";RIGHT TORTOISE SHELL BRACKET=003015;CIRCLED NUMBER SIXTY ON BLACK SQUARE=00324D" \o
      ";CIRCLED HANGUL TIKEUT=003262;YI SYLLABLE AP=00A00B;YI SYLLABLE BO=00A027;YI SYLLABLE PA=00A041" \o
      ";YI SYLLABLE LE=00A1CC;YI RADICAL PUT=00A49E;BAMUM LETTER I=00A6A9" \o
      ";HANGUL CHOSEONG MIEUM-KIYEOK=00A96F;ARABIC LIGATURE SEEN WITH KHAH ISOLATED FORM=00FC1E" \o
      ";ARABIC LIGATURE JEEM WITH MEEM WITH HAH INITIAL FORM=00FD59" \o
      ";ARABIC LIGATURE MEEM WITH HAH WITH JEEM INITIAL FORM=00FD89" \o
      ";ARABIC LIGATURE MEEM WITH JEEM WITH HAH INITIAL FORM=00FD8C;WAVY OVERLINE=00FE4B" \o
      ";AEGEAN WEIGHT FOURTH SUBUNIT=01013B;DESERET CAPITAL LETTER LONG A=010402" \o
      ";CAUCASIAN ALBANIAN LETTER GIM=010532;CAUCASIAN ALBANIAN LETTER IRB=01053C" \o
      ";INSCRIPTIONAL PARTHIAN LETTER SADHE=010B51;SHARADA VOWEL SIGN VOCALIC LL=0111BB" \o
      ";MODI LETTER II=011603;ZANABAZAR SQUARE LETTER TSHA=011A24" \o
      ";SOYOMBO HEAD MARK WITH MOON AND SUN AND TRIPLE FLAME=011A9E;PAU CIN HAU LETTER THA=011ACF" \o
      ";TAMIL FRACTION ONE TWENTIETH=011FC8;CUNEIFORM SIGN GASHAN=0120FD;CUNEIFORM SIGN KISIM5=0121A8" \o
      ";CUNEIFORM SIGN LAGAB TIMES UD=0121E9;CUNEIFORM NUMERIC SIGN SEVEN U VARIANT FORM=01246C" \o
      ";MIAO LETTER TA=016F0A;HENTAIGANA LETTER KA-2=01B018;HENTAIGANA LETTER HA-5=01B0A2" \o
      ";HENTAIGANA LETTER HE-1=01B0B3;ZNAMENNY COMBINING MARK ZELO=01CF20;MAYAN NUMERAL FIFTEEN=01D2EF" \o
      ";TETRAGRAM FOR PACKING=01D324;MATHEMATICAL ITALIC CAPITAL M=01D440" \o
      ";SIGNWRITING HAND-FIST RING MIDDLE CONJOINED=01D8B5;MENDE KIKAKUI SYLLABLE M004 WI=01E808" \o
      ";MENDE KIKAKUI SYLLABLE M153 LO=01E83C;MENDE KIKAKUI SYLLABLE M036 FU=01E85C" \o
      ";INDIC SIYAQ NUMBER SEVENTY THOUSAND=01EC9B;MAHJONG TILE SEVEN OF BAMBOOS=01F016" \o
      ";CURRY AND RICE=01F35B;ENVELOPE WITH DOWNWARDS ARROW ABOVE=01F4E9" \o
      ";WHITE SQUARE CONTAINING BLACK MEDIUM SQUARE=01F795;CARROT=01F955" \o
      ";NEUTRAL CHESS KNIGHT ROTATED THREE HUNDRED FIFTEEN DEGREES=01FA47" \o
      ";UPPER HALF BLOCK AND LOWER HALF INVERSE MEDIUM SHADE=01FB91" \o
      ";UPPER HALF INVERSE MEDIUM SHADE AND LOWER HALF BLOCK=01FB92;VARIATION SELECTOR-79=0E013E" \o
      ";VARIATION SELECTOR-88=0E0147;VARIATION SELECTOR-97=0E0150",
    ";SINGLE-SHIFT-2=00008E;MODIFIER LETTER END HIGH TONE=0002FA" \o
      ";COMBINING DOUBLE VERTICAL LINE BELOW=000348" \o
      ";ARABIC LETTER KEHEH WITH THREE DOTS POINTING UPWARDS BELOW=000764;SAMARITAN LETTER TAAF=000815" \o
      ";TAMIL LETTER E=000B8E;MALAYALAM FRACTION THREE TWENTIETHS=000D5D" \o
      ";MALAYALAM FRACTION THREE SIXTEENTHS=000D78;SINHALA LETTER EYANNA=000D91" \o
      ";THAI CHARACTER SARA II=000E35;HANGUL JONGSEONG PIEUP-HIEUH=0011E5" \o
      ";HANGUL JONGSEONG HIEUH-PIEUP=0011F8;ETHIOPIC SYLLABLE HHO=001216;ETHIOPIC SYLLABLE GWA=001310" \o
      ";CANADIAN SYLLABICS Y-CREE TOO=001452;CANADIAN SYLLABICS CARRIER NA=001607" \o
      ";CANADIAN SYLLABICS CARRIER JE=001617;TAI THAM VOWEL SIGN AE=001A6F" \o
      ";MODIFIER LETTER SMALL L WITH RETROFLEX HOOK=001DA9;HYPHEN=002010" \o
      ";APL FUNCTIONAL SYMBOL UP CARET TILDE=002372;DOWN FISH TAIL=00297F;CIRCLED DIVISION SIGN=002A38" \o
      ";SQUARE BORUTO=00333E;YI SYLLABLE ME=00A0C2;YI SYLLABLE CO=00A2BF;VAI SYMBOL TAA=00A619" \o
      ";CYRILLIC CAPITAL LETTER TSWE=00A68E;MODIFIER LETTER STRESS AND HIGH TONE=00A720" \o
      ";LATIN SMALL LETTER STIRRUP R=00AB45;ARABIC LIGATURE MEEM WITH MEEM ISOLATED FORM=00FC48" \o
      ";GREEK ACROPHONIC ATTIC ONE THOUSAND TALENTS=01014D;CAUCASIAN ALBANIAN LETTER KAR=010544" \o
      ";OLD NORTH ARABIAN LETTER MEEM=010A83;OLD HUNGARIAN SMALL LETTER EB=010CC2;NEWA LETTER PA=011425" \o
      ";SIDDHAM SIGN ANUSVARA=0115BD;MODI LETTER RA=011628;TAKRI LETTER A=011680;DOGRA LETTER O=011808" \o
      ";WARANG CITI CAPITAL LETTER AT=0118B5;ZANABAZAR SQUARE LETTER TTHA=011A15" \o
      ";BHAIKSUKI SIGN VIRAMA=011C3F;CUNEIFORM SIGN NINDA2 TIMES U=01252A;MRO LETTER DAI=016A4A" \o
      ";HENTAIGANA LETTER KA-3=01B019;HENTAIGANA LETTER HA-6=01B0A3;HENTAIGANA LETTER HE-2=01B0B4" \o
      ";HENTAIGANA LETTER MA-1=01B0C2;MUSICAL SYMBOL ARPEGGIATO UP=01D183" \o
      ";MATHEMATICAL ITALIC CAPITAL N=01D441;SIGNWRITING MOVEMENT-WALLPLANE PEAKS LARGE=01D94A" \o
      ";COMBINING GLAGOLITIC LETTER MYSLITE=01E00F;MENDE KIKAKUI SYLLABLE M088 FO=01E860" \o
      ";MENDE KIKAKUI SYLLABLE M185 VA=01E8BA;GUITAR=01F3B8;OPEN MAILBOX WITH RAISED FLAG=01F4EC" \o
      ";LIGHT FIVE POINTED BLACK STAR=01F7C9;SPONGE=01F9FD;LEFT HALF MEDIUM SHADE=01FB8C" \o
      ";VARIATION SELECTOR-89=0E0148;VARIATION SELECTOR-98=0E0151",
    ";SINGLE-SHIFT-3=00008F;ARABIC SMALL HIGH ZAIN=000617;LAO DIGIT ZERO=000ED0" \o
      ";HANGUL CHOSEONG IEUNG=00110B;HANGUL CHOSEONG NIEUN-KIYEOK=001113;HANGUL JUNGSEONG YO-I=001188" \o
      ";HANGUL JONGSEONG RIEUL-TIKEUT-HIEUH=0011CF;HANGUL JONGSEONG RIEUL-MIEUM-KIYEOK=0011D1" \o
      ";ETHIOPIC SYLLABLE SHE=00123D;ETHIOPIC SYLLABLE VEE=00126C;ETHIOPIC SYLLABLE CHU=001329" \o
      ";ETHIOPIC SYLLABLE FYA=00135A;CANADIAN SYLLABICS CARRIER GI=0015F3;MONGOLIAN DIGIT THREE=001813" \o
      ";GREEK SMALL LETTER ALPHA WITH YPOGEGRAMMENI=001FB3;PROPERTY LINE=00214A" \o
      ";EIGHT POINTED RECTILINEAR BLACK STAR=002737;OPEN SUPERSET=0027C4" \o
      ";VERTICAL BAR WITH HORIZONTAL STROKE=0027CA;GLAGOLITIC SMALL LETTER YERU=002C4F" \o
      ";ETHIOPIC SYLLABLE POA=002D92;KANGXI RADICAL SPIRIT=002F70" \o
      ";JAPANESE INDUSTRIAL STANDARD SYMBOL=003004;PARENTHESIZED IDEOGRAPH HAVE=003232" \o
      ";IDEOGRAPHIC TELEGRAPH SYMBOL FOR DAY TWELVE=0033EB;YI SYLLABLE DO=00A10F;YI SYLLABLE NE=00A18F" \o
      ";YI SYLLABLE RA=00A3C8;YI SYLLABLE JI=00A3E2;VAI SYLLABLE U=00A595;VAI DIGIT FOUR=00A624" \o
      ";HANGUL JUNGSEONG I-YO=00D7C2;ARABIC LIGATURE SHEEN WITH JEEM INITIAL FORM=00FD2D" \o
      ";HALFWIDTH KATAKANA MIDDLE DOT=00FF65;CAUCASIAN ALBANIAN LETTER MAQ=01054C" \o
      ";PHOENICIAN LETTER MEM=01090C;INSCRIPTIONAL PAHLAVI LETTER SAMEKH=010B6E" \o
      ";OLD HUNGARIAN SMALL LETTER EC=010CC4;ELYMAIC LETTER SAMEKH=010FEE;GRANTHA VOWEL SIGN UU=011342" \o
      ";NEWA LETTER II=011403;NEWA SIGN UPADHMANIYA=011461;TIRHUTA SIGN AVAGRAHA=0114C4" \o
      ";MODI LETTER SA=01162D;DIVES AKURU LETTER YA=011925;ZANABAZAR SQUARE LETTER KSSA=011A32" \o
      ";BHAIKSUKI DIGIT SEVEN=011C57;CUNEIFORM SIGN GISH TIMES BAD=012113" \o
      ";BAMUM LETTER PHASE-B GHEUGHEN=01686F;MIAO LETTER VA=016F08;HENTAIGANA LETTER KA-4=01B01A" \o
      ";HENTAIGANA LETTER NA-1=01B07E;HENTAIGANA LETTER HA-7=01B0A4;HENTAIGANA LETTER HE-3=01B0B5" \o
      ";HENTAIGANA LETTER MA-2=01B0C3;MATHEMATICAL ITALIC CAPITAL O=01D442" \o
      ";MATHEMATICAL DOUBLE-STRUCK CAPITAL A=01D538;MATHEMATICAL BOLD SMALL OMEGA=01D6DA" \o
      ";MATHEMATICAL ITALIC SMALL CHI=01D712;MATHEMATICAL BOLD DIGIT EIGHT=01D7D6" \o
      ";MENDE KIKAKUI SYLLABLE M048 KO=01E806;MENDE KIKAKUI SYLLABLE M118 WE=01E80C" \o
      ";MENDE KIKAKUI SYLLABLE M019 SI=01E82E;MENDE KIKAKUI SYLLABLE M031 YI=01E853" \o
      ";MENDE KIKAKUI SYLLABLE M080 YE=01E857;MAHJONG TILE SEVEN OF CIRCLES=01F01F;KIMONO=01F458" \o
      ";TOP WITH UPWARDS ARROW ABOVE=01F51D;ALCHEMICAL SYMBOL FOR ALEMBIC=01F76A;TEAPOT=01FAD6" \o
      ";TAG DIGIT ZERO=0E0030;VARIATION SELECTOR-99=0E0152",
    ";LATIN CAPITAL LETTER O WITH STROKE AND ACUTE=0001FE;CYRILLIC CAPITAL LETTER YERU=00042B" \o
      ";TIBETAN CANTILLATION SIGN LIGHT BEAT=000FC1;ETHIOPIC SYLLABLE QOA=001247" \o
      ";ETHIOPIC SYLLABLE WEE=0012CC;ETHIOPIC SYLLABLE THE=001325;ETHIOPIC SYLLABLE PHI=001332" \o
      ";CANADIAN SYLLABICS CARRIER HI=001437;CANADIAN SYLLABICS CARRIER PA=0015ED" \o
      ";CANADIAN SYLLABICS CARRIER LE=001624;RUNIC LETTER DOTTED-L=0016DB" \o
      ";MONGOLIAN LETTER ALI GALI SSA=001894;TAI THAM LETTER LOW CA=001A29" \o
      ";GREEK LETTER SMALL CAPITAL PI=001D28;MODIFIER LETTER SMALL N WITH RETROFLEX HOOK=001DAF" \o
      ";TWO DOT LEADER=002025;QUADRANT UPPER LEFT AND UPPER RIGHT AND LOWER RIGHT=00259C" \o
      ";PERPENDICULAR=0027C2;ETHIOPIC SYLLABLE GYA=002DD8;KANGXI RADICAL YELLOW=002FC8" \o
      ";PARENTHESIZED HANGUL CHIEUCH=003209;CIRCLED HANGUL IEUNG A=003275;SQUARE KYURII=003312" \o
      ";SQUARE HERUTU=003339;IDEOGRAPHIC TELEGRAPH SYMBOL FOR HOUR THREE=00335B;SQUARE MV MEGA=0033B9" \o
      ";YI SYLLABLE KI=00A1FA;YI SYLLABLE SA=00A312;SYLOTI NAGRI LETTER I=00A801" \o
      ";ARABIC LIGATURE THEH WITH JEEM ISOLATED FORM=00FC11" \o
      ";ARABIC LIGATURE MEEM WITH HAH WITH MEEM INITIAL FORM=00FD8A" \o
      ";ARABIC DAMMATAN ISOLATED FORM=00FE72;PHOENICIAN NUMBER TEN=010917;KHAROSHTHI LETTER DDA=010A1C" \o
      ";OLD HUNGARIAN SMALL LETTER ED=010CC7;SOGDIAN LETTER SAMEKH=010F3C;NEWA LETTER RA=01142C" \o
      ";MODI LETTER TA=01161D;MODI SIGN HUVA=011644;MODI DIGIT SIX=011656" \o
      ";WARANG CITI CAPITAL LETTER BU=0118B7;DIVES AKURU LETTER ZA=01192F;DIVES AKURU DIGIT TWO=011952" \o
      ";BHAIKSUKI NUMBER FIVE=011C5E;BHAIKSUKI NUMBER NINE=011C62" \o
      ";CUNEIFORM NUMERIC SIGN FIVE ASH TENU=01244D;BAMUM LETTER PHASE-C MBIRIEEN=0168B7" \o
      ";BAMUM LETTER PHASE-E I=0169D8;PAHAWH HMONG SIGN TXHEEJ CEEV=016B6D" \o
      ";MEDEFAIDRIN NUMBER SEVENTEEN=016E91;MIAO LETTER WA=016F42;HENTAIGANA LETTER KA-5=01B01B" \o
      ";HENTAIGANA LETTER KE-1=01B032;HENTAIGANA LETTER NA-2=01B07F;HENTAIGANA LETTER HA-8=01B0A5" \o
      ";HENTAIGANA LETTER HE-4=01B0B6;HENTAIGANA LETTER MA-3=01B0C4" \o
      ";MUSICAL SYMBOL TRIANGLE NOTEHEAD LEFT WHITE=01D14A;MATHEMATICAL ITALIC CAPITAL P=01D443" \o
      ";MATHEMATICAL DOUBLE-STRUCK CAPITAL B=01D539;MATHEMATICAL BOLD SMALL DELTA=01D6C5" \o
      ";MATHEMATICAL SANS-SERIF BOLD ITALIC SMALL PI=01D7B9" \o
      ";SIGNWRITING MOVEMENT-WALLPLANE WAVE HITTING CHEST=01D9B0;TOTO LETTER BREATHY I=01E2A2" \o
      ";MENDE KIKAKUI SYLLABLE M068 PI=01E88C;OTTOMAN SIYAQ ALTERNATE NUMBER FOUR=01ED31" \o
      ";PLAYING CARD FOUR OF DIAMONDS=01F0C4;WIDE-HEADED NORTH EAST VERY HEAVY BARB ARROW=01F885" \o
      ";LOWER LEFT BLOCK DIAGONAL LOWER MIDDLE LEFT TO LOWER CENTRE=01FB3C;SEGMENTED DIGIT SEVEN=01FBF7",
    ";ARABIC SMALL LOW WORD TASHEEL=00089B;TIBETAN VOWEL SIGN UU=000F75;HANGUL JUNGSEONG U-YE=00118C" \o
      ";HANGUL JUNGSEONG YU-E=001190;ETHIOPIC SYLLABLE QHI=001252;ETHIOPIC SYLLABLE XEE=001284" \o
      ";ETHIOPIC SYLLABLE JWA=001307;ETHIOPIC SYLLABLE BWI=001385;ETHIOPIC SYLLABLE FWE=00138B" \o
      ";CANADIAN SYLLABICS FINAL RING=001424;CANADIAN SYLLABICS CARRIER ME=00160A" \o
      ";SUNDANESE DIGIT THREE=001BB3;FLOWER=002698;TIFINAGH LETTER YAKHH=002D3F" \o
      ";ETHIOPIC SYLLABLE ROA=002D82;COMBINING CYRILLIC LETTER YU=002DFB" \o
      ";COMBINING CYRILLIC LETTER IOTIFIED A=002DFC;PARENTHESIZED IDEOGRAPH FIRE=00322B" \o
      ";SQUARE MW MEGA=0033BF;YI SYLLABLE AT=00A008;YI SYLLABLE FO=00A0D6;YI SYLLABLE TA=00A123" \o
      ";YI SYLLABLE LI=00A1B9;YI RADICAL ZOT=00A4AB;YI RADICAL PYT=00A4AC;YI RADICAL VUR=00A4AF" \o
      ";BAMUM LETTER M=00A6B3;LATIN SMALL LETTER TZ=00A729;HANGUL CHOSEONG RIEUL-KIYEOK=00A964" \o
      ";JAVANESE LETTER DDA MAHAPRANA=00A99E;HEBREW LETTER ALEF WITH PATAH=00FB2E" \o
      ";ARABIC LIGATURE LAM WITH KHAH WITH MEEM INITIAL FORM=00FD86" \o
      ";ARABIC LIGATURE HEH WITH MEEM WITH JEEM INITIAL FORM=00FD93" \o
      ";ARABIC LIGATURE KAF WITH MEEM WITH MEEM INITIAL FORM=00FDC3;UGARITIC LETTER GHAIN=010399" \o
      ";DESERET CAPITAL LETTER LONG E=010401;CAUCASIAN ALBANIAN LETTER ALT=010530" \o
      ";PHOENICIAN LETTER HET=010907;KHAROSHTHI VOWEL LENGTH MARK=010A0C" \o
      ";OLD HUNGARIAN SMALL LETTER EE=010CCB;NEWA LETTER SA=011433;MODI LETTER AU=01160D" \o
      ";WARANG CITI CAPITAL LETTER UC=0118AF;BHAIKSUKI GAP FILLER-1=011C44" \o
      ";CUNEIFORM SIGN LAGAB TIMES TE PLUS A PLUS SU PLUS NA=0121E4;CUNEIFORM SIGN LIMMU2=0121F9" \o
      ";CUNEIFORM SIGN U OVER U SUR OVER SUR=01230F;BAMUM LETTER PHASE-A MAEMKPEN=01682B" \o
      ";MIAO LETTER ARCHAIC MA=016F06;MIAO LETTER XA=016F27;MIAO LETTER TE=016F48" \o
      ";HENTAIGANA LETTER KA-6=01B01C;HENTAIGANA LETTER KE-2=01B033;HENTAIGANA LETTER NA-3=01B080" \o
      ";HENTAIGANA LETTER HA-9=01B0A6;HENTAIGANA LETTER HI-1=01B0A9;HENTAIGANA LETTER HE-5=01B0B7" \o
      ";HENTAIGANA LETTER MA-4=01B0C5;BYZANTINE MUSICAL SYMBOL OXEIA EKFONITIKON=01D003" \o
      ";TETRAGRAM FOR RELEASE=01D31A;MATHEMATICAL ITALIC CAPITAL Q=01D444" \o
      ";MENDE KIKAKUI SYLLABLE M085 VE=01E8BD;PLAYING CARD KNIGHT OF HEARTS=01F0BC" \o
      ";ROUNDED SYMBOL FOR LU=01F261;ROUNDED SYMBOL FOR XI=01F263;PAGE WITH CURL=01F4C3" \o
      ";ROUND PUSHPIN=01F4CD;SCROLL=01F4DC;WOMENS SYMBOL=01F6BA;EXTREMELY HEAVY WHITE CIRCLE=01F789" \o
      ";BAGUETTE BREAD=01F956;HORIZONTAL ONE EIGHTH BLOCK-2=01FB76",
    ";LATIN SMALL LETTER A WITH CIRCUMFLEX=0000E2;LATIN CAPITAL LETTER UPSILON=0001B1" \o
      ";TAMIL LETTER I=000B87;MALAYALAM LETTER TTHA=000D20;SINHALA LETTER IYANNA=000D89" \o
      ";SINHALA VOWEL SIGN AELA-PILLA=000DCF;LAO LETTER NGO=000E87;TIBETAN SIGN RNAM BCAD=000F7F" \o
      ";HANGUL CHOSEONG IEUNG-TIKEUT=001142;ETHIOPIC SYLLABLE KWA=0012B0;ETHIOPIC SYLLABLE ZHA=0012E0" \o
      ";ETHIOPIC SYLLABLE YEE=0012EC;ETHIOPIC SYLLABLE GWE=001315;ETHIOPIC SYLLABLE GGU=001319" \o
      ";CANADIAN SYLLABICS CARRIER RA=0015CF;CANADIAN SYLLABICS CARRIER NE=001604" \o
      ";CANADIAN SYLLABICS CARRIER JI=001619;RUNIC LETTER DOTTED-N=0016C0" \o
      ";MONGOLIAN LETTER ALI GALI TTA=00188C;TAI THAM VOWEL SIGN AI=001A71" \o
      ";SUNDANESE VOWEL SIGN PAMEPET=001BA8;GREEK SMALL LETTER OMEGA WITH YPOGEGRAMMENI=001FF3" \o
      ";CARE OF=002105;SECTOR=002314;SUMMATION TOP=0023B2;Z NOTATION LEFT IMAGE BRACKET=002987" \o
      ";ETHIOPIC SYLLABLE SOA=002D83;YI SYLLABLE MI=00A0B0;YI SYLLABLE GO=00A1EC;LISU LETTER BA=00A4D0" \o
      ";LATIN SMALL LETTER CUATRILLO=00A72D;LATIN SMALL LETTER VY=00A761" \o
      ";LATIN CAPITAL LETTER B WITH FLOURISH=00A796;MYANMAR TAI LAING DIGIT SEVEN=00A9F7" \o
      ";ETHIOPIC SYLLABLE DZE=00AB15;HEBREW LETTER BET WITH DAGESH=00FB31" \o
      ";ARABIC LETTER U ISOLATED FORM=00FBD7;ARABIC LIGATURE SEEN WITH JEEM ISOLATED FORM=00FC1C" \o
      ";ARABIC LIGATURE SHEEN WITH MEEM INITIAL FORM=00FD30" \o
      ";ARABIC LIGATURE SHEEN WITH MEEM WITH MEEM FINAL FORM=00FD6C" \o
      ";CAUCASIAN ALBANIAN LETTER AOR=010548;MEROITIC CURSIVE NUMBER FIVE=0109C4" \o
      ";MEROITIC CURSIVE NUMBER NINE=0109C8;KHAROSHTHI LETTER BHA=010A27" \o
      ";INSCRIPTIONAL PARTHIAN LETTER ALEPH=010B40;OLD HUNGARIAN SMALL LETTER EF=010CCC" \o
      ";RUMI DIGIT ONE=010E60;CHORASMIAN NUMBER ONE=010FC5;NEWA LETTER TA=01141F;NEWA DIGIT SIX=011456" \o
      ";MODI LETTER VA=01162A;TAKRI LETTER E=011686;AHOM DIGIT TWO=011732;SOYOMBO VOWEL SIGN AI=011A57" \o
      ";BHAIKSUKI GAP FILLER-2=011C45;MARCHEN SIGN ANUSVARA=011CB5" \o
      ";CUNEIFORM SIGN DAG KISIM5 TIMES BALAG=012059;CUNEIFORM SIGN KASKAL=01219C" \o
      ";CUNEIFORM SIGN LAGAB TIMES A PLUS LAL=0121BC;CUNEIFORM SIGN LU2 TIMES TUG2=012210" \o
      ";MRO LETTER HAI=016A5C;PAHAWH HMONG CONSONANT NTSAU=016B1D;MEDEFAIDRIN CAPITAL LETTER AI=016E5E" \o
      ";MIAO LETTER ARCHAIC NA=016F13;HENTAIGANA LETTER KA-7=01B01D;HENTAIGANA LETTER KE-3=01B034" \o
      ";HENTAIGANA LETTER NA-4=01B081;HENTAIGANA LETTER HI-2=01B0AA;HENTAIGANA LETTER HE-6=01B0B8" \o
      ";HENTAIGANA LETTER MA-5=01B0C6;HENTAIGANA LETTER ME-1=01B0D4" \o
      ";BYZANTINE MUSICAL SYMBOL TROMIKON ARCHAION=01D036;MUSICAL SYMBOL PLUS NOTEHEAD=01D144" \o
      ";MATHEMATICAL ITALIC CAPITAL R=01D445;MATHEMATICAL DOUBLE-STRUCK CAPITAL D=01D53B" \o
      ";SIGNWRITING MOVEMENT-DIAGONAL AWAY LARGEST=01D958;SIGNWRITING DYNAMIC ARROWHEAD SMALL=01D9F5" \o
      ";MENDE KIKAKUI COMBINING NUMBER TEENS=01E8D0;OTTOMAN SIYAQ NUMBER THREE THOUSAND=01ED1E" \o
      ";CHEQUERED FLAG=01F3C1;MOTOR SCOOTER=01F6F5;ALCHEMICAL SYMBOL FOR AMALGAM=01F75B" \o
      ";DISGUISED FACE=01F978;GLOVES=01F9E4" \o
      ";BLACK CHESS KNIGHT ROTATED TWO HUNDRED TWENTY-FIVE DEGREES=01FA31" \o
      ";HORIZONTAL ONE EIGHTH BLOCK-3=01FB77",
    ";MODIFIER LETTER SHELF=0002FD;COMBINING DOUBLE ACUTE ACCENT=00030B;COMBINING CANDRABINDU=000310" \o
      ";THAANA OBOFILI=0007AE;DEVANAGARI LETTER UUE=000977;GUJARATI SIGN TWO-CIRCLE NUKTA ABOVE=000AFF" \o
      ";KANNADA VOWEL SIGN VOCALIC RR=000CC4;SINHALA VOWEL SIGN KOMBU DEKA=000DDB;THAI DIGIT TWO=000E52" \o
      ";HANGUL CHOSEONG PIEUP-KIYEOK=00111E;ETHIOPIC SYLLABLE LWA=00120F;ETHIOPIC SYLLABLE SHI=00123A" \o
      ";ETHIOPIC SYLLABLE KXA=0012B8;ETHIOPIC SYLLABLE ZEE=0012DC;CANADIAN SYLLABICS Y-CREE YOO=00152C" \o
      ";CANADIAN SYLLABICS CARRIER SA=001653;BUHID LETTER U=001742;TAI THAM LETTER LOW FA=001A3C" \o
      ";GREEK CAPITAL LETTER ETA WITH PSILI AND PERISPOMENI=001F2E;TURNED SMALL F=00214E" \o
      ";UPWARDS ARROW=002191;BOX DRAWINGS LEFT HEAVY AND RIGHT DOWN LIGHT=00252D" \o
      ";BOX DRAWINGS RIGHT HEAVY AND LEFT DOWN LIGHT=00252E" \o
      ";BOX DRAWINGS RIGHT LIGHT AND LEFT DOWN HEAVY=002531" \o
      ";BOX DRAWINGS LEFT LIGHT AND RIGHT DOWN HEAVY=002532;BLACK RIGHT-POINTING POINTER=0025BA" \o
      ";DOUBLE-ENDED MULTIMAP=0029DF;CIRCLED MULTIPLICATION SIGN WITH CIRCUMFLEX ACCENT=002A36" \o
      ";GLAGOLITIC CAPITAL LETTER IOTATED SMALL YUS=002C27;ETHIOPIC SYLLABLE TOA=002D86" \o
      ";KANGXI RADICAL TANNED LEATHER=002FB1;CJK STROKE BXG=0031C3;SQUARE PIKURU=00332F" \o
      ";YI SYLLABLE BU=00A02E;YI SYLLABLE VA=00A0EC;YI SYLLABLE NI=00A17F;YI SYLLABLE HO=00A27B" \o
      ";YI SYLLABLE RE=00A3D2;YI RADICAL ZUP=00A4A2;LISU LETTER CA=00A4DA;VAI DIGIT ZERO=00A620" \o
      ";BAMUM LETTER O=00A6A7;ARABIC LIGATURE THEH WITH MEEM ISOLATED FORM=00FC12" \o
      ";ARABIC LIGATURE GHAIN WITH YEH ISOLATED FORM=00FCFA" \o
      ";ARABIC LIGATURE LAM WITH JEEM WITH JEEM INITIAL FORM=00FD83" \o
      ";LINEAR B IDEOGRAM B107M HE-GOAT=010089;AEGEAN NUMBER SIXTY THOUSAND=010130" \o
      ";CAUCASIAN ALBANIAN LETTER ZHA=01053B;CAUCASIAN ALBANIAN LETTER PEN=010557" \o
      ";KHAROSHTHI LETTER CHA=010A16;OLD NORTH ARABIAN LETTER THAL=010A99" \o
      ";OLD NORTH ARABIAN LETTER THEH=010A9B;OLD HUNGARIAN SMALL LETTER EG=010CCD" \o
      ";OLD HUNGARIAN SMALL LETTER AK=010CD4;NEWA LETTER AU=01140D;TIRHUTA VOWEL SIGN II=0114B2" \o
      ";WARANG CITI CAPITAL LETTER YA=0118A4;WARANG CITI CAPITAL LETTER KO=0118AC" \o
      ";CUNEIFORM SIGN LAGAB TIMES A PLUS GAR=0121BB;BAMUM LETTER PHASE-D M=016951" \o
      ";MEDEFAIDRIN FULL STOP=016E98;MIAO LETTER ZA=016F3B;HENTAIGANA LETTER KA-8=01B01E" \o
      ";HENTAIGANA LETTER KE-4=01B035;HENTAIGANA LETTER NA-5=01B082;HENTAIGANA LETTER NE-1=01B092" \o
      ";HENTAIGANA LETTER HI-3=01B0AB;HENTAIGANA LETTER HE-7=01B0B9;HENTAIGANA LETTER MA-6=01B0C7" \o
      ";HENTAIGANA LETTER ME-2=01B0D5;HENTAIGANA LETTER RA-1=01B0ED" \o
      ";BYZANTINE MUSICAL SYMBOL APESO EKFONITIKON=01D00D;MUSICAL SYMBOL SHORT BARLINE=01D105" \o
      ";MATHEMATICAL ITALIC CAPITAL S=01D446;MATHEMATICAL DOUBLE-STRUCK CAPITAL E=01D53C" \o
      ";MATHEMATICAL BOLD SMALL KAPPA=01D6CB;MATHEMATICAL SANS-SERIF BOLD ITALIC CAPITAL OMICRON=01D79E" \o
      ";MENDE KIKAKUI SYLLABLE M165 OO=01E827;MENDE KIKAKUI SYLLABLE M027 LU=01E838" \o
      ";MENDE KIKAKUI SYLLABLE M050 PU=01E88E;MENDE KIKAKUI SYLLABLE M182 VI=01E8B9" \o
      ";SQUARED SECOND SCREEN=01F19C;VIOLIN=01F3BB;BALLOT BOX WITH BOLD SCRIPT X=01F5F7" \o
      ";FACE WITH TEARS OF JOY=01F602;TOILET=01F6BD;ALCHEMICAL SYMBOL FOR TIN ORE=01F729" \o
      ";HEAVY FIVE POINTED BLACK STAR=01F7CA" \o
      ";LOWER LEFT BLOCK DIAGONAL UPPER MIDDLE LEFT TO LOWER CENTRE=01FB3E" \o
      ";HORIZONTAL ONE EIGHTH BLOCK-4=01FB78",
    ";LATIN SMALL LETTER C WITH CIRCUMFLEX=000109;CYRILLIC SMALL LETTER KHAKASSIAN CHE=0004CC" \o
      ";ARABIC FATHA WITH RING=0008F4;HANGUL CHOSEONG MIEUM=001106;ETHIOPIC SYLLABLE HHU=001211" \o
      ";ETHIOPIC SYLLABLE MWA=00121F;ETHIOPIC SYLLABLE THI=001322;CANADIAN SYLLABICS CARRIER NG=0014D1" \o
      ";CANADIAN SYLLABICS CARRIER PE=0015EA;CANADIAN SYLLABICS CARRIER LI=001626" \o
      ";RUNIC LETTER DOTTED-P=0016D4;EM DASH=002014;CIRCLED RING OPERATOR=00229A;ASCENDING NODE=00260A" \o
      ";ETHIOPIC SYLLABLE KYA=002DC8;ETHIOPIC SYLLABLE GYE=002DDD;KANGXI RADICAL TURTLE=002FD4" \o
      ";YI SYLLABLE WA=00A282;YI SYLLABLE CU=00A2C6;YI SYLLABLE SE=00A31C;LISU LETTER DA=00A4D3" \o
      ";HANGUL JONGSEONG MIEUM-NIEUN=00D7DE;ARABIC LIGATURE SEEN WITH HAH WITH JEEM INITIAL FORM=00FD5C" \o
      ";ARABIC LIGATURE SEEN WITH JEEM WITH HAH INITIAL FORM=00FD5D" \o
      ";ARABIC LIGATURE HEH WITH MEEM WITH MEEM INITIAL FORM=00FD94" \o
      ";ARABIC LIGATURE AIN WITH JEEM WITH MEEM INITIAL FORM=00FDC4" \o
      ";ARABIC FATHATAN ISOLATED FORM=00FE70;HALFWIDTH HANGUL LETTER SSANGKIYEOK=00FFA2" \o
      ";UGARITIC LETTER DELTA=010384;CAUCASIAN ALBANIAN LETTER QAR=01054D" \o
      ";IMPERIAL ARAMAIC NUMBER ONE THOUSAND=01085E;PHOENICIAN LETTER ZAI=010906" \o
      ";KHAROSHTHI LETTER DHA=010A22;OLD HUNGARIAN SMALL LETTER EH=010CCF;OLD UYGHUR LETTER MEM=010F79" \o
      ";SHARADA SECTION MARK-1=0111DE;SIDDHAM SEPARATOR DOT=0115C4;DOGRA LETTER U=011804" \o
      ";CUNEIFORM SIGN LAM TIMES KUR PLUS RU=0121F6;CUNEIFORM SIGN GA2 TIMES MUSH=0124C3" \o
      ";BAMUM LETTER PHASE-A NYIT MONGKEUAEQ=016841;BAMUM LETTER PHASE-E NGKEUAEM=016989" \o
      ";HENTAIGANA LETTER KA-9=01B01F;HENTAIGANA LETTER KI-1=01B023;HENTAIGANA LETTER KE-5=01B036" \o
      ";HENTAIGANA LETTER SA-1=01B03C;HENTAIGANA LETTER NA-6=01B083;HENTAIGANA LETTER NE-2=01B093" \o
      ";HENTAIGANA LETTER HI-4=01B0AC;HENTAIGANA LETTER MA-7=01B0C8;HENTAIGANA LETTER RA-2=01B0EE" \o
      ";BYZANTINE MUSICAL SYMBOL FTHORA MALAKON CHROMA MONOFONIAS=01D0C4" \o
      ";MUSICAL SYMBOL PARENTHESIS NOTEHEAD=01D156;MATHEMATICAL ITALIC CAPITAL T=01D447" \o
      ";MATHEMATICAL DOUBLE-STRUCK CAPITAL F=01D53D;MATHEMATICAL BOLD CAPITAL RHO=01D6B8" \o
      ";MENDE KIKAKUI SYLLABLE M021 SU=01E830;MENDE KIKAKUI SYLLABLE M168 GU=01E885" \o
      ";MENDE KIKAKUI SYLLABLE M066 PO=01E892;ADLAM CAPITAL LETTER E=01E909;TONGUE=01F445" \o
      ";CLOCK FACE FOUR OCLOCK=01F553;SLIGHTLY SMILING FACE=01F642;HORIZONTAL ONE EIGHTH BLOCK-5=01FB79",
    ";LATIN LETTER SMALL CAPITAL OE=000276;GURMUKHI VOWEL SIGN I=000A3F" \o
      ";TIBETAN CANTILLATION SIGN HEAVY BEAT=000FC0;GEORGIAN PARAGRAPH SEPARATOR=0010FB" \o
      ";HANGUL CHOSEONG SIOS-PHIEUPH=00113A;HANGUL JUNGSEONG YO-O=001187;HANGUL JUNGSEONG YU-I=001194" \o
      ";HANGUL JUNGSEONG YI-U=001197;ETHIOPIC SYLLABLE NWA=001297;ETHIOPIC SYLLABLE FWI=001389" \o
      ";CANADIAN SYLLABICS CARRIER GO=0015F0;CANADIAN SYLLABICS CARRIER KK=001601" \o
      ";CANADIAN SYLLABICS CARRIER MI=00160C;TAI THAM LETTER LOW HA=001A4C;EN DASH=002013" \o
      ";SUBSCRIPT SIX=002086;SCRIPT SMALL E=00212F;CONTINUOUS UNDERLINE SYMBOL=002381;NEUTER=0026B2" \o
      ";HEAVY BALLOT X=002718;PARENTHESIZED IDEOGRAPH FIVE=003224;PARENTHESIZED IDEOGRAPH NINE=003228" \o
      ";PARENTHESIZED IDEOGRAPH SELF=003242;CIRCLED HANGUL MIEUM A=003272;SQUARE PA AMPS=003380" \o
      ";YI SYLLABLE IP=00A003;YI SYLLABLE AX=00A009;YI SYLLABLE PI=00A03A;YI SYLLABLE DU=00A116" \o
      ";YI SYLLABLE TE=00A12E;YI SYLLABLE JO=00A3EE;YI RADICAL ZUR=00A4C1;LISU LETTER AE=00A4EF" \o
      ";COMBINING CYRILLIC LETTER IOTIFIED E=00A69F;LATIN CAPITAL LETTER BROKEN L=00A746" \o
      ";SAURASHTRA LETTER VOCALIC RR=00A889;LATIN SMALL LETTER IOTIFIED E=00AB61" \o
      ";HANGUL JUNGSEONG I-YU=00D7C3;ARABIC LIGATURE YEH WITH HAMZA ABOVE WITH WAW ISOLATED FORM=00FBEE" \o
      ";ARABIC LIGATURE SEEN WITH MEEM ISOLATED FORM=00FC1F;OLD PERMIC LETTER YRY=010367" \o
      ";DESERET CAPITAL LETTER LONG I=010400;OLD SOUTH ARABIAN LETTER BETH=010A68" \o
      ";SHARADA SECTION MARK-2=0111DF;KHUDAWADI LETTER TTHA=0112C7;NEWA LETTER WA=011430" \o
      ";MODI LETTER YA=011627;CUNEIFORM SIGN LAGAB TIMES LU=0121D6;BAMUM LETTER PHASE-F M=016A11" \o
      ";HENTAIGANA LETTER KI-2=01B024;HENTAIGANA LETTER KE-6=01B037;HENTAIGANA LETTER SA-2=01B03D" \o
      ";HENTAIGANA LETTER TA-1=01B05E;HENTAIGANA LETTER NA-7=01B084;HENTAIGANA LETTER NE-3=01B094" \o
      ";HENTAIGANA LETTER HI-5=01B0AD;HENTAIGANA LETTER RA-3=01B0EF;TETRAGRAM FOR DIMMING=01D349" \o
      ";TALLY MARK ONE=01D377;MATHEMATICAL ITALIC CAPITAL U=01D448" \o
      ";MATHEMATICAL DOUBLE-STRUCK CAPITAL G=01D53E;MATHEMATICAL BOLD CAPITAL TAU=01D6BB" \o
      ";MATHEMATICAL ITALIC SMALL ETA=01D702" \o
      ";SIGNWRITING HAND-FIST INDEX MIDDLE UP SPREAD THUMB FORWARD=01D827" \o
      ";SIGNWRITING HAND-FLAT FOUR FINGERS CONJOINED SPLIT=01D848;SIGNWRITING STRIKE MULTIPLE=01D90C" \o
      ";MENDE KIKAKUI SYLLABLE M121 YO=01E859;MENDE KIKAKUI SYLLABLE M186 HU=01E86A" \o
      ";SLICE OF PIZZA=01F355;MONKEY=01F412;VIDEOCASSETTE=01F4FC;KISSING FACE WITH CLOSED EYES=01F61A" \o
      ";ALCHEMICAL SYMBOL FOR SUBLIMATE OF SALT OF ANTIMONY=01F72E" \o
      ";RIGHTWARDS TRIANGLE-HEADED ARROW WITH NARROW SHAFT=01F822;SHRIMP=01F990" \o
      ";HORIZONTAL ONE EIGHTH BLOCK-6=01FB7A",
    ";LATIN SMALL LETTER E WITH CIRCUMFLEX=0000EA;COMBINING DOUBLE GRAVE ACCENT=00030F" \o
      ";THAI CHARACTER SARA UE=000E36;HANGUL CHOSEONG NIEUN=001102;HANGUL JONGSEONG RIEUL-MIEUM=0011B1" \o
      ";HANGUL JONGSEONG MIEUM-RIEUL=0011DB;ETHIOPIC SYLLABLE KWE=0012B5;ETHIOPIC SYLLABLE WOA=0012CF" \o
      ";ETHIOPIC SYLLABLE ZHE=0012E5;ETHIOPIC SYLLABLE GWI=001312;ETHIOPIC SYLLABLE PHO=001336" \o
      ";ETHIOPIC SYLLABLE MYA=001359;CANADIAN SYLLABICS CARRIER RE=0015CC" \o
      ";CANADIAN SYLLABICS CARRIER NI=001606;OGHAM LETTER UILLEANN=001697;RUNIC LETTER C=0016CD" \o
      ";MONGOLIAN LETTER MANCHU ALI GALI DDHA=00189F;LIMBU SIGN LOO=001940" \o
      ";MODIFIER LETTER SMALL DOTLESS J WITH STROKE=001DA1;VERTICAL LINE WITH MIDDLE DOT=00237F" \o
      ";THERMODYNAMIC=0029E7;Z NOTATION SCHEMA PROJECTION=002A21;LEFTWARDS BLACK ARROW=002B05" \o
      ";ETHIOPIC SYLLABLE SSA=002DA0;MEDIEVAL COMMA=002E4C;YI SYLLABLE KO=00A208;YI SYLLABLE QI=00A3FE" \o
      ";LISU LETTER FA=00A4E9;SYLOTI NAGRI LETTER O=00A805;ETHIOPIC SYLLABLE DZI=00AB12" \o
      ";HEBREW LETTER MEM WITH DAGESH=00FB3E" \o
      ";ARABIC LIGATURE LAM WITH JEEM WITH MEEM INITIAL FORM=00FDBA" \o
      ";MODIFIER LETTER SMALL T WITH RETROFLEX HOOK=0107AF;PHOENICIAN LETTER QOF=010912" \o
      ";OLD SOUTH ARABIAN LETTER KAPH=010A6B;INSCRIPTIONAL PARTHIAN LETTER GIMEL=010B42" \o
      ";OLD HUNGARIAN SMALL LETTER EJ=010CD2;CHORASMIAN LETTER MEM=010FBD;MODI DIGIT TWO=011652" \o
      ";TAKRI LETTER I=011682;CUNEIFORM SIGN EZEN TIMES BAD=0120A6;CUNEIFORM SIGN UM TIMES LAGAB=01231E" \o
      ";BAMUM LETTER PHASE-C NANSANAQ=0168B2;BAMUM LETTER PHASE-E O=0169D7" \o
      ";HENTAIGANA LETTER KI-3=01B025;HENTAIGANA LETTER SA-3=01B03E;HENTAIGANA LETTER TA-2=01B05F" \o
      ";HENTAIGANA LETTER NA-8=01B085;HENTAIGANA LETTER NE-4=01B095;HENTAIGANA LETTER HI-6=01B0AE" \o
      ";HENTAIGANA LETTER MI-1=01B0C9;HENTAIGANA LETTER RA-4=01B0F0" \o
      ";BYZANTINE MUSICAL SYMBOL SIMANSIS THESEOS DISIMOU=01D0DF;MATHEMATICAL ITALIC CAPITAL V=01D449" \o
      ";MATHEMATICAL SANS-SERIF BOLD ITALIC CAPITAL EPSILON=01D794;MATHEMATICAL BOLD DIGIT THREE=01D7D1" \o
      ";SIGNWRITING TONGUE STICKING OUT FAR=01DA59;TOMATO=01F345;PERSON WITH HEADSCARF=01F9D5" \o
      ";UPPER LEFT BLOCK DIAGONAL LOWER MIDDLE LEFT TO UPPER CENTRE=01FB59" \o
      ";HORIZONTAL ONE EIGHTH BLOCK-7=01FB7B",
    ";ARABIC SMALL HIGH NOON=0006E8;NKO DIGIT FOUR=0007C4;DEVANAGARI LETTER YYA=00095F" \o
      ";BENGALI VOWEL SIGN VOCALIC RR=0009C4;BENGALI AU LENGTH MARK=0009D7;GUJARATI SIGN VISARGA=000A83" \o
      ";ORIYA LETTER A=000B05;THAI CHARACTER MAI THO=000E49;TIBETAN DIGIT HALF ONE=000F2A" \o
      ";ETHIOPIC SYLLABLE QHO=001256;ETHIOPIC SYLLABLE XOA=001287;ETHIOPIC SYLLABLE NYA=001298" \o
      ";ETHIOPIC SYLLABLE KXE=0012BD;ETHIOPIC SYLLABLE TSA=001338;ETHIOPIC SYLLABLE PWA=001357" \o
      ";ETHIOPIC SECTION MARK=001360;CANADIAN SYLLABICS CARRIER WA=0015D5" \o
      ";CANADIAN SYLLABICS CARRIER SE=001650;RUNIC LETTER D=0016D1;RUNIC LETTER FRANKS CASKET AC=0016F7" \o
      ";GREEK SMALL LETTER ETA WITH PSILI AND YPOGEGRAMMENI=001F90;SCRIPT SMALL G=00210A" \o
      ";SQUAT BLACK RIGHTWARDS ARROW=0027A7;LONG RIGHTWARDS DOUBLE ARROW=0027F9" \o
      ";RIGHTWARDS TWO-HEADED ARROW FROM BAR=002905;DASH WITH LEFT UPTURN=002E43" \o
      ";CIRCLED HANGUL NIEUN A=00326F;YI SYLLABLE BY=00A034;YI SYLLABLE FU=00A0DA;YI SYLLABLE LO=00A1C9" \o
      ";YI SYLLABLE ZA=00A296;LISU LETTER GA=00A4D6;HANGUL CHOSEONG TIKEUT-MIEUM=00A960" \o
      ";HANGUL CHOSEONG MIEUM-TIKEUT=00A970;TAI VIET LETTER HIGH O=00AAAF" \o
      ";ARABIC LIGATURE SEEN WITH MEEM WITH HAH INITIAL FORM=00FD60" \o
      ";ARABIC LIGATURE AIN WITH MEEM WITH MEEM INITIAL FORM=00FD77" \o
      ";ARABIC LIGATURE SAD WITH MEEM WITH MEEM INITIAL FORM=00FDC5;FULLWIDTH DIGIT EIGHT=00FF18" \o
      ";UGARITIC LETTER SAMKA=010392;CAUCASIAN ALBANIAN LETTER RAT=010559;KHAROSHTHI LETTER GHA=010A13" \o
      ";OLD HUNGARIAN SMALL LETTER EK=010CD3;CHORASMIAN NUMBER TEN=010FC9;NEWA LETTER YA=01142B" \o
      ";TIRHUTA VOWEL SIGN AU=0114BE;TAMIL SIGN PON=011FDF;CUNEIFORM SIGN GA2 TIMES GIR2 PLUS SU=0120D0" \o
      ";CUNEIFORM SIGN LAGAB TIMES IM PLUS HA=0121CD;BAMUM LETTER PHASE-D NGKEUAEQ=016929" \o
      ";BAMUM LETTER PHASE-E NGGEUAET=016977;HENTAIGANA LETTER KI-4=01B026" \o
      ";HENTAIGANA LETTER SA-4=01B03F;HENTAIGANA LETTER TA-3=01B060;HENTAIGANA LETTER NA-9=01B086" \o
      ";HENTAIGANA LETTER NI-1=01B087;HENTAIGANA LETTER NE-5=01B096;HENTAIGANA LETTER HI-7=01B0AF" \o
      ";HENTAIGANA LETTER HO-1=01B0BA;HENTAIGANA LETTER MI-2=01B0CA;HENTAIGANA LETTER RE-1=01B0FE" \o
      ";ZNAMENNY NEUME SKAMEYTSA DVOECHELNAYA KLYUCHEVAYA=01CF7C" \o
      ";MUSICAL SYMBOL SIX-STRING FRETBOARD=01D11C;TETRAGRAM FOR BARRIER=01D309" \o
      ";MATHEMATICAL ITALIC CAPITAL W=01D44A;MATHEMATICAL DOUBLE-STRUCK CAPITAL I=01D540" \o
      ";MATHEMATICAL BOLD CAPITAL PSI=01D6BF;MATHEMATICAL BOLD SMALL SIGMA=01D6D4" \o
      ";SIGNWRITING HAND-FIST MIDDLE THUMB CIRCLED INDEX UP=01D838" \o
      ";SIGNWRITING HAND-FIST INDEX THUMB CIRCLED MIDDLE UP=01D83C" \o
      ";SIGNWRITING MOVEMENT-WALLPLANE HUMP HITTING CHEST=01D9AE" \o
      ";SIGNWRITING MOVEMENT-WALLPLANE LOOP HITTING CHEST=01D9AF;ADLAM SMALL LETTER DHA=01E92F" \o
      ";CIRCLED ITALIC LATIN CAPITAL LETTER C=01F12B;WOMAN WITH BUNNY EARS=01F46F" \o
      ";ARROW POINTING RIGHTWARDS THEN CURVING SOUTH WEST=01F8B1" \o
      ";WHITE CHESS KNIGHT ROTATED ONE HUNDRED THIRTY-FIVE DEGREES=01FA1B" \o
      ";INVERSE DOWNWARDS ARROW WITH TIP LEFTWARDS=01FBB4",
    ";LATIN SMALL LETTER G WITH CIRCUMFLEX=00011D;LATIN LETTER TWO WITH STROKE=0001BB" \o
      ";ARABIC LETTER FARSI YEH WITH EXTENDED ARABIC-INDIC DIGIT FOUR BELOW=000777" \o
      ";ARABIC SMALL FARSI YEH=0008C9;TAMIL LETTER O=000B92;SINHALA LETTER OYANNA=000D94" \o
      ";THAI CHARACTER SO SALA=000E28;HANGUL CHOSEONG RIEUL=001105;HANGUL JONGSEONG RIEUL-NIEUN=0011CD" \o
      ";HANGUL JONGSEONG MIEUM-PIEUP=0011DC;ETHIOPIC SYLLABLE QWA=001248;ETHIOPIC SYLLABLE YOA=0012EF" \o
      ";ETHIOPIC SYLLABLE MWE=001383;CANADIAN SYLLABICS CARRIER PI=0015EC" \o
      ";CANADIAN SYLLABICS CARRIER JO=001616;RUNIC LETTER E=0016C2;MONGOLIAN DIGIT SEVEN=001817" \o
      ";TAI THAM LETTER LOW KA=001A23;GEORGIAN MTAVRULI CAPITAL LETTER TURNED GAN=001CB9" \o
      ";COMBINING ENCLOSING CIRCLE BACKSLASH=0020E0;UPWARDS ARROW LEFTWARDS OF DOWNWARDS ARROW=0021C5" \o
      ";DOWNWARDS ARROW LEFTWARDS OF UPWARDS ARROW=0021F5;RETURN SYMBOL=0023CE" \o
      ";CIRCLED NUMBER TWELVE=00246B;LESS-THAN OR SLANTED EQUAL TO=002A7D" \o
      ";SLANTED EQUAL TO OR LESS-THAN=002A95;GLAGOLITIC CAPITAL LETTER SPIDERY HA=002C22" \o
      ";ETHIOPIC SYLLABLE KYE=002DCD;ETHIOPIC SYLLABLE GYI=002DDA;YI SYLLABLE MO=00A0BF" \o
      ";YI SYLLABLE GU=00A1F4;YI SYLLABLE WE=00A28B;YI SYLLABLE CY=00A2CC;YI SYLLABLE SI=00A30B" \o
      ";LISU LETTER HA=00A4E6;VAI SYMBOL NII=00A616;CYRILLIC SMALL LETTER ZEMLYA=00A641" \o
      ";HANGUL JONGSEONG NIEUN-RIEUL=00D7CB;HANGUL JONGSEONG PIEUP-MIEUM=00D7E5" \o
      ";ARABIC LIGATURE SHEEN WITH REH ISOLATED FORM=00FD0D" \o
      ";ARABIC LIGATURE TEH WITH KHAH WITH MEEM INITIAL FORM=00FD54" \o
      ";ARABIC LIGATURE TEH WITH MEEM WITH KHAH INITIAL FORM=00FD57" \o
      ";ARABIC LIGATURE LAM WITH ALEF WITH MADDA ABOVE ISOLATED FORM=00FEF5" \o
      ";CAUCASIAN ALBANIAN LETTER TAS=010538;IMPERIAL ARAMAIC LETTER SADHE=010851" \o
      ";OLD HUNGARIAN SMALL LETTER EL=010CD6;NEWA DIGIT TWO=011452" \o
      ";SIDDHAM SECTION MARK WITH RAYS AND DOTTED CRESCENTS=0115CC;NANDINAGARI LETTER UU=0119A5" \o
      ";CUNEIFORM SIGN KA TIMES ANSHE=01237E;CUNEIFORM SIGN LU2 TIMES DISH=01251A;MRO LETTER HAO=016A49" \o
      ";HENTAIGANA LETTER KI-5=01B027;HENTAIGANA LETTER SA-5=01B040;HENTAIGANA LETTER SE-1=01B052" \o
      ";HENTAIGANA LETTER TA-4=01B061;HENTAIGANA LETTER NI-2=01B088;HENTAIGANA LETTER NE-6=01B097" \o
      ";HENTAIGANA LETTER HO-2=01B0BB;HENTAIGANA LETTER MI-3=01B0CB;HENTAIGANA LETTER RE-2=01B0FF" \o
      ";HENTAIGANA LETTER WA-1=01B108;BYZANTINE MUSICAL SYMBOL ARKTIKO ZO=01D0EE" \o
      ";TETRAGRAM FOR FAILURE=01D350;MATHEMATICAL ITALIC CAPITAL X=01D44B" \o
      ";MATHEMATICAL DOUBLE-STRUCK CAPITAL J=01D541;MATHEMATICAL SANS-SERIF BOLD EPSILON SYMBOL=01D78A" \o
      ";MATHEMATICAL SANS-SERIF BOLD ITALIC SMALL XI=01D7B7;SIGNWRITING HAND-CIRCLE INDEX MIDDLE=01D80F" \o
      ";SIGNWRITING HEAD MOVEMENT-FLOORPLANE CURVE=01DA05;SIGNWRITING TONGUE TIP BETWEEN LIPS=01DA5B" \o
      ";MENDE KIKAKUI SYLLABLE M045 WO=01E80E;MENDE KIKAKUI SYLLABLE M024 TU=01E846" \o
      ";ADLAM CAPITAL LETTER I=01E90B;ADLAM SMALL LETTER GBE=01E940;JACK-O-LANTERN=01F383" \o
      ";DOWNWARDS ARROW WITH EQUILATERAL ARROWHEAD=01F817" \o
      ";WIDE-HEADED SOUTH EAST VERY HEAVY BARB ARROW=01F886;BUTTER=01F9C8",
    ";LATIN SMALL LETTER H WITH CIRCUMFLEX=000125;LATIN CAPITAL LETTER A WITH DOT ABOVE=000226" \o
      ";HANGUL CHOSEONG NIEUN-TIKEUT=001115;ETHIOPIC SYLLABLE RWA=00122F;ETHIOPIC SYLLABLE SHO=00123E" \o
      ";CANADIAN SYLLABICS CARRIER YA=001613;SUNDANESE SIGN VIRAMA=001BAB;LEFT-TO-RIGHT ISOLATE=002066" \o
      ";RIGHT-TO-LEFT ISOLATE=002067;WHITE LEFT-POINTING TRIANGLE=0025C1" \o
      ";HEAVY RIGHT-POINTING ANGLE BRACKET ORNAMENT=002771" \o
      ";TIFINAGH MODIFIER LETTER LABIALIZATION MARK=002D6F;ETHIOPIC SYLLABLE ZOA=002D8B" \o
      ";LEFT BLACK LENTICULAR BRACKET=003010;CIRCLED HANGUL RIEUL A=003271" \o
      ";IDEOGRAPHIC TELEGRAPH SYMBOL FOR HOUR SEVEN=00335F;YI SYLLABLE IT=00A000;YI SYLLABLE EX=00A013" \o
      ";YI SYLLABLE TI=00A11C;YI SYLLABLE NO=00A18C;BAMUM LETTER U=00A6A2;SAURASHTRA LETTER DDA=00A89E" \o
      ";GREEK ACROPHONIC ATTIC ONE THOUSAND STATERS=010154;UGARITIC LETTER RASHA=010397" \o
      ";SHAVIAN LETTER CHURCH=010457;IMPERIAL ARAMAIC NUMBER TEN THOUSAND=01085F" \o
      ";INSCRIPTIONAL PARTHIAN NUMBER THREE=010B5A;OLD HUNGARIAN SMALL LETTER II=010CD1" \o
      ";OLD HUNGARIAN SMALL LETTER EM=010CD8;SHARADA VOWEL SIGN VOCALIC RR=0111B9" \o
      ";GRANTHA SIGN ANUSVARA=011302;WARANG CITI CAPITAL LETTER WI=0118A2" \o
      ";BAMUM LETTER PHASE-C NTEUNGBA=0168B9;MEDEFAIDRIN DIGIT TWO ALTERNATE FORM=016E95" \o
      ";HENTAIGANA LETTER KI-6=01B028;HENTAIGANA LETTER SA-6=01B041;HENTAIGANA LETTER SE-2=01B053" \o
      ";HENTAIGANA LETTER TE-1=01B06E;HENTAIGANA LETTER NI-3=01B089;HENTAIGANA LETTER HO-3=01B0BC" \o
      ";HENTAIGANA LETTER MI-4=01B0CC;HENTAIGANA LETTER RE-3=01B100;HENTAIGANA LETTER WA-2=01B109" \o
      ";MATHEMATICAL ITALIC CAPITAL Y=01D44C;MATHEMATICAL DOUBLE-STRUCK CAPITAL K=01D542" \o
      ";MATHEMATICAL SANS-SERIF BOLD ITALIC SMALL MU=01D7B5;SIGNWRITING HAND-HINGE OPEN NO THUMB=01D881" \o
      ";ADLAM SMALL LETTER BHE=01E929;SURFER=01F3C4;FACE WITH THERMOMETER=01F912;POTATO=01F954" \o
      ";UPPER LEFT BLOCK DIAGONAL UPPER MIDDLE LEFT TO UPPER CENTRE=01FB57",
    ";LATIN SMALL LETTER I WITH CIRCUMFLEX=0000EE;GREEK CAPITAL LETTER IOTA WITH TONOS=00038A" \o
      ";ARMENIAN COMMA=00055D;ARABIC TATWEEL=000640;ARABIC EMPTY CENTRE HIGH STOP=0006EB" \o
      ";ORIYA FRACTION ONE SIXTEENTH=000B75;THAI CHARACTER LO LING=000E25;HANGUL CHOSEONG PIEUP=001107" \o
      ";ETHIOPIC SYLLABLE SWA=001237;ETHIOPIC SYLLABLE KWI=0012B2;ETHIOPIC SYLLABLE ZHI=0012E2" \o
      ";ETHIOPIC SYLLABLE THO=001326;CANADIAN SYLLABICS CARRIER RI=0015CE" \o
      ";CANADIAN SYLLABICS CARRIER LO=001623;CANADIAN SYLLABICS CARRIER ZA=001645" \o
      ";CANADIAN SYLLABICS CARRIER SH=00165A;RUNIC LETTER G=0016B5;TAI THAM VOWEL SIGN II=001A66" \o
      ";SUNDANESE DIGIT SEVEN=001BB7;LATIN CAPITAL LETTER B WITH DOT ABOVE=001E02" \o
      ";LATIN CAPITAL LETTER C WITH CEDILLA AND ACUTE=001E08" \o
      ";GREEK SMALL LETTER ALPHA WITH PSILI AND PERISPOMENI=001F06;REVERSED DOUBLE PRIME=002036" \o
      ";BLACK DIAMOND WITH DOWN ARROW=0029EA;UPWARDS TRIANGLE-HEADED DASHED ARROW=002B6B" \o
      ";ETHIOPIC SYLLABLE SSE=002DA5;ETHIOPIC SYLLABLE QYA=002DC0;DOUBLE OBLIQUE HYPHEN=002E17" \o
      ";IDEOGRAPHIC FULL STOP=003002;HANGUL LETTER KHIEUKH=00314B;LISU LETTER JA=00A4D9" \o
      ";FULLWIDTH APOSTROPHE=00FF07;AEGEAN NUMBER SEVENTY=010116;PHOENICIAN LETTER TAU=010915" \o
      ";OLD HUNGARIAN SMALL LETTER EN=010CD9;CUNEIFORM SIGN MUSH3 TIMES DI=01223C" \o
      ";CUNEIFORM SIGN NUNUZ KISIM5 TIMES BI=012278;HENTAIGANA LETTER KI-7=01B029" \o
      ";HENTAIGANA LETTER KO-1=01B038;HENTAIGANA LETTER SA-7=01B042;HENTAIGANA LETTER SE-3=01B054" \o
      ";HENTAIGANA LETTER TE-2=01B06F;HENTAIGANA LETTER NI-4=01B08A;HENTAIGANA LETTER HO-4=01B0BD" \o
      ";HENTAIGANA LETTER MI-5=01B0CD;HENTAIGANA LETTER YA-1=01B0DD;HENTAIGANA LETTER RE-4=01B101" \o
      ";HENTAIGANA LETTER WA-3=01B10A;DUPLOYAN LETTER J WITH DOTS INSIDE AND ABOVE=01BC24" \o
      ";MATHEMATICAL ITALIC CAPITAL Z=01D44D;MATHEMATICAL DOUBLE-STRUCK CAPITAL L=01D543" \o
      ";MATHEMATICAL SANS-SERIF BOLD ITALIC SMALL NU=01D7B6" \o
      ";CLOCKWISE DOWNWARDS AND UPWARDS OPEN CIRCLE ARROWS=01F503;SHOWER=01F6BF;PARROT=01F99C" \o
      ";WINDOW=01FA9F",
    ";LATIN CAPITAL LETTER C WITH DOT ABOVE=00010A;LATIN SMALL LETTER J WITH CIRCUMFLEX=000135" \o
      ";CYRILLIC CAPITAL LETTER UKRAINIAN IE=000404;CYRILLIC CAPITAL LETTER GHE WITH MIDDLE HOOK=000494" \o
      ";ARABIC-INDIC CUBE ROOT=000606;NKO DIGIT ZERO=0007C0;SAMARITAN PUNCTUATION MELODIC QITSA=000837" \o
      ";ORIYA LETTER E=000B0F;THAI CHARACTER MAI TRI=000E4A;LAO VOWEL SIGN MAI KON=000EBB" \o
      ";LAO TONE MAI EK=000EC8;HANGUL CHOSEONG TIKEUT-RIEUL=00115E" \o
      ";HANGUL JONGSEONG KIYEOK-SIOS-KIYEOK=0011C4;ETHIOPIC SYLLABLE TWA=001277" \o
      ";ETHIOPIC SYLLABLE NYE=00129D;ETHIOPIC SYLLABLE KXI=0012BA;ETHIOPIC SYLLABLE TSE=00133D" \o
      ";ETHIOPIC SYLLABLE RYA=001358;ETHIOPIC SYLLABLE PWE=00138F;CANADIAN SYLLABICS CARRIER WE=0015D2" \o
      ";CANADIAN SYLLABICS CARRIER GU=0015EF;CANADIAN SYLLABICS CARRIER MO=001609" \o
      ";CANADIAN SYLLABICS CARRIER SI=001652;RUNIC LETTER BERKANAN BEORC BJARKAN B=0016D2" \o
      ";BATAK PANGOLAT=001BF2;COMMERCIAL MINUS SIGN=002052;SUBSCRIPT TWO=002082" \o
      ";ROMAN NUMERAL FIFTY THOUSAND=002187;RIGHTWARDS DOUBLE ARROW WITH STROKE=0021CF" \o
      ";GREATER-THAN BUT NOT EQUAL TO=002269;WHITE DIAMOND CONTAINING BLACK SMALL DIAMOND=0025C8" \o
      ";RECYCLED PAPER SYMBOL=00267C;DOUBLE-LINE SLANTED EQUAL TO OR GREATER-THAN=002A9C" \o
      ";DOUBLE-LINE SLANTED GREATER-THAN OR EQUAL TO=002AFA;BLACK PENTAGON=002B1F" \o
      ";LATIN CAPITAL LETTER TURNED A=002C6F;COPTIC MORPHOLOGICAL DIVIDER=002CFF;CJK STROKE HZG=0031C6" \o
      ";CIRCLED HANGUL PIEUP A=003273;YI SYLLABLE OP=00A012;YI SYLLABLE PO=00A048;YI SYLLABLE FY=00A0E0" \o
      ";YI SYLLABLE VI=00A0E4;YI SYLLABLE ZE=00A2A0;YI SYLLABLE JU=00A3F2;LISU LETTER KA=00A4D7" \o
      ";SAURASHTRA LETTER BHA=00A8A9;SAURASHTRA DIGIT FIVE=00A8D5;SAURASHTRA DIGIT NINE=00A8D9" \o
      ";COMBINING DEVANAGARI LETTER A=00A8EA;HANGUL CHOSEONG RIEUL-TIKEUT=00A966" \o
      ";HANGUL JUNGSEONG YU-O=00D7B8;HEBREW LETTER ALEF WITH MAPIQ=00FB30" \o
      ";GREEK ACROPHONIC ATTIC FIVE THOUSAND=010146;DESERET CAPITAL LETTER LONG O=010404" \o
      ";CAUCASIAN ALBANIAN LETTER QAY=010547;CAUCASIAN ALBANIAN LETTER KIW=010563" \o
      ";KHAROSHTHI LETTER KHA=010A11;OLD SOUTH ARABIAN LETTER HETH=010A62" \o
      ";CUNEIFORM SIGN AB TIMES SHESH=012013" \o
      ";CUNEIFORM SIGN ASH OVER ASH OVER ASH CROSSING ASH OVER ASH OVER ASH=01203D" \o
      ";CUNEIFORM SIGN GA2 TIMES HA PLUS LU PLUS ESH2=0120D1" \o
      ";CUNEIFORM SIGN SHE OVER SHE GAD OVER GAD GAR OVER GAR=0122BC" \o
      ";CUNEIFORM SIGN TAG TIMES TUG2=0122F8;MRO LETTER LAN=016A5A;HENTAIGANA LETTER KI-8=01B02A" \o
      ";HENTAIGANA LETTER KO-2=01B039;HENTAIGANA LETTER SA-8=01B043;HENTAIGANA LETTER SE-4=01B055" \o
      ";HENTAIGANA LETTER TE-3=01B070;HENTAIGANA LETTER NI-5=01B08B;HENTAIGANA LETTER HO-5=01B0BE" \o
      ";HENTAIGANA LETTER MI-6=01B0CE;HENTAIGANA LETTER YA-2=01B0DE;HENTAIGANA LETTER RI-1=01B0F1" \o
      ";HENTAIGANA LETTER WA-4=01B10B;MATHEMATICAL DOUBLE-STRUCK CAPITAL M=01D544" \o
      ";SIGNWRITING MOVEMENT-WALLPLANE CURVED CROSS SMALL=01D9A0" \o
      ";SIGNWRITING ROTATION-WALLPLANE ALTERNATING HITTING CHEST=01D9B3" \o
      ";SIGNWRITING TENSE CHEEKS LOW=01DA2F;TOTO LETTER BA=01E291;TOTO SIGN RISING TONE=01E2AE" \o
      ";MENDE KIKAKUI SYLLABLE M006 WU=01E80A;MENDE KIKAKUI SYLLABLE M079 SO=01E834" \o
      ";MENDE KIKAKUI SYLLABLE M069 TO=01E84A;MENDE KIKAKUI SYLLABLE M151 VU=01E8BB" \o
      ";OTTOMAN SIYAQ NUMBER SEVEN THOUSAND=01ED22",
    ";SAMARITAN LETTER SHAN=000814;HANGUL JONGSEONG RIEUL-PIEUP=0011B2" \o
      ";HANGUL JONGSEONG PIEUP-RIEUL=0011E3;ETHIOPIC SYLLABLE QWE=00124D;ETHIOPIC SYLLABLE PHU=001331" \o
      ";ETHIOPIC SYLLABLE MWI=001381;CANADIAN SYLLABICS CAA=001491;CANADIAN SYLLABICS NUNAVIK HA=001579" \o
      ";CANADIAN SYLLABICS CARRIER NO=001603;MODIFIER LETTER SMALL Z WITH RETROFLEX HOOK=001DBC" \o
      ";COMBINING DOTTED ACUTE ACCENT=001DC1;LATIN CAPITAL LETTER D WITH DOT ABOVE=001E0A" \o
      ";GREEK CAPITAL LETTER ETA WITH DASIA AND VARIA=001F2B;REFERENCE MARK=00203B" \o
      ";SCRIPT SMALL L=002113;APL FUNCTIONAL SYMBOL QUAD NOT EQUAL=00236F" \o
      ";BOX DRAWINGS DOUBLE VERTICAL AND HORIZONTAL=00256C;RIGHTWARDS TRIPLE DASH ARROW=00290F" \o
      ";SQUARE WITH BOTTOM HALF BLACK=002B13;ETHIOPIC SYLLABLE KYI=002DCA" \o
      ";IDEOGRAPHIC TELEGRAPH SYMBOL FOR DAY THIRTY=0033FD;HEXAGRAM FOR DURATION=004DDF" \o
      ";YI SYLLABLE KU=00A210;YI SYLLABLE QO=00A40A;LISU LETTER LA=00A4E1;MODIFIER LETTER COLON=00A789" \o
      ";SYLOTI NAGRI LETTER U=00A803;SAURASHTRA LETTER CHA=00A898;TAI VIET TONE MAI SONG=00AAC2" \o
      ";ETHIOPIC SYLLABLE DZO=00AB16;ARABIC LIGATURE NOON WITH KHAH ISOLATED FORM=00FC4D" \o
      ";ARABIC LIGATURE TAH WITH MEEM WITH MEEM INITIAL FORM=00FD73" \o
      ";PRESENTATION FORM FOR VERTICAL RIGHT CURLY BRACKET=00FE38;CAUCASIAN ALBANIAN LETTER EYN=010536" \o
      ";PHOENICIAN LETTER YOD=010909;KHAROSHTHI PUNCTUATION SMALL CIRCLE=010A51" \o
      ";OLD NORTH ARABIAN LETTER ZAIN=010A98;MANICHAEAN NUMBER ONE HUNDRED=010AEF" \o
      ";OLD HUNGARIAN SMALL LETTER EP=010CE0;MONGOLIAN SWIRL BIRGA=011669;TAKRI LETTER O=011688" \o
      ";AHOM SYMBOL VI=01173F;SOYOMBO VOWEL SIGN OE=011A56" \o
      ";CUNEIFORM SIGN UD TIMES U PLUS U PLUS U GUNU=012318;BASSA VAH LETTER WADDA=016AE6" \o
      ";MEDEFAIDRIN CAPITAL LETTER OE=016E5A;HENTAIGANA LETTER KO-3=01B03A" \o
      ";HENTAIGANA LETTER SI-1=01B044;HENTAIGANA LETTER SE-5=01B056;HENTAIGANA LETTER TE-4=01B071" \o
      ";HENTAIGANA LETTER NI-6=01B08C;HENTAIGANA LETTER HO-6=01B0BF;HENTAIGANA LETTER MI-7=01B0CF" \o
      ";HENTAIGANA LETTER MO-1=01B0D7;HENTAIGANA LETTER YA-3=01B0DF;HENTAIGANA LETTER RI-2=01B0F2" \o
      ";HENTAIGANA LETTER WA-5=01B10C;HENTAIGANA LETTER WE-1=01B112" \o
      ";DUPLOYAN AFFIX ATTACHED TANGENT HOOK=01BC7C;MUSICAL SYMBOL SQUARE NOTEHEAD BLACK=01D147" \o
      ";TETRAGRAM FOR CONTACT=01D315;MATHEMATICAL BOLD SMALL THETA=01D6C9" \o
      ";MATHEMATICAL ITALIC SMALL PHI=01D711;SIGNWRITING MOVEMENT-WALLPLANE PEAKS SMALL=01D948" \o
      ";MENDE KIKAKUI SYLLABLE M077 VO=01E8BF;ADLAM SMALL LETTER KAF=01E933" \o
      ";OTTOMAN SIYAQ NUMBER FIFTY THOUSAND=01ED29;RUNNER=01F3C3;POLICE OFFICER=01F46E;MOSQUE=01F54C" \o
      ";EMPTY NOTE PAD=01F5C7",
    ";LATIN CAPITAL LETTER E WITH DOT ABOVE=000116;CYRILLIC SMALL LETTER ZHE WITH BREVE=0004C2" \o
      ";ARABIC-INDIC DIGIT SIX=000666;TELUGU FRACTION DIGIT THREE FOR EVEN POWERS OF FOUR=000C7E" \o
      ";TIBETAN MARK GTER YIG MGO TRUNCATED A=000F01;MYANMAR LETTER EASTERN PWO KAREN NNA=00106E" \o
      ";HANGUL CHOSEONG PIEUP-TIKEUT=001120;HANGUL CHOSEONG SIOS-THIEUTH=001139" \o
      ";ETHIOPIC SYLLABLE SZA=001220;ETHIOPIC SYLLABLE QHU=001251;ETHIOPIC SYLLABLE VWA=00126F" \o
      ";CANADIAN SYLLABICS CARRIER YE=001610;NEW TAI LUE DIGIT FOUR=0019D4;KHMER SYMBOL MUOY ROC=0019F1" \o
      ";TAI THAM LETTER LOW PA=001A3B;VEDIC TONE ATHARVAVEDIC INDEPENDENT SVARITA=001CE1" \o
      ";VEDIC SIGN REVERSED VISARGA ANUDATTA=001CE6;MODIFIER LETTER SMALL TURNED M WITH LONG LEG=001DAD" \o
      ";GREEK SMALL LETTER OMEGA WITH PSILI AND PERISPOMENI=001F66" \o
      ";GREEK SMALL LETTER OMICRON WITH OXIA=001F79;BLACK-LETTER CAPITAL C=00212D" \o
      ";GEOMETRIC PROPORTION=00223A;RADICAL SYMBOL BOTTOM=0023B7" \o
      ";RIGHTWARDS TWO-HEADED ARROW WITH TAIL WITH DOUBLE VERTICAL STROKE=002918" \o
      ";DOWNWARDS HARPOON WITH BARB LEFT BESIDE DOWNWARDS HARPOON WITH BARB RIGHT=002965" \o
      ";CIRCLE WITH SMALL CIRCLE TO THE RIGHT=0029C2;PHOLUS=002BDB" \o
      ";IDEOGRAPHIC DESCRIPTION CHARACTER ABOVE TO MIDDLE AND BELOW=002FF3;YI SYLLABLE IX=00A001" \o
      ";YI SYLLABLE LU=00A1D0;YI SYLLABLE RO=00A3CF;YI SYLLABLE XI=00A45F;LISU LETTER MA=00A4DF" \o
      ";SAURASHTRA LETTER DHA=00A8A4;HANGUL CHOSEONG TIKEUT-PIEUP=00A961;JAVANESE SIGN WIGNYAN=00A983" \o
      ";HEBREW LETTER QOF WITH DAGESH=00FB47;ARABIC SYMBOL FOUR DOTS ABOVE=00FBBA" \o
      ";ARABIC LIGATURE TEH WITH JEEM WITH MEEM INITIAL FORM=00FD50" \o
      ";ARABIC LIGATURE TEH WITH MEEM WITH JEEM INITIAL FORM=00FD55;UGARITIC WORD DIVIDER=01039F" \o
      ";IMPERIAL ARAMAIC LETTER ALEPH=010840;PHOENICIAN LETTER WAU=010905;PHOENICIAN LETTER TET=010908" \o
      ";KHAROSHTHI PUNCTUATION CRESCENT BAR=010A53;PSALTER PAHLAVI LETTER ZAYIN=010B86" \o
      ";SOYOMBO HEAD MARK WITH MOON AND SUN AND FLAME=011A9F;CUNEIFORM SIGN KUSHU2=0121B5" \o
      ";CUNEIFORM SIGN LAGAB TIMES ME PLUS EN=0121D9;CUNEIFORM SIGN MURGU2=012231" \o
      ";CUNEIFORM SIGN SHIM TIMES BAL=0122C8;CUNEIFORM SIGN SHINIG=0122D2;BAMUM LETTER PHASE-F U=016A04" \o
      ";MRO DIGIT FOUR=016A64;MEDEFAIDRIN CAPITAL LETTER NG=016E57;HENTAIGANA LETTER SI-2=01B045" \o
      ";HENTAIGANA LETTER TI-1=01B062;HENTAIGANA LETTER TE-5=01B072;HENTAIGANA LETTER NI-7=01B08D" \o
      ";HENTAIGANA LETTER NO-1=01B099;HENTAIGANA LETTER HU-1=01B0B0;HENTAIGANA LETTER HO-7=01B0C0" \o
      ";HENTAIGANA LETTER MO-2=01B0D8;HENTAIGANA LETTER YA-4=01B0E0;HENTAIGANA LETTER RI-3=01B0F3" \o
      ";HENTAIGANA LETTER WE-2=01B113;ZNAMENNY NEUME MECHIK=01CFA7" \o
      ";BYZANTINE MUSICAL SYMBOL IMIDIARGON=01D098;MUSICAL SYMBOL TRIANGLE NOTEHEAD DOWN WHITE=01D14E" \o
      ";MATHEMATICAL DOUBLE-STRUCK CAPITAL O=01D546;MATHEMATICAL BOLD ITALIC CAPITAL BETA=01D71D" \o
      ";TOTO LETTER DA=01E293;MENDE KIKAKUI SYLLABLE M033 YU=01E855;PISTOL=01F52B;MIRROR=01FA9E",
    ";MODIFIER LETTER PRIME=0002B9;MODIFIER LETTER GLOTTAL STOP=0002C0" \o
      ";ARABIC SMALL HIGH DOTLESS HEAD OF KHAH=0006E1;ARABIC LETTER LOW ALEF=0008AD" \o
      ";BENGALI ISSHAR=0009FA;TAMIL LETTER U=000B89;MALAYALAM LETTER TTTA=000D3A" \o
      ";SINHALA LETTER UYANNA=000D8B;ETHIOPIC SYLLABLE TZA=001340;ETHIOPIC PARAGRAPH SEPARATOR=001368" \o
      ";CANADIAN SYLLABICS CARRIER PO=0015E9;CANADIAN SYLLABICS CARRIER JU=001614" \o
      ";CANADIAN SYLLABICS CARRIER ZE=001642;RUNIC LETTER K=0016F1" \o
      ";GEORGIAN MTAVRULI CAPITAL LETTER HAE=001CB0" \o
      ";LATIN CAPITAL LETTER E WITH CEDILLA AND BREVE=001E1C" \o
      ";LATIN CAPITAL LETTER F WITH DOT ABOVE=001E1E;MUCH LESS-THAN=00226A" \o
      ";FOUR BALLOON-SPOKED ASTERISK=002723;RIGHTWARDS DOUBLE ARROW-TAIL=00291C" \o
      ";BLACK CURVED DOWNWARDS AND RIGHTWARDS ARROW=002BA9" \o
      ";BLACK CURVED RIGHTWARDS AND DOWNWARDS ARROW=002BAF;KRONOS=002BE3;ETHIOPIC SYLLABLE SSI=002DA2" \o
      ";ETHIOPIC SYLLABLE QYE=002DC5;ETHIOPIC SYLLABLE GYO=002DDE;YI SYLLABLE MU=00A0C5" \o
      ";YI SYLLABLE SO=00A319;YI SYLLABLE YI=00A473;LISU LETTER NA=00A4E0;DEVANAGARI HEADSTROKE=00A8FB" \o
      ";HANGUL JONGSEONG SSANGRIEUL-KHIEUKH=00D7D7;ARABIC LIGATURE SUBHAANAHU WA TAAALAA=00FDFE" \o
      ";ARABIC LETTER ALEF MAKSURA FINAL FORM=00FEF0;FULLWIDTH DIGIT THREE=00FF13" \o
      ";HALFWIDTH HANGUL LETTER SSANGTIKEUT=00FFA8;GREEK ACROPHONIC ATTIC TEN THOUSAND STATERS=010155" \o
      ";CAUCASIAN ALBANIAN LETTER IWN=01055E;KHAROSHTHI LETTER KKA=010A32" \o
      ";OLD HUNGARIAN SMALL LETTER ER=010CE2;GRANTHA LETTER VEDIC DOUBLE ANUSVARA=01135F" \o
      ";GRANTHA VOWEL SIGN VOCALIC LL=011363;WARANG CITI CAPITAL LETTER PU=0118B8" \o
      ";SOYOMBO VOWEL SIGN AU=011A58;PAU CIN HAU SANDHI GLOTTAL STOP FINAL=011AEA" \o
      ";BHAIKSUKI LETTER TTHA=011C19;CUNEIFORM SIGN AMAR TIMES SHE=01202C" \o
      ";BAMUM LETTER PHASE-C VEUAEPEN=0168C1;MRO LETTER NGI=016A41;HENTAIGANA LETTER SI-3=01B046" \o
      ";HENTAIGANA LETTER TI-2=01B063;HENTAIGANA LETTER TE-6=01B073;HENTAIGANA LETTER NO-2=01B09A" \o
      ";HENTAIGANA LETTER HU-2=01B0B1;HENTAIGANA LETTER HO-8=01B0C1;HENTAIGANA LETTER MO-3=01B0D9" \o
      ";HENTAIGANA LETTER YA-5=01B0E1;HENTAIGANA LETTER RI-4=01B0F4;HENTAIGANA LETTER WE-3=01B114" \o
      ";BYZANTINE MUSICAL SYMBOL TROMIKOPSIFISTON=01D06B;SIGNWRITING HAND-CUP OPEN THUMB SIDE=01D86E" \o
      ";SIGNWRITING HAND-HOOK INDEX RING LITTLE OUT=01D8BD" \o
      ";LATIN SMALL LETTER LEZH WITH RETROFLEX HOOK=01DF05;TOTO LETTER AE=01E2AB" \o
      ";ADLAM CAPITAL LETTER O=01E90C;ADLAM SMALL LETTER CHI=01E937;ADLAM SMALL LETTER KHA=01E93F" \o
      ";SQUARED FOUR K=01F19E;EXTREMELY HEAVY SIX SPOKED ASTERISK=01F7BA;NEST WITH EGGS=01FABA",
    ";LATIN CAPITAL LETTER G WITH DOT ABOVE=000120;GREEK DIALYTIKA TONOS=000385" \o
      ";CYRILLIC SMALL LETTER KOMI DE=000501;THAANA UBUFILI=0007AA;NKO LETTER RRA=0007DA" \o
      ";ORIYA LETTER I=000B07;MYANMAR VOWEL SIGN UU=001030;ETHIOPIC SYLLABLE SHU=001239" \o
      ";ETHIOPIC SYLLABLE XWA=001288;ETHIOPIC SYLLABLE NYI=00129A;ETHIOPIC SYLLABLE TSI=00133A" \o
      ";ETHIOPIC SYLLABLE PWI=00138D;CANADIAN SYLLABICS FAA=00155A;CANADIAN SYLLABICS CARRIER WI=0015D4" \o
      ";COMBINING DOTTED GRAVE ACCENT=001DC0;EM QUAD=002001;SCRIPT SMALL O=002134;MEASURED ANGLE=002221" \o
      ";REVERSED TILDE EQUALS=0022CD;APL FUNCTIONAL SYMBOL QUAD BACKSLASH=002342" \o
      ";BOX DRAWINGS VERTICAL SINGLE AND LEFT DOUBLE=002561" \o
      ";BOX DRAWINGS VERTICAL DOUBLE AND LEFT SINGLE=002562;CHI RHO=002627;SATURN=002644" \o
      ";EIGHT SPOKED ASTERISK=002733;GREATER-THAN BESIDE LESS-THAN=002AA5;YI SYLLABLE OT=00A00F" \o
      ";YI SYLLABLE TO=00A12B;YI SYLLABLE NU=00A193;YI SYLLABLE ZI=00A28F;YI SYLLABLE JY=00A3F8" \o
      ";HANGUL JONGSEONG RIEUL-PIEUP-TIKEUT=00D7D9;ARABIC LIGATURE SHEEN WITH YEH ISOLATED FORM=00FCFE" \o
      ";REPLACEMENT CHARACTER=00FFFD;LINEAR A SIGN A726 EYYY=010754" \o
      ";OLD HUNGARIAN SMALL LETTER ES=010CE4;SIDDHAM VOWEL SIGN VOCALIC RR=0115B5" \o
      ";DIVES AKURU LETTER UU=011905;EGYPTIAN HIEROGLYPH VERTICAL JOINER=013430" \o
      ";HENTAIGANA LETTER SI-4=01B047;HENTAIGANA LETTER TI-3=01B064;HENTAIGANA LETTER TE-7=01B074" \o
      ";HENTAIGANA LETTER NO-3=01B09B;HENTAIGANA LETTER HU-3=01B0B2;HENTAIGANA LETTER MO-4=01B0DA" \o
      ";HENTAIGANA LETTER RI-5=01B0F5;HENTAIGANA LETTER WE-4=01B115" \o
      ";ZNAMENNY NEUME STRELA KRYUKOVAYA GROMOKRYZHEVAYA=01CFBC;MATHEMATICAL BOLD DIGIT SEVEN=01D7D5" \o
      ";SIGNWRITING HAND-FIST INDEX MIDDLE THUMB ANGLED OUT=01D83E" \o
      ";SIGNWRITING MOVEMENT-FLOORPLANE WAVE LARGE=01D9DE;LATIN SMALL LETTER REVERSED SCRIPT G=01DF01" \o
      ";LATIN SMALL LETTER I WITH STROKE AND RETROFLEX HOOK=01DF1A" \o
      ";PARENTHESIZED LATIN CAPITAL LETTER A=01F110;SQUARED HI-RES=01F1A8",
    ";LATIN SMALL LETTER O WITH CIRCUMFLEX=0000F4;LATIN SMALL LETTER DZ DIGRAPH=0002A3" \o
      ";GREEK CAPITAL LETTER UPSILON WITH DIALYTIKA=0003AB;DEVANAGARI LETTER MARWARI DDA=000978" \o
      ";TIBETAN VOWEL SIGN VOCALIC LL=000F79;ETHIOPIC SYLLABLE QWI=00124A;ETHIOPIC SYLLABLE ZHO=0012E6" \o
      ";ETHIOPIC SYLLABLE THU=001321;CANADIAN SYLLABICS NUNAVIK HE=001574" \o
      ";CANADIAN SYLLABICS CARRIER RO=0015CB;CANADIAN SYLLABICS CARRIER LU=001622" \o
      ";RUNIC LETTER FRANKS CASKET EH=0016F6;TAI THAM LETTER LOW SA=001A2A" \o
      ";LATIN CAPITAL LETTER H WITH DOT ABOVE=001E22;GREEK SMALL LETTER EPSILON WITH OXIA=001F73" \o
      ";EN QUAD=002000;FACSIMILE SIGN=00213B;RIGHT PARENTHESIS LOWER HOOK=0023A0" \o
      ";SYMBOL FOR END OF TRANSMISSION BLOCK=002417;URANUS=002645;SNOWMAN WITHOUT SNOW=0026C4" \o
      ";BACK-TILTED SHADOWED WHITE RIGHTWARDS ARROW=0027AB;UP BARB RIGHT DOWN BARB RIGHT HARPOON=00294F" \o
      ";MEASURED RIGHT ANGLE WITH DOT=00299D;CIRCLED BULLET=0029BF" \o
      ";RIGHTWARDS BLACK CIRCLED WHITE ARROW=002B8A;CJK RADICAL SECOND TWO=002E83" \o
      ";PARENTHESIZED HANGUL KHIEUKH=00320A;YI SYLLABLE UO=00A00D;LISU LETTER PA=00A4D1" \o
      ";LATIN CAPITAL LETTER P WITH FLOURISH=00A752;SAURASHTRA LETTER GHA=00A895" \o
      ";ARABIC LIGATURE RASOUL ISOLATED FORM=00FDF6;PHAISTOS DISC SIGN COMBINING OBLIQUE STROKE=0101FD" \o
      ";OSAGE CAPITAL LETTER A=0104B0;KHAROSHTHI LETTER PHA=010A25;OLD HUNGARIAN SMALL LETTER ET=010CE6" \o
      ";SINHALA ARCHAIC NUMBER EIGHTY=0111F1;CUNEIFORM SIGN LAHSHU=0121F1" \o
      ";CUNEIFORM SIGN SAG TIMES SHID=0122A0;CUNEIFORM SIGN TIR TIMES TAK4=012302;MRO LETTER CHU=016A4B" \o
      ";MEDEFAIDRIN CAPITAL LETTER HP=016E56;HENTAIGANA LETTER KU-1=01B02B" \o
      ";HENTAIGANA LETTER SI-5=01B048;HENTAIGANA LETTER TI-4=01B065;HENTAIGANA LETTER TE-8=01B075" \o
      ";HENTAIGANA LETTER NO-4=01B09C;HENTAIGANA LETTER MO-5=01B0DB;HENTAIGANA LETTER RI-6=01B0F6" \o
      ";HENTAIGANA LETTER WI-1=01B10D;MATHEMATICAL SCRIPT CAPITAL A=01D49C;TOTO LETTER GA=01E295" \o
      ";PARENTHESIZED LATIN CAPITAL LETTER B=01F111;ALCHEMICAL SYMBOL FOR REALGAR=01F73B" \o
      ";LIGHT FOUR POINTED BLACK STAR=01F7C4;RIGHTWARDS BACK-TILTED SHADOWED WHITE ARROW=01F8A9" \o
      ";BEARDED PERSON=01F9D4;PERSON IN STEAMY ROOM=01F9D6" \o
      ";LOWER RIGHT BLOCK DIAGONAL LOWER LEFT TO LOWER MIDDLE RIGHT=01FB48",
    ";LATIN CAPITAL LETTER I WITH DOT ABOVE=000130;LATIN SMALL LETTER LS DIGRAPH=0002AA" \o
      ";ARABIC TONE LOOP ABOVE=0008EC;DEVANAGARI SIGN INVERTED CANDRABINDU=000900" \o
      ";GURMUKHI VOWEL SIGN U=000A41;HANGUL JUNGSEONG YU-U=001193;ETHIOPIC SYLLABLE SZE=001225" \o
      ";ETHIOPIC SYLLABLE KXO=0012BE;ETHIOPIC SYLLABLE ZWA=0012DF;CANADIAN SYLLABICS CARRIER MU=001608" \o
      ";CANADIAN SYLLABICS CARRIER YI=001612;CANADIAN SYLLABICS CARRIER SO=00164F" \o
      ";KHMER SIGN BARIYOOSAN=0017D5;NEW TAI LUE DIGIT ZERO=0019D0;TAI THAM LETTER LOW TA=001A34" \o
      ";BALINESE PANTI=001B5A;GEORGIAN MTAVRULI CAPITAL LETTER BAN=001C91" \o
      ";GREEK SMALL LETTER UPSILON WITH DIALYTIKA AND VARIA=001FE2;ZERO WIDTH NON-JOINER=00200C" \o
      ";APL FUNCTIONAL SYMBOL ALPHA UNDERBAR=002376;BOX DRAWINGS LIGHT ARC DOWN AND RIGHT=00256D" \o
      ";LEFTWARDS TWO-HEADED ARROW WITH TAIL=002B3B;LIGHT FOUR POINTED BLACK CUSP=002BCC" \o
      ";ETHIOPIC SYLLABLE XYA=002DD0;KANGXI RADICAL SPROUT=002F2C" \o
      ";IDEOGRAPHIC TELEGRAPH SYMBOL FOR MAY=0032C4;YI SYLLABLE PU=00A04C;YI SYLLABLE VO=00A0F0" \o
      ";YI SYLLABLE LY=00A1D6;ARABIC LIGATURE NOON WITH JEEM ISOLATED FORM=00FC4B" \o
      ";PHAISTOS DISC SIGN PLANE TREE=0101F2;IMPERIAL ARAMAIC LETTER GIMEL=010842" \o
      ";PHOENICIAN LETTER NUN=01090D;OLD TURKIC LETTER YENISEI AEB=010C0C;OLD UYGHUR LETTER TAW=010F80" \o
      ";NEWA SIGN JIHVAMULIYA=011460;WARANG CITI CAPITAL LETTER YO=0118A5" \o
      ";CUNEIFORM SIGN USH TIMES TAK4=012355;MRO LETTER PHI=016A47;MRO DIGIT ZERO=016A60" \o
      ";HENTAIGANA LETTER KU-2=01B02C;HENTAIGANA LETTER SI-6=01B049;HENTAIGANA LETTER TI-5=01B066" \o
      ";HENTAIGANA LETTER TE-9=01B076;HENTAIGANA LETTER NO-5=01B09D;HENTAIGANA LETTER MO-6=01B0DC" \o
      ";HENTAIGANA LETTER RI-7=01B0F7;HENTAIGANA LETTER RO-1=01B102;HENTAIGANA LETTER WI-2=01B10E" \o
      ";BYZANTINE MUSICAL SYMBOL ANTIKENOMA=01D05C;MUSICAL SYMBOL MINIMA=01D1BB" \o
      ";MATHEMATICAL DOUBLE-STRUCK CAPITAL S=01D54A;SIGNWRITING FOREHEAD CONTACT=01DA12" \o
      ";NYIAKENG PUACHUE HMONG TONE-B=01E130;TOTO LETTER HA=01E29E;ADLAM SMALL LETTER NHA=01E93D" \o
      ";PARENTHESIZED LATIN CAPITAL LETTER C=01F112;SPEECH BALLOON=01F4AC;TAPE CARTRIDGE=01F5AD" \o
      ";MEDIUM SIX POINTED BLACK STAR=01F7CB;LEFTWARDS TRIANGLE ARROWHEAD=01F890" \o
      ";NEUTRAL CHESS BISHOP ROTATED NINETY DEGREES=01FA18" \o
      ";NEUTRAL CHESS KNIGHT ROTATED NINETY DEGREES=01FA19",
    ";LESS-THAN SIGN=00003C;ARABIC LETTER HAH WITH TWO DOTS ABOVE=000757;NKO LETTER NYA=0007E2" \o
      ";MALAYALAM FRACTION ONE EIGHTH=000D77;HANGUL JONGSEONG KIYEOK-SIOS=0011AA" \o
      ";HANGUL JONGSEONG SIOS-KIYEOK=0011E7;ETHIOPIC SYLLABLE TZE=001345;ETHIOPIC NUMBER FIFTY=001376" \o
      ";CANADIAN SYLLABICS AAI=001402;CANADIAN SYLLABICS CARRIER NU=001602" \o
      ";CANADIAN SYLLABICS CARRIER ZI=001644;RUNIC LETTER O=0016AE;TAI LE LETTER A=001963" \o
      ";TAI THAM VOWEL SIGN UE=001A67;GEORGIAN MTAVRULI CAPITAL LETTER CAN=001CAA" \o
      ";GREEK CAPITAL LETTER ALPHA WITH DASIA=001F09;BLACK-LETTER CAPITAL H=00210C;FOR ALL=002200" \o
      ";APL FUNCTIONAL SYMBOL QUAD LESS-THAN=002343;PARENTHESIZED NUMBER FIFTEEN=002482" \o
      ";RECYCLING SYMBOL FOR TYPE-1 PLASTICS=002673" \o
      ";MEASURED ANGLE WITH OPEN ARM ENDING IN ARROW POINTING DOWN AND LEFT=0029AB" \o
      ";MEASURED ANGLE WITH OPEN ARM ENDING IN ARROW POINTING LEFT AND DOWN=0029AF" \o
      ";BLACK DIAMOND ON CROSS=002BDE;ETHIOPIC SYLLABLE QYI=002DC2;ETHIOPIC SYLLABLE KYO=002DCE" \o
      ";YI SYLLABLE MY=00A0CB;YI SYLLABLE WO=00A288;YI SYLLABLE QU=00A40E" \o
      ";LATIN CAPITAL LETTER TURNED H=00A78D;ETHIOPIC SYLLABLE DZU=00AB11" \o
      ";HEBREW LETTER TAV WITH DAGESH=00FB4A;ARABIC LIGATURE SHADDA WITH DAMMA MEDIAL FORM=00FCF3" \o
      ";ARABIC KASRATAN ISOLATED FORM=00FE74;MODIFIER LETTER SMALL TURNED R WITH LONG LEG=0107A6" \o
      ";PALMYRENE LETTER BETH=010861;PALMYRENE NUMBER FIVE=01087D;OLD HUNGARIAN SMALL LETTER EV=010CEE" \o
      ";TAKRI LETTER U=011684;SOYOMBO VOWEL SIGN UE=011A52;BHAIKSUKI NUMBER FOUR=011C5D" \o
      ";CUNEIFORM SIGN EZEN TIMES KU3=0120AE;CUNEIFORM NUMERIC SIGN FOUR ASH TENU=01244C" \o
      ";CUNEIFORM SIGN EZEN SHESHIG TIMES SU=0124B4;BAMUM LETTER PHASE-A GBIEE FON=016801" \o
      ";HENTAIGANA LETTER KU-3=01B02D;HENTAIGANA LETTER SO-1=01B057;HENTAIGANA LETTER TI-6=01B067" \o
      ";HENTAIGANA LETTER MU-1=01B0D0;HENTAIGANA LETTER RO-2=01B103;HENTAIGANA LETTER WI-3=01B10F" \o
      ";TETRAGRAM FOR MEASURE=01D339;TETRAGRAM FOR MASSING=01D340;MATHEMATICAL SCRIPT CAPITAL C=01D49E" \o
      ";MATHEMATICAL DOUBLE-STRUCK CAPITAL T=01D54B" \o
      ";SIGNWRITING HAND-FLAT FIVE FINGERS SPREAD FOUR BENT=01D84E" \o
      ";PARENTHESIZED LATIN CAPITAL LETTER D=01F113;TURTLE=01F422;BREAST-FEEDING=01F931" \o
      ";TAG RIGHT PARENTHESIS=0E0029",
    ";LATIN SMALL LETTER QP DIGRAPH=000239;CYRILLIC SMALL LETTER HA WITH STROKE=0004FF" \o
      ";ARABIC-INDIC DIGIT TWO=000662;ARABIC LETTER KAF WITH TWO DOTS ABOVE=00077F" \o
      ";GURMUKHI ADDAK=000A71;THAI CHARACTER NGO NGU=000E07;ETHIOPIC SYLLABLE XWE=00128D" \o
      ";RUNIC LETTER SOWILO S=0016CA;SUNDANESE CONSONANT SIGN PASANGAN MA=001BAC" \o
      ";GREEK SMALL LETTER ALPHA WITH DASIA AND VARIA=001F03;BLACK-LETTER CAPITAL I=002111" \o
      ";CIRCLED EQUALS=00229C;RIGHT PARENTHESIS UPPER HOOK=00239E" \o
      ";BLACK RIGHT-POINTING DOUBLE TRIANGLE=0023E9;RECYCLING SYMBOL FOR TYPE-2 PLASTICS=002674" \o
      ";DOWNWARDS BLACK ARROW=002B07;NESSUS=002BDC;HYPHEN WITH DIAERESIS=002E1A;CJK STROKE SWG=0031DF" \o
      ";SQUARE ERA NAME HEISEI=00337B;IDEOGRAPHIC TELEGRAPH SYMBOL FOR DAY TWENTY=0033F3" \o
      ";YI SYLLABLE OX=00A010;YI SYLLABLE RU=00A3D6;YI SYLLABLE XO=00A469;LISU LETTER SA=00A4E2" \o
      ";LISU LETTER OE=00A4F7;SAURASHTRA LETTER JHA=00A89A;HEBREW LETTER YOD WITH DAGESH=00FB39" \o
      ";ARABIC LIGATURE NOON WITH JEEM WITH HAH INITIAL FORM=00FDB8;PALMYRENE LETTER KAPH=01086A" \o
      ";PHOENICIAN NUMBER TWO=01091A;KHAROSHTHI LETTER SHA=010A2D;HANIFI ROHINGYA SIGN HARBAHAY=010D24" \o
      ";CHORASMIAN LETTER TAW=010FC4;WARANG CITI CAPITAL LETTER UU=0118A7;MAKASAR END OF SECTION=011EF8" \o
      ";CUNEIFORM SIGN GI CROSSING GI=012103;CUNEIFORM SIGN IGI DIB=012147" \o
      ";BAMUM LETTER PHASE-B MONTIEEN=01687F;MRO LETTER MIM=016A43" \o
      ";PAHAWH HMONG SIGN CIM PUB DAWB=016B76;MEDEFAIDRIN CAPITAL LETTER KP=016E46" \o
      ";HENTAIGANA LETTER KU-4=01B02E;HENTAIGANA LETTER SO-2=01B058;HENTAIGANA LETTER TI-7=01B068" \o
      ";HENTAIGANA LETTER TO-1=01B077;HENTAIGANA LETTER NU-1=01B08F;HENTAIGANA LETTER MU-2=01B0D1" \o
      ";HENTAIGANA LETTER RO-3=01B104;HENTAIGANA LETTER WI-4=01B110;MUSICAL SYMBOL MAXIMA=01D1B6" \o
      ";TETRAGRAM FOR WAITING=01D317;TETRAGRAM FOR SINKING=01D345;MATHEMATICAL SCRIPT CAPITAL D=01D49F" \o
      ";MATHEMATICAL DOUBLE-STRUCK CAPITAL U=01D54C;MATHEMATICAL DOUBLE-STRUCK DIGIT ONE=01D7D9" \o
      ";SIGNWRITING MOVEMENT-WALLPLANE DOUBLE ALTERNATING=01D931;NYIAKENG PUACHUE HMONG TONE-D=01E136" \o
      ";TOTO LETTER JA=01E29D;PARENTHESIZED LATIN CAPITAL LETTER E=01F114" \o
      ";LOWER RIGHT BLOCK DIAGONAL LOWER MIDDLE LEFT TO UPPER RIGHT=01FB44" \o
      ";LOWER RIGHT BLOCK DIAGONAL LOWER LEFT TO UPPER MIDDLE RIGHT=01FB4A" \o
      ";UPPER RIGHT BLOCK DIAGONAL LOWER MIDDLE LEFT TO LOWER RIGHT=01FB53",
    ";LATIN SMALL LETTER S WITH CIRCUMFLEX=00015D;GUJARATI VOWEL SIGN VOCALIC L=000AE2" \o
      ";LAO LETTER NYO=000E8D;ETHIOPIC COMMA=001363;CANADIAN SYLLABICS KAA=001473" \o
      ";CANADIAN SYLLABICS NUNAVIK HI=001575;CANADIAN SYLLABICS CARRIER PU=0015E8;RUNIC LETTER Q=0016E9" \o
      ";GEORGIAN MTAVRULI CAPITAL LETTER AEN=001CBD;APL FUNCTIONAL SYMBOL OMEGA UNDERBAR=002379" \o
      ";BOTTOM SQUARE BRACKET=0023B5;BOX DRAWINGS LIGHT UP AND HORIZONTAL=002534" \o
      ";RECYCLING SYMBOL FOR TYPE-3 PLASTICS=002675;BLACK SAFETY SCISSORS=002700;BLACK FLORETTE=00273F" \o
      ";HEAVY ROUND-TIPPED RIGHTWARDS ARROW=00279C;UNION WITH MINUS SIGN=002A41" \o
      ";GLAGOLITIC SMALL LETTER INITIAL IZHE=002C3A;ETHIOPIC SYLLABLE SSO=002DA6" \o
      ";ETHIOPIC SYLLABLE ZZA=002DB0;ETHIOPIC SYLLABLE GYU=002DD9;CORNISH VERSE DIVIDER=002E4F" \o
      ";CJK RADICAL DOG=002EA8;HANGZHOU NUMERAL FIVE=003025;HANGZHOU NUMERAL NINE=003029" \o
      ";HANGUL LETTER PHIEUPH=00314D;PARENTHESIZED IDEOGRAPH MOON=00322A" \o
      ";PARENTHESIZED IDEOGRAPH WOOD=00322D;CIRCLED HANGUL IEUNG U=00327E;YI SYLLABLE SU=00A320" \o
      ";YI SYLLABLE YO=00A47F;LISU LETTER TA=00A4D4" \o
      ";MODIFIER LETTER EXTRA-LOW DOTTED LEFT-STEM TONE BAR=00A711;LATIN CAPITAL LETTER SCRIPT G=00A7AC" \o
      ";SAURASHTRA LETTER KHA=00A893;HEBREW LETTER VAV WITH DAGESH=00FB35" \o
      ";HEBREW LETTER TET WITH DAGESH=00FB38;ARABIC LIGATURE NOON WITH MEEM ISOLATED FORM=00FC4E" \o
      ";FULLWIDTH DOLLAR SIGN=00FF04;COPTIC EPACT DIGIT ONE=0102E1;OLD PERSIAN SIGN AURAMAZDAAHA=0103CA" \o
      ";OSAGE CAPITAL LETTER E=0104B7;IMPERIAL ARAMAIC NUMBER THREE=01085A" \o
      ";MEROITIC CURSIVE NUMBER FOUR=0109C3;KHAROSHTHI LETTER NNA=010A1E;KHAROSHTHI LETTER THA=010A20" \o
      ";KHAROSHTHI DIGIT FOUR=010A43;OLD SOUTH ARABIAN LETTER SHIN=010A66" \o
      ";OLD SOUTH ARABIAN LETTER RESH=010A67;OLD NORTH ARABIAN LETTER NOON=010A8C;RUMI DIGIT SIX=010E65" \o
      ";OLD UYGHUR LETTER WAW=010F73;CUNEIFORM SIGN AN THREE TIMES=01202F" \o
      ";CUNEIFORM SIGN LU2 TIMES SIK2 PLUS BU=01220F;MRO LETTER SHI=016A54;MRO LETTER TEK=016A5E" \o
      ";HENTAIGANA LETTER KU-5=01B02F;HENTAIGANA LETTER SO-3=01B059;HENTAIGANA LETTER TO-2=01B078" \o
      ";HENTAIGANA LETTER NU-2=01B090;HENTAIGANA LETTER MU-3=01B0D2;HENTAIGANA LETTER RO-4=01B105" \o
      ";HENTAIGANA LETTER WI-5=01B111;ZNAMENNY NEUME OBLAKO=01CFC0" \o
      ";MATHEMATICAL DOUBLE-STRUCK CAPITAL V=01D54D;MATHEMATICAL ITALIC SMALL RHO=01D70C" \o
      ";SIGNWRITING HAND-FIST INDEX MIDDLE CONJOINED HINGED=01D819" \o
      ";SIGNWRITING MOVEMENT-FLOORPLANE DOUBLE WRIST FLEX=01D96B;TOTO LETTER KA=01E294" \o
      ";ADLAM CAPITAL LETTER U=01E913;PARENTHESIZED LATIN CAPITAL LETTER F=01F115" \o
      ";TEACUP WITHOUT HANDLE=01F375;GRADUATION CAP=01F393;SMILING FACE WITH HALO=01F607" \o
      ";DOWNWARD FACING HOOK WITH DOT=01F90A",
    ";CYRILLIC CAPITAL LETTER YERU WITH DIAERESIS=0004F8;NKO LETTER NYA WOLOSO=0007E7" \o
      ";NKO LAJANYALAN=0007FA;SAMARITAN MARK IN-ALAF=000817;ARABIC SMALL HIGH WORD AN-NISF=0008DC" \o
      ";ORIYA LETTER O=000B13;ETHIOPIC SYLLABLE SZI=001222;ETHIOPIC SYLLABLE NYO=00129E" \o
      ";ETHIOPIC SYLLABLE TSO=00133E;ETHIOPIC COMBINING GEMINATION AND VOWEL LENGTH MARK=00135D" \o
      ";CANADIAN SYLLABICS FINAL PLUS=001429;CANADIAN SYLLABICS LAA=0014DB" \o
      ";CANADIAN SYLLABICS SAYISI SHA=00159A;CANADIAN SYLLABICS CARRIER WO=0015D1" \o
      ";HANUNOO SIGN PAMUDPOD=001734;KHMER INDEPENDENT VOWEL QUUV=0017AA;BATAK LETTER PAKPAK WA=001BCD" \o
      ";LATIN LETTER SMALL CAPITAL OU=001D15;LATIN CAPITAL LETTER M WITH DOT ABOVE=001E40" \o
      ";LATIN CAPITAL LETTER A WITH DOT BELOW=001EA0;GREEK CAPITAL LETTER OMEGA WITH DASIA=001F69" \o
      ";APL FUNCTIONAL SYMBOL DELTA UNDERBAR=002359;RECYCLING SYMBOL FOR TYPE-4 PLASTICS=002676" \o
      ";Z NOTATION TYPE COLON=002982;INTEGRAL WITH OVERBAR=002A1B" \o
      ";MULTIPLICATION SIGN IN DOUBLE CIRCLE=002A37;ETHIOPIC SYLLABLE XYE=002DD5" \o
      ";PART ALTERNATION MARK=00303D;CIRCLED NUMBER THIRTY=00325A;YI SYLLABLE PY=00A052" \o
      ";YI SYLLABLE TU=00A132;YI SYLLABLE ZO=00A29D;LATIN CAPITAL LETTER TURNED K=00A7B0" \o
      ";TAI VIET SYMBOL HO HOI=00AADE;MEETEI MAYEK LETTER BA=00ABD5;MEETEI MAYEK DIGIT ONE=00ABF1" \o
      ";HANGUL JONGSEONG TIKEUT-SIOS-KIYEOK=00D7D1" \o
      ";ARABIC LIGATURE YEH WITH MEEM WITH MEEM INITIAL FORM=00FD9D" \o
      ";OLD HUNGARIAN SMALL LETTER OO=010CDC;MODI LETTER UU=011605;CUNEIFORM SIGN AMAR TIMES KUG=012372" \o
      ";MRO LETTER NIN=016A4F;HENTAIGANA LETTER KU-6=01B030;HENTAIGANA LETTER SO-4=01B05A" \o
      ";HENTAIGANA LETTER TO-3=01B079;HENTAIGANA LETTER NU-3=01B091;HENTAIGANA LETTER MU-4=01B0D3" \o
      ";HENTAIGANA LETTER RO-5=01B106;GREEK VOCAL NOTATION SYMBOL-1=01D200" \o
      ";MATHEMATICAL DOUBLE-STRUCK CAPITAL W=01D54E;MATHEMATICAL ITALIC SMALL TAU=01D70F" \o
      ";TOTO LETTER LA=01E2A0;PARENTHESIZED LATIN CAPITAL LETTER G=01F116" \o
      ";HAPPY PERSON RAISING ONE HAND=01F64B;DIAMOND TARGET=01F79C;SHORTS=01FA73",
    ";LATIN SMALL LETTER U WITH CIRCUMFLEX=0000FB;CYRILLIC SMALL LETTER KA WITH STROKE=00049F" \o
      ";NKO COMBINING SHORT HIGH TONE=0007EB;SINHALA LITH DIGIT ONE=000DE7" \o
      ";THAI CHARACTER WO WAEN=000E27;THAI CHARACTER SARA UU=000E39" \o
      ";MYANMAR LETTER SGAW KAREN SHA=001061;ETHIOPIC SYLLABLE ZHU=0012E1;ETHIOPIC SYLLABLE TZI=001342" \o
      ";CANADIAN SYLLABICS MAA=0014AB;CANADIAN SYLLABICS CARRIER RU=0015CA;TAI LE LETTER E=00196B" \o
      ";TAI THAM LETTER LOW YA=001A3F;TAI THAM VOWEL SIGN OO=001A70" \o
      ";GEORGIAN MTAVRULI CAPITAL LETTER GAN=001C92;GEORGIAN MTAVRULI CAPITAL LETTER HIE=001CB2" \o
      ";LATIN CAPITAL LETTER B WITH DOT BELOW=001E04;LATIN CAPITAL LETTER N WITH DOT ABOVE=001E44" \o
      ";GREEK SMALL LETTER OMEGA WITH DASIA AND VARIA=001F63;DEGREE CELSIUS=002103" \o
      ";LATIN SMALL LETTER REVERSED C=002184;RIGHT ONE EIGHTH BLOCK=002595" \o
      ";WHITE DOWN-POINTING TRIANGLE=0025BD;TAURUS=002649;RECYCLING SYMBOL FOR TYPE-5 PLASTICS=002677" \o
      ";CIRCLED PERPENDICULAR=0029B9;PLUS SIGN WITH BLACK TRIANGLE=002A28" \o
      ";GREATER-THAN OR SLANTED EQUAL TO WITH DOT ABOVE LEFT=002A84;DAGGER WITH LEFT GUARD=002E36" \o
      ";KANGXI RADICAL HALBERD=002F3D;YI SYLLABLE QY=00A414;CYRILLIC CAPITAL LETTER IOTIFIED YAT=00A652" \o
      ";LATIN CAPITAL LETTER TURNED L=00A780;SAURASHTRA LETTER NGA=00A896" \o
      ";ARABIC LIGATURE SHADDA WITH FATHA MEDIAL FORM=00FCF2" \o
      ";ARABIC LIGATURE NOON WITH HAH WITH MEEM INITIAL FORM=00FD95;ZWNBSP=00FEFF" \o
      ";OSAGE SMALL LETTER CHA=0104DD;KHAROSHTHI LETTER VHA=010A35;OLD SOUTH ARABIAN LETTER YODH=010A7A" \o
      ";OLD SOUTH ARABIAN LETTER THAW=010A7B;OLD TURKIC LETTER YENISEI AEG=010C10" \o
      ";OLD HUNGARIAN CAPITAL LETTER ENT-SHAPED SIGN=010CB1;OLD HUNGARIAN SMALL LETTER EZ=010CEF" \o
      ";OLD UYGHUR LETTER NUN=010F7A;CHORASMIAN LETTER WAW=010FB6;COMBINING GRANTHA DIGIT THREE=011369" \o
      ";MONGOLIAN DOUBLE BIRGA WITH ORNAMENT=011662;MONGOLIAN BIRGA WITH DOUBLE ORNAMENT=011664" \o
      ";WARANG CITI SMALL LETTER HOLO=0118DA;WARANG CITI DIGIT FIVE=0118E5" \o
      ";WARANG CITI DIGIT NINE=0118E9;MASARAM GONDI LETTER A=011D00;GUNJALA GONDI LETTER A=011D60" \o
      ";CUNEIFORM SIGN DUG TIMES MASH=0124A2;HENTAIGANA LETTER KU-7=01B031" \o
      ";HENTAIGANA LETTER SO-5=01B05B;HENTAIGANA LETTER TO-4=01B07A;HENTAIGANA LETTER RO-6=01B107" \o
      ";HENTAIGANA LETTER WO-1=01B116;BYZANTINE MUSICAL SYMBOL DYO=01D02F" \o
      ";GREEK VOCAL NOTATION SYMBOL-2=01D201;TETRAGRAM FOR KINSHIP=01D327" \o
      ";MATHEMATICAL SCRIPT CAPITAL G=01D4A2;MATHEMATICAL DOUBLE-STRUCK CAPITAL X=01D54F" \o
      ";MATHEMATICAL SANS-SERIF BOLD ITALIC CAPITAL UPSILON=01D7A4;SIGNWRITING HAND-FLAT=01D85A" \o
      ";SIGNWRITING HAND-CLAW=01D866;SIGNWRITING HAND-FIST THUMB UNDER LITTLE UP=01D893" \o
      ";SIGNWRITING MOVEMENT-FLOORPLANE WAVE SNAKE=01D9DC;NYIAKENG PUACHUE HMONG TONE-G=01E135" \o
      ";NYIAKENG PUACHUE HMONG LOGOGRAM NYAJ=01E14E;TOTO LETTER MA=01E296;ADLAM SMALL LETTER SHA=01E943" \o
      ";PLAYING CARD RED JOKER=01F0BF;PARENTHESIZED LATIN CAPITAL LETTER H=01F117" \o
      ";CIRCLED ITALIC LATIN CAPITAL LETTER R=01F12C;COCKTAIL GLASS=01F378" \o
      ";WIDE-HEADED NORTH WEST VERY HEAVY BARB ARROW=01F884;TURKEY=01F983" \o
      ";LOWER RIGHT BLOCK DIAGONAL UPPER MIDDLE LEFT TO UPPER RIGHT=01FB42" \o
      ";UPPER RIGHT BLOCK DIAGONAL UPPER MIDDLE LEFT TO LOWER RIGHT=01FB55" \o
      ";UPPER RIGHT BLOCK DIAGONAL UPPER LEFT TO LOWER MIDDLE RIGHT=01FB65",
    ";START OF SELECTED AREA=000086;LATIN CAPITAL LETTER TURNED M=00019C" \o
      ";LATIN CAPITAL LETTER O WITH DOT ABOVE=00022E" \o
      ";LATIN SMALL LETTER REVERSED OPEN E WITH HOOK=00025D;COMBINING VERTICAL LINE ABOVE=00030D" \o
      ";CYRILLIC CAPITAL LETTER IOTIFIED LITTLE YUS=000468;ARABIC LETTER REH WITH STROKE=00075B" \o
      ";NKO DANTAYALAN=0007FD;DEVANAGARI VOWEL SIGN SHORT E=000946;ETHIOPIC SYLLABLE XWI=00128A" \o
      ";ETHIOPIC SYLLABLE KXU=0012B9;ETHIOPIC COMBINING VOWEL LENGTH MARK=00135E" \o
      ";CANADIAN SYLLABICS NAA=0014C8;CANADIAN SYLLABICS CARRIER YO=00160F" \o
      ";CANADIAN SYLLABICS CARRIER SU=00164E;KHMER INDEPENDENT VOWEL QOO TYPE ONE=0017B1" \o
      ";CANADIAN SYLLABICS OJIBWAY SH=0018DB;CYRILLIC SMALL LETTER WIDE ES=001C83" \o
      ";LATIN SMALL LETTER A WITH BREVE AND DOT BELOW=001EB7;REVERSED SANS-SERIF CAPITAL L=002143" \o
      ";SMALL ELEMENT OF WITH OVERBAR=0022F7;TOP RIGHT CROP=00230E" \o
      ";DENTISTRY SYMBOL LIGHT UP AND HORIZONTAL WITH WAVE=0023C8;METRICAL BREVE=0023D1" \o
      ";SQUARE WITH DIAGONAL CROSSHATCH FILL=0025A9;BIOHAZARD SIGN=002623" \o
      ";RECYCLING SYMBOL FOR TYPE-6 PLASTICS=002678;DINGBAT CIRCLED SANS-SERIF DIGIT FIVE=002784" \o
      ";DINGBAT CIRCLED SANS-SERIF DIGIT NINE=002788" \o
      ";RIGHT SQUARE BRACKET WITH TICK IN TOP CORNER=002990;CJK RADICAL SPIRIT ONE=002EAC" \o
      ";PARENTHESIZED IDEOGRAPH FOUR=003223;YI SYLLABLE VU=00A0F6;YI SYLLABLE RY=00A3DC" \o
      ";LISU LETTER WA=00A4EA;JAVANESE PADA ADEG ADEG=00A9CB;FULLWIDTH DIGIT SEVEN=00FF17" \o
      ";OSAGE SMALL LETTER DHA=0104F5;KHAROSHTHI NUMBER TEN=010A44;OLD SOUTH ARABIAN LETTER TETH=010A77" \o
      ";NEWA LETTER UU=011405;WARANG CITI CAPITAL LETTER YU=0118A3;CUNEIFORM SIGN ARAD TIMES KUR=012035" \o
      ";CUNEIFORM SIGN SHA3 TIMES TUR=0122B4;CUNEIFORM SIGN SHIM TIMES IGI=0122CC" \o
      ";PAHAWH HMONG DIGIT ONE=016B51;HENTAIGANA LETTER SO-6=01B05C;HENTAIGANA LETTER TO-5=01B07B" \o
      ";HENTAIGANA LETTER RU-1=01B0F8;HENTAIGANA LETTER WO-2=01B117" \o
      ";BYZANTINE MUSICAL SYMBOL APOSTROFOI SYNDESMOS NEO=01D052;GREEK VOCAL NOTATION SYMBOL-3=01D202" \o
      ";MATHEMATICAL DOUBLE-STRUCK CAPITAL Y=01D550;MATHEMATICAL ITALIC SMALL PSI=01D713" \o
      ";TOTO LETTER NA=01E297;PARENTHESIZED LATIN CAPITAL LETTER I=01F118;HOT DOG=01F32D" \o
      ";JAPANESE DOLLS=01F38E;HANDBAG=01F45C;CANCELLATION X=01F5D9;SMALL AIRPLANE=01F6E9" \o
      ";ALCHEMICAL SYMBOL FOR ARSENIC=01F73A",
    ";LATIN SMALL LETTER W WITH CIRCUMFLEX=000175;LATIN SMALL LETTER REVERSED E=000258" \o
      ";LATIN SMALL LETTER LZ DIGRAPH=0002AB;HEBREW ACCENT MAHAPAKH=0005A4;SAMARITAN LETTER RISH=000813" \o
      ";LAO TONE MAI TI=000ECA;TIBETAN MARK TSA -PHRU=000F39;CANADIAN SYLLABICS CARRIER ZO=001641" \o
      ";TAI THAM COMBINING CRYPTOGRAMMIC DOT=001A7F;COMBINING TRIPLE ACUTE ACCENT=001ACB" \o
      ";BALINESE MUSICAL SYMBOL DAENG=001B67;GEORGIAN MTAVRULI CAPITAL LETTER RAE=001CA0" \o
      ";GEORGIAN MTAVRULI CAPITAL LETTER CIL=001CAC;GEORGIAN MTAVRULI CAPITAL LETTER AIN=001CBA" \o
      ";SUNDANESE PUNCTUATION BINDU PURNAMA=001CC2;LATIN CAPITAL LETTER D WITH DOT BELOW=001E0C" \o
      ";LATIN CAPITAL LETTER P WITH DOT ABOVE=001E56;RECYCLING SYMBOL FOR TYPE-7 PLASTICS=002679" \o
      ";MATHEMATICAL FALLING DIAGONAL=0027CD;UP DOWN TRIANGLE-HEADED ARROW=002B65" \o
      ";ETHIOPIC SYLLABLE ZZE=002DB5;ETHIOPIC SYLLABLE QYO=002DC6;ETHIOPIC SYLLABLE KYU=002DC9" \o
      ";CJK STROKE HZT=0031CA;IDEOGRAPHIC TELEGRAPH SYMBOL FOR HOUR TWENTY-THREE=00336F" \o
      ";YI SYLLABLE WU=00A015;YI SYLLABLE SY=00A326;LISU LETTER XA=00A4E7" \o
      ";CHAM PUNCTUATION DOUBLE DANDA=00AA5E;HEBREW LETTER NUN WITH DAGESH=00FB40" \o
      ";ARABIC LETTER BEEH MEDIAL FORM=00FB55;GREEK ACROPHONIC ATTIC FIFTY TALENTS=01014A" \o
      ";OSAGE CAPITAL LETTER I=0104BB;PALMYRENE LETTER HETH=010867;CHORASMIAN LETTER NUN=010FBE" \o
      ";CUNEIFORM SIGN SHIM TIMES GAR=0122CB;CUNEIFORM SIGN MUSH3 TIMES ZA=01238D" \o
      ";CUNEIFORM SIGN DUG TIMES GISH=012496;BAMUM LETTER PHASE-C MBAA CABBAGE-TREE=01689E" \o
      ";HENTAIGANA LETTER SU-1=01B04A;HENTAIGANA LETTER SO-7=01B05D;HENTAIGANA LETTER TO-6=01B07C" \o
      ";HENTAIGANA LETTER YO-1=01B0E7;HENTAIGANA LETTER RU-2=01B0F9;HENTAIGANA LETTER WO-3=01B118" \o
      ";GREEK VOCAL NOTATION SYMBOL-4=01D203;SIGNWRITING HAND-FIST LITTLE RAISED KNUCKLE=01D897" \o
      ";PARENTHESIZED LATIN CAPITAL LETTER J=01F119;TROPHY=01F3C6;ROLLING ON THE FLOOR LAUGHING=01F923" \o
      ";OYSTER=01F9AA",
    ";LATIN CAPITAL LETTER A=000041;LATIN SMALL LETTER TS DIGRAPH=0002A6" \o
      ";ARABIC LETTER AIN WITH TWO DOTS ABOVE=00075D;SAMARITAN PUNCTUATION AFSAAQ=000831" \o
      ";SINHALA SIGN AL-LAKUNA=000DCA;TIBETAN DIGIT HALF SIX=000F2F;MYANMAR SIGN ANUSVARA=001036" \o
      ";HANGUL JONGSEONG SIOS=0011BA;CANADIAN SYLLABICS PAA=001439;CANADIAN SYLLABICS SAYISI SHE=001597" \o
      ";RUNIC LETTER V=0016A1;LATIN CAPITAL LETTER E WITH DOT BELOW=001EB8" \o
      ";BLACK MEDIUM RIGHT-POINTING TRIANGLE=0023F5;BOX DRAWINGS HEAVY UP AND HORIZONTAL=00253B" \o
      ";WHITE HEAVY CHECK MARK=002705;LIGHT RIGHT TORTOISE SHELL BRACKET ORNAMENT=002773" \o
      ";REVERSED ANGLE=0029A3;ETHIOPIC SYLLABLE XYI=002DD2;CJK RADICAL OLD=002EB9" \o
      ";PARENTHESIZED IDEOGRAPH REST=003241;LISU LETTER YA=00A4EC;LISU LETTER EU=00A4F1" \o
      ";LISU LETTER UE=00A4F5;SAURASHTRA LETTER PHA=00A8A7;SAURASHTRA LETTER LLA=00A8B3" \o
      ";ARABIC SYMBOL FOUR DOTS BELOW=00FBBB;IMPERIAL ARAMAIC SECTION SIGN=010857" \o
      ";KHAROSHTHI PUNCTUATION DANDA=010A56;NEWA OM=011449;CUNEIFORM SIGN AB2 TIMES BALAG=012017" \o
      ";CUNEIFORM SIGN DIN KASKAL U GUNU DISH=012078;CUNEIFORM SIGN EN CROSSING EN=01209B" \o
      ";CUNEIFORM SIGN SHIM TIMES DIN=0122CA;PAHAWH HMONG SIGN XIAB=016B6A" \o
      ";HENTAIGANA LETTER SU-2=01B04B;HENTAIGANA LETTER TU-1=01B069;HENTAIGANA LETTER YO-2=01B0E8" \o
      ";HENTAIGANA LETTER RU-3=01B0FA;HENTAIGANA LETTER WO-4=01B119" \o
      ";BYZANTINE MUSICAL SYMBOL KENTIMATA NEO KATO=01D0F2;MUSICAL SYMBOL REVERSE FINAL BARLINE=01D103" \o
      ";GREEK VOCAL NOTATION SYMBOL-5=01D204;MATHEMATICAL SCRIPT CAPITAL J=01D4A5" \o
      ";NYIAKENG PUACHUE HMONG TONE-J=01E132;TOTO LETTER PA=01E290" \o
      ";PARENTHESIZED LATIN CAPITAL LETTER K=01F11A;CIRCLED SQUARE=01F7D7;LEFTWARDS HAND=01FAF2" \o
      ";UPPER RIGHT BLOCK DIAGONAL UPPER LEFT TO UPPER MIDDLE RIGHT=01FB63" \o
      ";STICK FIGURE WITH ARMS RAISED=01FBC6",
    ";LATIN CAPITAL LETTER B=000042;DEVICE CONTROL STRING=000090" \o
      ";LATIN SMALL LETTER Y WITH CIRCUMFLEX=000177;SYRIAC LETTER SEMKATH=000723" \o
      ";ARABIC LETTER SEEN WITH SMALL ARABIC LETTER TAH AND TWO DOTS=000770" \o
      ";GUJARATI VOWEL SIGN VOCALIC R=000AC3;CANADIAN SYLLABICS NUNAVIK HO=001577" \o
      ";CANADIAN SYLLABICS QAA=001584;RUNIC LETTER W=0016A5;TAI LE LETTER I=001964" \o
      ";GEORGIAN MTAVRULI CAPITAL LETTER KAN=001C99;LATIN CAPITAL LETTER R WITH DOT ABOVE=001E58" \o
      ";LATIN CAPITAL LETTER A WITH CIRCUMFLEX AND DOT BELOW=001EAC;UP TACK=0022A5" \o
      ";DOES NOT PROVE=0022AC;WHITE QUESTION MARK ORNAMENT=002754" \o
      ";THREE-D BOTTOM-LIGHTED RIGHTWARDS ARROWHEAD=0027A3;ETHIOPIC SYLLABLE SSU=002DA1" \o
      ";TOP RIGHT HALF BRACKET=002E23;CJK RADICAL RAM=002EB7;PARENTHESIZED HANGUL PHIEUPH=00320C" \o
      ";CIRCLED IDEOGRAPH MALE=00329A;YI SYLLABLE YU=00A483;LISU LETTER ZA=00A4E4" \o
      ";LATIN SMALL LETTER L WITH MIDDLE RING=00AB39;HEBREW LETTER WIDE KAF=00FB24" \o
      ";OSAGE SMALL LETTER GHA=0104F9;OLD SOUTH ARABIAN LETTER QOPH=010A64" \o
      ";OLD TURKIC LETTER YENISEI AEK=010C1B;RUMI DIGIT TWO=010E61;CHORASMIAN NUMBER TWO=010FC6" \o
      ";GRANTHA VOWEL SIGN VOCALIC RR=011344;GRANTHA AU LENGTH MARK=011357" \o
      ";MASARAM GONDI LETTER E=011D06;HENTAIGANA LETTER SU-3=01B04C;HENTAIGANA LETTER TU-2=01B06A" \o
      ";HENTAIGANA LETTER YO-3=01B0E9;HENTAIGANA LETTER RU-4=01B0FB;HENTAIGANA LETTER WO-5=01B11A" \o
      ";BYZANTINE MUSICAL SYMBOL SIMANSIS ARSEOS TRISIMOU=01D0E4" \o
      ";BYZANTINE MUSICAL SYMBOL DIGRAMMA GG=01D0E6;GREEK VOCAL NOTATION SYMBOL-6=01D205" \o
      ";DIGRAM FOR HUMAN EARTH=01D302;COUNTING ROD TENS DIGIT EIGHT=01D370" \o
      ";MATHEMATICAL SCRIPT CAPITAL K=01D4A6" \o
      ";SIGNWRITING HAND-FIST INDEX MIDDLE CONJOINED THUMB FORWARD=01D834" \o
      ";SIGNWRITING HAND-ANGLE MIDDLE RING LITTLE IN=01D8D3" \o
      ";SIGNWRITING MOVEMENT-WALLPLANE HUMP MEDIUM=01D993" \o
      ";SIGNWRITING MOVEMENT-WALLPLANE LOOP MEDIUM=01D996;ARABIC MATHEMATICAL TAILED DAD=01EE59" \o
      ";PARENTHESIZED LATIN CAPITAL LETTER L=01F11B;OLD KEY=01F5DD",
    ";LATIN CAPITAL LETTER C=000043;HEBREW PUNCTUATION SOF PASUQ=0005C3" \o
      ";ARABIC LETTER GAF WITH TWO DOTS BELOW=0006B2;ORIYA LETTER U=000B09" \o
      ";SINHALA LETTER TAALUJA SANYOOGA NAAKSIKYAYA=000DA5;ETHIOPIC SYLLABLE SZO=001226" \o
      ";ETHIOPIC SYLLABLE NYU=001299;ETHIOPIC SYLLABLE TSU=001339;CANADIAN SYLLABICS RAA=00154C" \o
      ";CANADIAN SYLLABICS CARRIER WU=0015D0;RUNIC LETTER X=0016EA" \o
      ";GEORGIAN MTAVRULI CAPITAL LETTER HAR=001CB4;LATIN SMALL LETTER SIDEWAYS TURNED M=001D1F" \o
      ";LATIN CAPITAL LETTER S WITH DOT ABOVE=001E60" \o
      ";LATIN SMALL LETTER S WITH ACUTE AND DOT ABOVE=001E65" \o
      ";LATIN SMALL LETTER Z WITH CIRCUMFLEX=001E91;SIMILAR ABOVE GREATER-THAN ABOVE EQUALS SIGN=002AA0" \o
      ";GLAGOLITIC CAPITAL LETTER SHA=002C1E;CJK RADICAL EWE=002EB8;CJK STROKE HZW=0031CD" \o
      ";CIRCLED IDEOGRAPH HIGH=0032A4;HEXAGRAM FOR PROGRESS=004DE2;YI SYLLABLE VY=00A0FC" \o
      ";YI SYLLABLE ZU=00A2A4;CYRILLIC SMALL LETTER SOFT DE=00A663;LATIN SMALL LETTER VOLAPUK AE=00A79B" \o
      ";TAI VIET LETTER LOW BO=00AA9A;MODIFIER LETTER SMALL CLOSED REVERSED OPEN E=01078F" \o
      ";TIRHUTA VOWEL SIGN UU=0114B4;BAMUM LETTER PHASE-A MAEMVEUX=01680E" \o
      ";BAMUM LETTER PHASE-A NTAP MFAA=016819;BAMUM LETTER PHASE-A U YUQ NAE=016820" \o
      ";HENTAIGANA LETTER SU-4=01B04D;HENTAIGANA LETTER TU-3=01B06B;HENTAIGANA LETTER YO-4=01B0EA" \o
      ";HENTAIGANA LETTER RU-5=01B0FC;HENTAIGANA LETTER WO-6=01B11B" \o
      ";MUSICAL SYMBOL NOTEHEAD BLACK=01D158;GREEK VOCAL NOTATION SYMBOL-7=01D206" \o
      ";SIGNWRITING MOVEMENT-FLOORPLANE SINGLE WRIST FLEX=01D969" \o
      ";SIGNWRITING MOVEMENT-FLOORPLANE BOX MEDIUM=01D979;TOTO LETTER RA=01E29F" \o
      ";PARENTHESIZED LATIN CAPITAL LETTER M=01F11C;THUMBS UP SIGN=01F44D;OCTAGONAL SIGN=01F6D1",
    ";LATIN CAPITAL LETTER D=000044;COMBINING DOUBLE MACRON BELOW=00035F" \o
      ";ARMENIAN SMALL LETTER YI WITH STROKE=000588;SYRIAC SUPRALINEAR FULL STOP=000701" \o
      ";SYRIAC BARREKH=00074A;GURMUKHI SIGN VISARGA=000A03;TIBETAN VOWEL SIGN VOCALIC RR=000F77" \o
      ";HANGUL JONGSEONG SIOS-TIKEUT=0011E8;ETHIOPIC SYLLABLE TZO=001346;CANADIAN SYLLABICS CII=00148C" \o
      ";CANADIAN SYLLABICS SAA=0014F5;CANADIAN SYLLABICS LHA=0015A4;RUNIC LETTER Y=0016A4" \o
      ";BALINESE WINDU=001B5C;BALINESE MUSICAL SYMBOL DAING=001B69;CYRILLIC SMALL LETTER TALL TE=001C84" \o
      ";GEORGIAN MTAVRULI CAPITAL LETTER MAN=001C9B;GEORGIAN MTAVRULI CAPITAL LETTER HOE=001CB5" \o
      ";LATIN CAPITAL LETTER H WITH DOT BELOW=001E24" \o
      ";LATIN SMALL LETTER S WITH CARON AND DOT ABOVE=001E67" \o
      ";LATIN CAPITAL LETTER T WITH DOT ABOVE=001E6A;COMBINING LONG VERTICAL LINE OVERLAY=0020D2" \o
      ";BLACK-LETTER CAPITAL R=00211C;CIRCLED NUMBER TWENTY=002473;OPEN CENTRE BLACK STAR=00272B" \o
      ";HEAVY RIGHT-POINTING ANGLE QUOTATION MARK ORNAMENT=00276F;PLUS SIGN WITH SUBSCRIPT TWO=002A27" \o
      ";ETHIOPIC SYLLABLE ZZI=002DB2;CJK RADICAL SIMPLIFIED YELLOW=002EE9;HANGUL LETTER THIEUTH=00314C" \o
      ";CIRCLED IDEOGRAPH NAME=003294;LISU LETTER UH=00A4F6;PHAGS-PA LETTER VOICELESS SHA=00A86E" \o
      ";SAURASHTRA LETTER SHA=00A8AF;CHAM CONSONANT SIGN LA=00AA35;TAI VIET LETTER LOW CO=00AA8A" \o
      ";HANGUL JUNGSEONG I-O-I=00D7C1;HANGUL JONGSEONG TIKEUT-SIOS=00D7D0" \o
      ";ARABIC LETTER DAHAL FINAL FORM=00FB85;MODIFIER LETTER LATERAL CLICK=0107B7" \o
      ";BRAHMI NUMBER SEVENTY=011061;WARANG CITI SMALL LETTER NUNG=0118D3;CUNEIFORM SIGN SUMASH=0122E8" \o
      ";HENTAIGANA LETTER SU-5=01B04E;HENTAIGANA LETTER TU-4=01B06C;HENTAIGANA LETTER YO-5=01B0EB" \o
      ";HENTAIGANA LETTER RU-6=01B0FD;HENTAIGANA LETTER WO-7=01B11C" \o
      ";MUSICAL SYMBOL DASHED BARLINE=01D104;GREEK VOCAL NOTATION SYMBOL-8=01D207" \o
      ";MAYAN NUMERAL SIXTEEN=01D2F0;NYIAKENG PUACHUE HMONG TONE-M=01E131;TOTO LETTER SA=01E299" \o
      ";TOTO LETTER EO=01E2A8;PARENTHESIZED LATIN CAPITAL LETTER N=01F11D" \o
      ";NORTH EAST POINTING VINE LEAF=01F65A;SMILING FACE WITH TEAR=01F972",
    ";LATIN CAPITAL LETTER E=000045;GREEK SMALL LETTER CHI=0003C7;ARABIC LETTER THIN YEH=000886" \o
      ";ARABIC TONE LOOP BELOW=0008EF;TELUGU SIGN COMBINING ANUSVARA ABOVE=000C04" \o
      ";TIBETAN SUBJOINED LETTER DDHA=000F9D;CANADIAN SYLLABICS TAA=001456" \o
      ";CANADIAN SYLLABICS NGA=001593;CANADIAN SYLLABICS SAYISI SHI=001598" \o
      ";CANADIAN SYLLABICS CARRIER YU=00160E;RUNIC LETTER Z=0016CE" \o
      ";SUNDANESE CONSONANT SIGN PASANGAN WA=001BAD;LATIN CAPITAL LETTER I WITH DOT BELOW=001ECA" \o
      ";GREEK CAPITAL LETTER IOTA WITH DASIA AND OXIA=001F3D;CJK RADICAL RAP=002E99" \o
      ";CJK RADICAL EYE=002EAB;YI SYLLABLE XY=00A46D;SAURASHTRA LETTER NNA=00A8A0" \o
      ";SAURASHTRA LETTER THA=00A8A2;SAURASHTRA DIGIT FOUR=00A8D4;TAI VIET LETTER LOW DO=00AA92" \o
      ";MEETEI MAYEK VOWEL SIGN YENAP=00ABE6;HALFWIDTH LEFT CORNER BRACKET=00FF62" \o
      ";GREEK ACROPHONIC STRATIAN FIFTY MNAS=010174;PHAISTOS DISC SIGN BEE=0101F1" \o
      ";OLD ITALIC NUMERAL ONE=010320;OLD TURKIC LETTER YENISEI AEN=010C25" \o
      ";SINHALA ARCHAIC NUMBER NINETY=0111F2;WARANG CITI SMALL LETTER HIYO=0118D9" \o
      ";CUNEIFORM NUMERIC SIGN FIVE U=012410;CUNEIFORM NUMERIC SIGN NINE U=012414" \o
      ";HENTAIGANA LETTER SU-6=01B04F;HENTAIGANA LETTER YO-6=01B0EC" \o
      ";SHORTHAND FORMAT CONTINUING OVERLAP=01BCA1;GREEK VOCAL NOTATION SYMBOL-9=01D208" \o
      ";TETRAGRAM FOR CLOSURE=01D34F;MATHEMATICAL SCRIPT CAPITAL N=01D4A9" \o
      ";SIGNWRITING MOVEMENT-HINGE DOWN SEQUENTIAL=01D924" \o
      ";SIGNWRITING MOVEMENT-FLOORPLANE WAVE SMALL=01D9DD;TOTO LETTER TA=01E292" \o
      ";ETHIOPIC SYLLABLE GURAGE BWEE=01E7F4;PARENTHESIZED LATIN CAPITAL LETTER O=01F11E" \o
      ";ELECTRIC TORCH=01F526;REVERSED VICTORY HAND=01F594" \o
      ";UPWARDS ARROW WITH LARGE TRIANGLE ARROWHEAD=01F809;FALAFEL=01F9C6",
    ";LATIN CAPITAL LETTER F=000046;LATIN CAPITAL LETTER N WITH LEFT HOOK=00019D" \o
      ";HEBREW LETTER FINAL PE=0005E3;ARABIC LETTER BEH WITH SMALL V=000756" \o
      ";ARABIC LETTER TAH WITH TWO DOTS ABOVE=0008A3;THAI CHARACTER SARA AI MAIMUAN=000E43" \o
      ";MYANMAR VOWEL SIGN VOCALIC LL=001059;CANADIAN SYLLABICS FINAL DOUBLE ACUTE=001425" \o
      ";CANADIAN SYLLABICS CARRIER ZU=001640" \o
      ";LATIN CAPITAL LETTER E WITH CIRCUMFLEX AND DOT BELOW=001EC6" \o
      ";DOWNWARDS ARROW WITH TIP RIGHTWARDS=0021B3;CONTAINS WITH OVERBAR=0022FD" \o
      ";RIGHTWARDS ARROW WITH TIP DOWNWARDS=002B0E;ETHIOPIC SYLLABLE QYU=002DC1;VERTICAL TILDE=002E2F" \o
      ";HANGUL LETTER PANSIOS=00317F;CJK STROKE HZZ=0031C5;YI SYLLABLE YY=00A489" \o
      ";CYRILLIC CAPITAL LETTER REVERSED DZE=00A644;LATIN SMALL LETTER EGYPTOLOGICAL AIN=00A725" \o
      ";LATIN CAPITAL LETTER TURNED T=00A7B1;HANGUL CHOSEONG SSANGTHIEUTH=00A979" \o
      ";ARABIC LETTER BEHEH FINAL FORM=00FB5B" \o
      ";ARABIC LIGATURE KHAH WITH ALEF MAKSURA ISOLATED FORM=00FD03" \o
      ";ARABIC LIGATURE GHAIN WITH MEEM WITH ALEF MAKSURA FINAL FORM=00FD7B" \o
      ";COMBINING LIGATURE RIGHT HALF=00FE21;OSAGE CAPITAL LETTER O=0104C2" \o
      ";OSAGE SMALL LETTER KHA=0104F8;KHAROSHTHI LETTER SSA=010A2E;MASARAM GONDI LETTER I=011D02" \o
      ";GUNJALA GONDI LETTER I=011D62;CUNEIFORM SIGN SHIM TIMES SAL=0122D1" \o
      ";PAHAWH HMONG NUMBER HUNDRED MILLIONS=016B5F;HENTAIGANA LETTER SU-7=01B050" \o
      ";HENTAIGANA LETTER YU-1=01B0E3;ZNAMENNY NEUME KOBYLA=01CF84" \o
      ";BYZANTINE MUSICAL SYMBOL KENTIMATA NEO MESO=01D0F0;MUSICAL SYMBOL DA CAPO=01D10A" \o
      ";TETRAGRAM FOR PATTERN=01D334;MATHEMATICAL SCRIPT CAPITAL O=01D4AA" \o
      ";MATHEMATICAL BOLD ITALIC CAPITAL IOTA=01D724" \o
      ";SIGNWRITING TRAVEL-FLOORPLANE ROTATION-FLOORPLANE DOUBLE=01D982" \o
      ";SIGNWRITING MOVEMENT-FLOORPLANE WRIST CIRCLE HITTING WALL DOUBLE=01D9F0" \o
      ";SIGNWRITING LIMB COMBINATION=01DA76;LATIN SMALL LETTER REVERSED K=01DF03" \o
      ";OTTOMAN SIYAQ NUMBER FORTY THOUSAND=01ED28;PARENTHESIZED LATIN CAPITAL LETTER P=01F11F" \o
      ";SCHOOL SATCHEL=01F392;PACKAGE=01F4E6;TRIDENT EMBLEM=01F531" \o
      ";RIGHT SPEAKER WITH THREE SOUND WAVES=01F56A;WIRED KEYBOARD=01F5AE" \o
      ";ALCHEMICAL SYMBOL FOR VINEGAR=01F70A;WIDE-HEADED SOUTH WEST VERY HEAVY BARB ARROW=01F887" \o
      ";DOWNWARDS TRIANGLE ARROWHEAD=01F893;VARIATION SELECTOR-100=0E0153",
    ";LATIN CAPITAL LETTER G=000047;COMBINING HORN=00031B" \o
      ";ARABIC RIGHT ARROWHEAD ABOVE WITH DOT=0008FD;TIBETAN DIGIT HALF TWO=000F2B" \o
      ";CANADIAN SYLLABICS FII=001556;RUNIC LETTER FRANKS CASKET IS=0016F5" \o
      ";CANADIAN SYLLABICS SAYISI HOO=0018EC;NEW TAI LUE TONE MARK-1=0019C8" \o
      ";GEORGIAN MTAVRULI CAPITAL LETTER JIL=001CAB;LATIN SMALL LETTER E WITH TILDE BELOW=001E1B" \o
      ";LATIN CAPITAL LETTER K WITH DOT BELOW=001E32;LATIN CAPITAL LETTER W WITH DOT ABOVE=001E86" \o
      ";REVERSED TRIPLE PRIME=002037;LEFTWARDS ARROW TO BAR OVER RIGHTWARDS ARROW TO BAR=0021B9" \o
      ";ALEMBIC=002697;ETHIOPIC SYLLABLE XYO=002DD6;REVERSED COMMA=002E41;CIRCLED IDEOGRAPH HAVE=003292" \o
      ";YI SYLLABLE ZY=00A2AA;COMBINING DEVANAGARI LETTER U=00A8EB;TAI VIET LETTER LOW FO=00AAA0" \o
      ";MEETEI MAYEK LETTER NA LONSUM=00ABDF;FULLWIDTH NUMBER SIGN=00FF03;OSAGE SMALL LETTER BRA=0104DC" \o
      ";KHAROSHTHI LETTER NYA=010A19;OLD TURKIC LETTER YENISEI ENC=010C29" \o
      ";OLD TURKIC LETTER YENISEI ANG=010C2C;OLD HUNGARIAN SMALL LETTER US=010CF2" \o
      ";SOGDIAN COMBINING CURVE ABOVE=010F4A;KHOJKI WORD SEPARATOR=01123A" \o
      ";WARANG CITI SMALL LETTER HORR=0118DB;CUNEIFORM SIGN IM CROSSING IM=012150" \o
      ";CUNEIFORM SIGN LAGAB TIMES IM PLUS LU=0121CE;CUNEIFORM SIGN EZEN TIMES GUD=012377" \o
      ";CUNEIFORM SIGN EZEN TIMES SHE=012378;BAMUM LETTER PHASE-A TU MAEMBA=01680C" \o
      ";TANGSA LETTER FINAL NG=016A90;PAHAWH HMONG VOWEL KAB=016B16" \o
      ";MEDEFAIDRIN CAPITAL LETTER NY=016E57;TANGUT ITERATION MARK=016FE0;HENTAIGANA LETTER SU-8=01B051" \o
      ";HENTAIGANA LETTER YU-2=01B0E4;MATHEMATICAL SCRIPT CAPITAL P=01D4AB" \o
      ";SIGNWRITING HAND-FIST INDEX MIDDLE HINGED SPREAD THUMB SIDE=01D823" \o
      ";PARENTHESIZED LATIN CAPITAL LETTER Q=01F120;ALCHEMICAL SYMBOL FOR ALKALI-2=01F737" \o
      ";VARIATION SELECTOR-101=0E0154;VARIATION SELECTOR-110=0E015D;VARIATION SELECTOR-200=0E01B7",
    ";LATIN CAPITAL LETTER H=000048;CEDILLA=0000B8;LATIN CAPITAL LETTER TURNED V=000245" \o
      ";ARABIC LETTER REH WITH TWO DOTS ABOVE=000697;ARABIC LETTER FEH WITH TWO DOTS BELOW=000760" \o
      ";SAMARITAN PUNCTUATION ANNAAU=00083E;BENGALI LETTER VEDIC ANUSVARA=0009FC" \o
      ";TIBETAN VOWEL SIGN REVERSED I=000F80;HANGUL CHOSEONG CHIEUCH-HIEUH=001153" \o
      ";CANADIAN SYLLABICS WAA=001419;RUNIC BELGTHOR SYMBOL=0016F0;TAI LE LETTER O=001969" \o
      ";NEW TAI LUE TONE MARK-2=0019C9;TAI THAM VOWEL SIGN OY=001A6D" \o
      ";GEORGIAN MTAVRULI CAPITAL LETTER LAS=001C9A;LATIN CAPITAL LETTER L WITH DOT BELOW=001E36" \o
      ";LATIN CAPITAL LETTER X WITH DOT ABOVE=001E8A;GREEK SMALL LETTER UPSILON WITH OXIA=001F7B" \o
      ";SYMBOL FOR END OF TEXT=002403;THUNDER CLOUD AND RAIN=0026C8" \o
      ";TILDE OPERATOR WITH DOT ABOVE=002A6A;SIMILAR MINUS SIMILAR=002A6C;CIRCLED HANGUL CHIEUCH=003269" \o
      ";SQUARE GIRUDAA=003313;CHAM LETTER BBA=00AA21;TAI VIET LETTER LOW GO=00AA86" \o
      ";ARABIC LETTER KHAH MEDIAL FORM=00FEA8;DESERET SMALL LETTER SHORT AH=010431" \o
      ";PALMYRENE LETTER AYIN=010870;KHAROSHTHI LETTER TTA=010A1A;ZANABAZAR SQUARE VOWEL SIGN E=011A04" \o
      ";BHAIKSUKI DOUBLE DANDA=011C42;CUNEIFORM SIGN EN OPPOSING EN=01209C" \o
      ";CUNEIFORM SIGN GIR3 TIMES LU PLUS IGI=01210E;CUNEIFORM SIGN URU TIMES SIG4=01234A" \o
      ";HENTAIGANA LETTER YU-3=01B0E5;MUSICAL SYMBOL INVERTED TURN=01D198;MUSICAL SYMBOL CLIVIS=01D1D5" \o
      ";COUNTING ROD UNIT DIGIT EIGHT=01D367;MATHEMATICAL SCRIPT CAPITAL Q=01D4AC" \o
      ";SIGNWRITING HAND-FIST INDEX UP MIDDLE HINGED=01D813" \o
      ";SIGNWRITING HAND-FIST INDEX HINGED MIDDLE UP=01D814;SIGNWRITING HAND-HOOK=01D86B" \o
      ";SIGNWRITING MOVEMENT-WALLPLANE CURVE THREE-QUARTER CIRCLE MEDIUM=01D991" \o
      ";SIGNWRITING FOREHEAD NEUTRAL=01DA11;SIGNWRITING MOUTH SMILE OPEN=01DA40" \o
      ";COMBINING GLAGOLITIC LETTER I=01E00B;TOTO LETTER WA=01E29C;ADLAM SMALL LETTER YHE=01E930" \o
      ";PARENTHESIZED LATIN CAPITAL LETTER R=01F121;MILITARY MEDAL=01F396;FRAME WITH AN X=01F5BE" \o
      ";EXTREMELY HEAVY WHITE SQUARE=01F793;PEOPLE HUGGING=01FAC2;HEAVY HORIZONTAL FILL=01FB97" \o
      ";VARIATION SELECTOR-102=0E0155;VARIATION SELECTOR-111=0E015E;VARIATION SELECTOR-120=0E0167" \o
      ";VARIATION SELECTOR-201=0E01B8;VARIATION SELECTOR-210=0E01C1",
    ";LATIN CAPITAL LETTER I=000049;ARABIC LETTER BEH WITH DOT BELOW AND THREE DOTS ABOVE=000751" \o
      ";DEVANAGARI VOWEL SIGN SHORT O=00094A;DEVANAGARI LETTER DDDA=00097E" \o
      ";MYANMAR LETTER EASTERN PWO KAREN YWA=00106F;ETHIOPIC SYLLABLE SZU=001221" \o
      ";BATAK CONSONANT SIGN H=001BF1;LEPCHA CONSONANT SIGN NYIN-DO=001C34" \o
      ";GEORGIAN MTAVRULI CAPITAL LETTER DON=001C93;GEORGIAN MTAVRULI CAPITAL LETTER NAR=001C9C" \o
      ";LATIN CAPITAL LETTER M WITH DOT BELOW=001E42;LATIN CAPITAL LETTER Y WITH DOT ABOVE=001E8E" \o
      ";LOWER ONE EIGHTH BLOCK=002581;REVERSED ROTATED FLORAL HEART BULLET=002619" \o
      ";DOUBLE LOW-REVERSED-9 QUOTATION MARK=002E42;CIRCLED IDEOGRAPH FIRE=00328B" \o
      ";SAURASHTRA DIGIT ZERO=00A8D0;JAVANESE LETTER TTA MAHAPRANA=00A99C;TAI VIET LETTER LOW HO=00AAAC" \o
      ";MEETEI MAYEK LETTER NA=00ABC5;MEETEI MAYEK LETTER PA LONSUM=00ABDE;FULLWIDTH EQUALS SIGN=00FF1D" \o
      ";PALMYRENE LETTER RESH=010874;PALMYRENE LETTER SHIN=010875;OLD HUNGARIAN SMALL LETTER UU=010CEB" \o
      ";OLD SOGDIAN NUMBER ONE=010F1D;CUNEIFORM SIGN BU CROSSING BU=012050" \o
      ";CUNEIFORM SIGN PIRIG TIMES UD=01228C" \o
      ";CUNEIFORM SIGN SHE OVER SHE TAB OVER TAB GAR OVER GAR=0122BD" \o
      ";CUNEIFORM NUMERIC SIGN ELAMITE FIFTY=012468;HENTAIGANA LETTER YU-4=01B0E6" \o
      ";MUSICAL SYMBOL ONE-LINE STAFF=01D116;MUSICAL SYMBOL BREVIS=01D1B8" \o
      ";MUSICAL SYMBOL TEMPUS PERFECTUM CUM PROLATIONE IMPERFECTA=01D1C8" \o
      ";MUSICAL SYMBOL TEMPUS IMPERFECTUM CUM PROLATIONE PERFECTA=01D1CA" \o
      ";COUNTING ROD TENS DIGIT THREE=01D36B;MATHEMATICAL ITALIC PI SYMBOL=01D71B" \o
      ";SIGNWRITING HAND-FLAT FIVE FINGERS SPREAD HINGED THUMB SIDE=01D858;SIGNWRITING HAND-OVAL=01D877" \o
      ";ETHIOPIC SYLLABLE GURAGE FWEE=01E7FC;ADLAM SMALL LETTER ZAL=01E941" \o
      ";PARENTHESIZED LATIN CAPITAL LETTER S=01F122;VARIATION SELECTOR-103=0E0156" \o
      ";VARIATION SELECTOR-112=0E015F;VARIATION SELECTOR-121=0E0168;VARIATION SELECTOR-130=0E0171" \o
      ";VARIATION SELECTOR-202=0E01B9;VARIATION SELECTOR-211=0E01C2;VARIATION SELECTOR-220=0E01CB",
    ";LATIN CAPITAL LETTER J=00004A;LATIN CAPITAL LETTER Z WITH DOT ABOVE=00017B" \o
      ";LATIN CAPITAL LETTER TONE SIX=000184;COMBINING BRIDGE ABOVE=000346" \o
      ";CYRILLIC CAPITAL LETTER SHCHA=000429;NKO SYMBOL GBAKURUNEN=0007F7;ETHIOPIC SYLLABLE TZU=001341" \o
      ";ETHIOPIC COLON=001365;CANADIAN SYLLABICS CWA=00149C;CANADIAN SYLLABICS YAA=00152E" \o
      ";CANADIAN SYLLABICS QAI=00166F;KHMER SIGN PHNAEK MUAN=0017D9;CANADIAN SYLLABICS AAY=0018B2" \o
      ";TAI THAM VOWEL SIGN UU=001A6A;GEORGIAN MTAVRULI CAPITAL LETTER SAN=001CA1" \o
      ";LATIN CAPITAL LETTER N WITH DOT BELOW=001E46;RIGHT ARROW WITH SMALL CIRCLE=0021F4" \o
      ";LEFT CURLY BRACKET LOWER HOOK=0023A9;SYMBOL FOR DEVICE CONTROL ONE=002411" \o
      ";LONG LEFTWARDS ARROW FROM BAR=0027FB;ETHIOPIC SYLLABLE ZZO=002DB6" \o
      ";RIGHT VERTICAL BAR WITH QUILL=002E21;PARENTHESIZED HANGUL THIEUTH=00320B;YI RADICAL NBIE=00A4C5" \o
      ";COMBINING CYRILLIC TEN MILLIONS SIGN=00A670;CHAM CONSONANT SIGN RA=00AA34" \o
      ";HANGUL JUNGSEONG O-O-I=00D7B1;HANGUL JUNGSEONG U-I-I=00D7B6" \o
      ";ARABIC LETTER YEH WITH HAMZA ABOVE FINAL FORM=00FE8A" \o
      ";ARABIC LIGATURE LAM WITH ALEF WITH HAMZA ABOVE ISOLATED FORM=00FEF7" \o
      ";LINEAR B SYLLABLE B008 A=010000;OLD ITALIC NUMERAL TEN=010322;OSAGE SMALL LETTER AIN=0104DA" \o
      ";NABATAEAN LETTER SADHE=010899;OLD TURKIC LETTER ORKHON BASH=010C48" \o
      ";RUMI FRACTION ONE HALF=010E7B;ANATOLIAN HIEROGLYPH A410 BEGIN LOGOGRAM MARK=0145CE" \o
      ";BAMUM LETTER PHASE-C WANGKUOQ=016892;PAHAWH HMONG SIGN HNUB=016B68" \o
      ";BYZANTINE MUSICAL SYMBOL LEIMMA DYO CHRONON=01D08B;MATHEMATICAL SCRIPT CAPITAL S=01D4AE" \o
      ";NYIAKENG PUACHUE HMONG TONE-S=01E134;TOTO LETTER YA=01E29B;ETHIOPIC SYLLABLE GURAGE HHWA=01E7E8" \o
      ";ETHIOPIC SYLLABLE GURAGE GWEE=01E7F9;ADLAM SMALL LETTER NYA=01E93B" \o
      ";ARABIC MATHEMATICAL TAILED HAH=01EE47;PARENTHESIZED LATIN CAPITAL LETTER T=01F123" \o
      ";TOP HAT=01F3A9;VARIATION SELECTOR-104=0E0157;VARIATION SELECTOR-113=0E0160" \o
      ";VARIATION SELECTOR-122=0E0169;VARIATION SELECTOR-131=0E0172;VARIATION SELECTOR-140=0E017B" \o
      ";VARIATION SELECTOR-203=0E01BA;VARIATION SELECTOR-212=0E01C3;VARIATION SELECTOR-221=0E01CC" \o
      ";VARIATION SELECTOR-230=0E01D5",
    ";FILE SEPARATOR=00001C;LATIN CAPITAL LETTER K=00004B;LATIN SMALL LETTER GHA=0001A3" \o
      ";COMBINING VERTICAL LINE BELOW=000329;GREEK SMALL LETTER ETA=0003B7" \o
      ";TIBETAN SIGN LCI RTAGS=000F86;MYANMAR LETTER WESTERN PWO KAREN THA=001065" \o
      ";HANGUL JONGSEONG SSANGKIYEOK=0011A9;CANADIAN SYLLABICS SHA=001515" \o
      ";CANADIAN SYLLABICS SAYISI SHO=001599;SUNDANESE VOWEL SIGN PANYUKU=001BA5" \o
      ";GEORGIAN MTAVRULI CAPITAL LETTER TAN=001C97;GEORGIAN MTAVRULI CAPITAL LETTER PAR=001C9E" \o
      ";LATIN CAPITAL LETTER D WITH CIRCUMFLEX BELOW=001E12" \o
      ";LATIN SMALL LETTER I WITH TILDE BELOW=001E2D;LATIN CAPITAL LETTER O WITH DOT BELOW=001ECC" \o
      ";GREEK CAPITAL LETTER ALPHA WITH VARIA=001FBA;FRACTION SLASH=002044;REVERSED PILCROW SIGN=00204B" \o
      ";LEFT HALF BLOCK=00258C;BRAILLE PATTERN DOTS-1=002801;TWO CONSECUTIVE EQUALS SIGNS=002A75" \o
      ";LONG DASH FROM LEFT MEMBER OF DOUBLE VERTICAL=002AE6;LEFT RIGHT BLACK ARROW=002B0C" \o
      ";COMBINING CYRILLIC LETTER CHE=002DF1;CJK RADICAL BOX=002E86;CJK RADICAL COW=002EA7" \o
      ";KANGXI RADICAL FEATHER=002F7B;KANGXI RADICAL WALK ENCLOSURE=002F8F" \o
      ";LISU LETTER TONE NA PO=00A4F9;CYRILLIC SMALL LETTER SOFT EL=00A665" \o
      ";MEETEI MAYEK LETTER PA=00ABC4;ARABIC LIGATURE JEEM WITH ALEF MAKSURA ISOLATED FORM=00FD01" \o
      ";GREEK ACROPHONIC ATTIC FIFTY STATERS=010151;PALMYRENE LETTER YODH=010869" \o
      ";INSCRIPTIONAL PARTHIAN LETTER ZAYIN=010B46;OLD TURKIC LETTER YENISEI AET=010C46" \o
      ";NANDINAGARI LETTER VOCALIC RR=0119A7;CUNEIFORM SIGN DUN3 GUNU GUNU=012087" \o
      ";CUNEIFORM SIGN NINDA2 TIMES ME PLUS GAN2 TENU=012257;CUNEIFORM SIGN PIRIG TIMES ZA=01228D" \o
      ";CUNEIFORM SIGN ERIN2 X=0124AB;PAHAWH HMONG VOWEL KEB=016B08" \o
      ";DUPLOYAN AFFIX LOW LONG GRAVE=01BC93;MATHEMATICAL SCRIPT CAPITAL T=01D4AF" \o
      ";MAHJONG TILE EAST WIND=01F000;PARENTHESIZED LATIN CAPITAL LETTER U=01F124" \o
      ";VARIATION SELECTOR-105=0E0158;VARIATION SELECTOR-114=0E0161;VARIATION SELECTOR-123=0E016A" \o
      ";VARIATION SELECTOR-132=0E0173;VARIATION SELECTOR-141=0E017C;VARIATION SELECTOR-150=0E0185" \o
      ";VARIATION SELECTOR-204=0E01BB;VARIATION SELECTOR-213=0E01C4;VARIATION SELECTOR-222=0E01CD" \o
      ";VARIATION SELECTOR-231=0E01D6;VARIATION SELECTOR-240=0E01DF",
    ";LATIN CAPITAL LETTER L=00004C;CYRILLIC CAPITAL LETTER OMEGA=000460" \o
      ";ARABIC SMALL HIGH MADDA=0006E4;MALAYALAM VOWEL SIGN E=000D46;THAI CHARACTER YO YING=000E0D" \o
      ";MYANMAR LETTER SHAN BA=00107F;MYANMAR SHAN DIGIT ONE=001091;HANGUL JONGSEONG YEORINHIEUH=0011F9" \o
      ";ETHIOPIC NUMBER FORTY=001375;CANADIAN SYLLABICS KII=00146E;CANADIAN SYLLABICS THA=001566" \o
      ";CANADIAN SYLLABICS LHI=0015A0;GEORGIAN MTAVRULI CAPITAL LETTER QAR=001CA7" \o
      ";LATIN CAPITAL LETTER E WITH CIRCUMFLEX BELOW=001E18" \o
      ";LATIN SMALL LETTER H WITH BREVE BELOW=001E2B;BLACK-LETTER CAPITAL Z=002128" \o
      ";REVERSED TILDE=00223D;UPPER ONE EIGHTH BLOCK=002594;CLOCKWISE GAPPED CIRCLE ARROW=0027F3" \o
      ";BRAILLE PATTERN DOTS-2=002802;SQUARED FOUR DOT PUNCTUATION=002E2C" \o
      ";CYRILLIC SMALL LETTER SOFT EM=00A667;HANGUL CHOSEONG RIEUL-KAPYEOUNPIEUP=00A96B" \o
      ";JAVANESE LETTER I KAWI=00A985;CHAM LETTER DDA=00AA19;TAI VIET LETTER LOW KO=00AA80" \o
      ";ARABIC LIGATURE SHADDA WITH KASRA MEDIAL FORM=00FCF4;GREEK ACROPHONIC THESPIAN ONE=010159" \o
      ";OLD PERMIC LETTER PEEI=01035F;OSAGE CAPITAL LETTER U=0104CE;LINEAR A SIGN A713 OMEGA=010750" \o
      ";PALMYRENE LETTER TETH=010868;PALMYRENE NUMBER FOUR=01087C;OLD SOUTH ARABIAN LETTER ZAYN=010A78" \o
      ";MODI LETTER VOCALIC LL=011609;ZANABAZAR SQUARE VOWEL SIGN I=011A01" \o
      ";MASARAM GONDI LETTER O=011D09;CUNEIFORM SIGN SHUBUR=0122DA;PAHAWH HMONG SIGN NQIG=016B69" \o
      ";MATHEMATICAL SCRIPT CAPITAL U=01D4B0;SIGNWRITING MOVEMENT-FLOORPLANE HUMP SMALL=01D9DA" \o
      ";SIGNWRITING MOVEMENT-FLOORPLANE LOOP SMALL=01D9DB;ADLAM SMALL LETTER KPO=01E942" \o
      ";ADLAM DIGIT ONE=01E951;PARENTHESIZED LATIN CAPITAL LETTER V=01F125;HOUSE BUILDING=01F3E0" \o
      ";RIGHT HAND TELEPHONE RECEIVER=01F57D;OLD PERSONAL COMPUTER=01F5B3" \o
      ";SOUTH EAST POINTING VINE LEAF=01F65B;TAG LEFT CURLY BRACKET=0E007B" \o
      ";VARIATION SELECTOR-106=0E0159;VARIATION SELECTOR-115=0E0162;VARIATION SELECTOR-124=0E016B" \o
      ";VARIATION SELECTOR-133=0E0174;VARIATION SELECTOR-142=0E017D;VARIATION SELECTOR-151=0E0186" \o
      ";VARIATION SELECTOR-160=0E018F;VARIATION SELECTOR-205=0E01BC;VARIATION SELECTOR-214=0E01C5" \o
      ";VARIATION SELECTOR-223=0E01CE;VARIATION SELECTOR-232=0E01D7;VARIATION SELECTOR-241=0E01E0" \o
      ";VARIATION SELECTOR-250=0E01E9",
    ";LATIN CAPITAL LETTER M=00004D;ARABIC LETTER SAD WITH TWO DOTS BELOW=00069D" \o
      ";SAMARITAN PUNCTUATION ATMAAU=000834" \o
      ";ARABIC LETTER FEH WITH DOT BELOW AND THREE DOTS ABOVE=0008A4;DEVANAGARI LETTER DDHA=000922" \o
      ";MYANMAR LETTER SHAN CA=001078;HANGUL CHOSEONG IEUNG-CHIEUCH=001149" \o
      ";CANADIAN SYLLABICS LII=0014D6;CANADIAN SYLLABICS NGI=00158F" \o
      ";RUNIC LETTER FRANKS CASKET OS=0016F4;LEFT CURLY BRACKET UPPER HOOK=0023A7" \o
      ";BOX DRAWINGS UP LIGHT AND RIGHT HEAVY=002515;BOX DRAWINGS UP HEAVY AND RIGHT LIGHT=002516" \o
      ";BRAILLE PATTERN DOTS-3=002804;LEFTWARDS HARPOON WITH BARB UP TO BAR=002952" \o
      ";UPWARDS HARPOON WITH BARB LEFT TO BAR=002958" \o
      ";LESS-THAN ABOVE DOUBLE-LINE EQUAL ABOVE GREATER-THAN=002A8B" \o
      ";GREATER-THAN ABOVE DOUBLE-LINE EQUAL ABOVE LESS-THAN=002A8C" \o
      ";LESS-THAN ABOVE GREATER-THAN ABOVE DOUBLE-LINE EQUAL=002A91" \o
      ";GREATER-THAN ABOVE LESS-THAN ABOVE DOUBLE-LINE EQUAL=002A92" \o
      ";COPTIC SMALL LETTER OLD COPTIC GANGIA=002CD7;ETHIOPIC SYLLABLE XYU=002DD1" \o
      ";CIRCLED IDEOGRAPH FIVE=003284;CIRCLED IDEOGRAPH NINE=003288;SQUARE BAARERU=00332D" \o
      ";PHAGS-PA SUPERFIXED LETTER RA=00A872;JAVANESE CONSONANT SIGN CAKRA=00A9BF" \o
      ";TAI VIET LETTER LOW LO=00AAA8;ETHIOPIC SYLLABLE BBAA=00AB2B" \o
      ";ARABIC LETTER JEEM MEDIAL FORM=00FEA0;HALFWIDTH HANGUL LETTER CIEUC=00FFB8" \o
      ";PHOENICIAN NUMBER ONE HUNDRED=010919;OLD TURKIC LETTER YENISEI ASH=010C40" \o
      ";OLD SOGDIAN LETTER MEM=010F0D;TIRHUTA SIGN ANUSVARA=0114C0" \o
      ";CUNEIFORM SIGN GA2 TIMES NUN OVER NUN=0120E1;CUNEIFORM SIGN MUNSUB=012230" \o
      ";CUNEIFORM SIGN PI CROSSING PI=012289;CUNEIFORM SIGN HI TIMES ASH OVER HI TIMES ASH=0124CF" \o
      ";MEDEFAIDRIN DIGIT FIVE=016E85;MEDEFAIDRIN DIGIT NINE=016E89" \o
      ";MUSICAL SYMBOL COMBINING BEND=01D189;MUSICAL SYMBOL LONGA IMPERFECTA REST=01D1C2" \o
      ";MATHEMATICAL SCRIPT CAPITAL V=01D4B1;MATHEMATICAL BOLD ITALIC CAPITAL ZETA=01D721" \o
      ";MATHEMATICAL DOUBLE-STRUCK DIGIT SIX=01D7DE;SIGNWRITING HAND-FIST INDEX MIDDLE RING BENT=01D88B" \o
      ";SIGNWRITING HAND-FIST=01D903;SIGNWRITING TRAVEL-FLOORPLANE ROTATION-FLOORPLANE SINGLE=01D981" \o
      ";SIGNWRITING MOVEMENT-FLOORPLANE WRIST CIRCLE HITTING WALL SINGLE=01D9EF" \o
      ";LATIN SMALL LETTER DEZH DIGRAPH WITH RETROFLEX HOOK=01DF19;NYIAKENG PUACHUE HMONG TONE-V=01E133" \o
      ";PARENTHESIZED LATIN CAPITAL LETTER W=01F126;EVERGREEN TREE=01F332;VIBRATION MODE=01F4F3" \o
      ";LIGHTNING MOOD=01F5F2;CRYING CAT FACE=01F63F;AERIAL TRAMWAY=01F6A1" \o
      ";VARIATION SELECTOR-107=0E015A;VARIATION SELECTOR-116=0E0163;VARIATION SELECTOR-125=0E016C" \o
      ";VARIATION SELECTOR-134=0E0175;VARIATION SELECTOR-143=0E017E;VARIATION SELECTOR-152=0E0187" \o
      ";VARIATION SELECTOR-161=0E0190;VARIATION SELECTOR-170=0E0199;VARIATION SELECTOR-206=0E01BD" \o
      ";VARIATION SELECTOR-215=0E01C6;VARIATION SELECTOR-224=0E01CF;VARIATION SELECTOR-233=0E01D8" \o
      ";VARIATION SELECTOR-242=0E01E1;VARIATION SELECTOR-251=0E01EA",
    ";LATIN CAPITAL LETTER N=00004E;DEVANAGARI DIGIT EIGHT=00096E;MYANMAR LETTER MON BBA=00105C" \o
      ";MYANMAR LETTER SHAN DA=00107B;CANADIAN SYLLABICS CWE=001492;CANADIAN SYLLABICS MII=0014A6" \o
      ";LIMBU SIGN SA-I=00193B;TAI LE LETTER U=001967;LATIN CAPITAL LETTER R WITH DOT BELOW=001E5A" \o
      ";LATIN SMALL LETTER O WITH HORN AND HOOK ABOVE=001EDF" \o
      ";GREEK CAPITAL LETTER OMEGA WITH VARIA=001FFA;CARET INSERTION POINT=002041;RIGHT TRIANGLE=0022BF" \o
      ";HAMMER AND PICK=002692;BRAILLE PATTERN DOTS-4=002808;HANGZHOU NUMERAL FOUR=003024" \o
      ";CJK STROKE SWZ=0031D8;CIRCLED NUMBER EIGHTY ON BLACK SQUARE=00324F" \o
      ";CIRCLED IDEOGRAPH LEFT=0032A7;YI RADICAL JJIE=00A4B7" \o
      ";CYRILLIC CAPITAL LETTER MONOGRAPH UK=00A64A;CHAM LETTER BHA=00AA1E;CHAM DIGIT FIVE=00AA55" \o
      ";CHAM DIGIT NINE=00AA59;TAI VIET LETTER LOW MO=00AAA2" \o
      ";MODIFIER LETTER SMALL L WITH INVERTED LAZY S=00AB5D" \o
      ";ARABIC LIGATURE MEEM WITH ALEF MAKSURA ISOLATED FORM=00FC49;COPTIC EPACT DIGIT SIX=0102E6" \o
      ";OSAGE SMALL LETTER EIN=0104E0;OSAGE SMALL LETTER SHA=0104EF;OLD SOGDIAN NUMBER TEN=010F22" \o
      ";NEWA LETTER VOCALIC LL=011409;CUNEIFORM SIGN GA2 TIMES SHE PLUS TUR=0120E6" \o
      ";CUNEIFORM SIGN IM OPPOSING IM=012151;CUNEIFORM SIGN DIM TIMES U U U=01248B" \o
      ";BAMUM LETTER PHASE-E NGEUREUT=0169A3;MEDEFAIDRIN CAPITAL LETTER YU=016E53" \o
      ";MEDEFAIDRIN SMALL LETTER ATIU=016E64;HENTAIGANA LETTER A-WO=01B005" \o
      ";ZNAMENNY NEUME STATYA ZAKRYTAYA S ZAPYATOY=01CF8C;MATHEMATICAL SCRIPT CAPITAL W=01D4B2" \o
      ";MATHEMATICAL ITALIC SMALL FINAL SIGMA=01D70D" \o
      ";SIGNWRITING HAND-FIST INDEX MIDDLE CONJOINED CUPPED=01D818;TOTO LETTER IU=01E2A3" \o
      ";ETHIOPIC SYLLABLE GURAGE KWEE=01E7F6;PARENTHESIZED LATIN CAPITAL LETTER X=01F127" \o
      ";MOON VIEWING CEREMONY=01F391;LOWER LEFT PAINTBRUSH=01F58C;PAGE WITH CIRCLED TEXT=01F5DF" \o
      ";FROWNING FACE WITH OPEN MOUTH=01F626;LEFTWARDS HEAVY ARROW=01F844" \o
      ";WHITE CHESS KNIGHT ROTATED TWO HUNDRED TWENTY-FIVE DEGREES=01FA30;VARIATION SELECTOR-108=0E015B" \o
      ";VARIATION SELECTOR-117=0E0164;VARIATION SELECTOR-126=0E016D;VARIATION SELECTOR-135=0E0176" \o
      ";VARIATION SELECTOR-144=0E017F;VARIATION SELECTOR-153=0E0188;VARIATION SELECTOR-162=0E0191" \o
      ";VARIATION SELECTOR-171=0E019A;VARIATION SELECTOR-180=0E01A3;VARIATION SELECTOR-207=0E01BE" \o
      ";VARIATION SELECTOR-216=0E01C7;VARIATION SELECTOR-225=0E01D0;VARIATION SELECTOR-234=0E01D9" \o
      ";VARIATION SELECTOR-243=0E01E2;VARIATION SELECTOR-252=0E01EB",
    ";LATIN CAPITAL LETTER O=00004F;MODIFIER LETTER SMALL REVERSED GLOTTAL STOP=0002E4" \o
      ";TIBETAN MARK NYIS SHAD=000F0E;CANADIAN SYLLABICS NII=0014C3;CANADIAN SYLLABICS SHE=001510" \o
      ";GEORGIAN MTAVRULI CAPITAL LETTER TAR=001CA2;GEORGIAN MTAVRULI CAPITAL LETTER XAN=001CAE" \o
      ";LATIN CAPITAL LETTER S WITH DOT BELOW=001E62;TELEPHONE SIGN=002121" \o
      ";DOES NOT CONTAIN AS NORMAL SUBGROUP OR EQUAL=0022ED;DOWN ARROWHEAD=002304" \o
      ";HORIZONTAL SCAN LINE-1=0023BA;WHITE RIGHT-POINTING POINTER=0025BB;DIGRAM FOR GREATER YIN=00268F" \o
      ";SIX PETALLED BLACK AND WHITE FLORETTE=00273E;BRAILLE PATTERN DOTS-5=002810" \o
      ";DOWN-POINTING TRIANGLE WITH RIGHT HALF BLACK=0029E9;DOUBLED SYMBOL=002BFC" \o
      ";ETHIOPIC SYLLABLE CCAA=002DAB;COMBINING CYRILLIC LETTER GHE=002DE2" \o
      ";HEXAGRAM FOR ABUNDANCE=004DF6;CYRILLIC CAPITAL LETTER REVERSED TSE=00A660" \o
      ";SAURASHTRA LETTER SSA=00A8B0;CHAM LETTER CHA=00AA0C;CHAM CONSONANT SIGN WA=00AA36" \o
      ";TAI VIET LETTER LOW NO=00AA98;LATIN SMALL LETTER CHI=00AB53;MEETEI MAYEK DIGIT SIX=00ABF6" \o
      ";ARABIC LETTER KEHEH FINAL FORM=00FB8F;PALMYRENE LETTER QOPH=010873" \o
      ";NABATAEAN LETTER ALEPH=010881;KHUDAWADI VOWEL SIGN E=0112E5;NANDINAGARI LETTER DDA=0119BA" \o
      ";CUNEIFORM SIGN SHIM TIMES MUG=0122D0;PAHAWH HMONG VOWEL KIB=016B02" \o
      ";COUNTING ROD UNIT DIGIT THREE=01D362;MATHEMATICAL SCRIPT CAPITAL X=01D4B3" \o
      ";SIGNWRITING HAND-CIRCLE LITTLE INDEX=01D8A1;PARENTHESIZED LATIN CAPITAL LETTER Y=01F128" \o
      ";DECIDUOUS TREE=01F333;CHICKEN=01F414;ALCHEMICAL SYMBOL FOR DISTILL=01F760;MEDIUM SALTIRE=01F7AA" \o
      ";WIDE-HEADED RIGHTWARDS VERY HEAVY BARB ARROW=01F882" \o
      ";FACE WITH FINGER COVERING CLOSED LIPS=01F92B;CUP WITH STRAW=01F964" \o
      ";VARIATION SELECTOR-109=0E015C;VARIATION SELECTOR-118=0E0165;VARIATION SELECTOR-127=0E016E" \o
      ";VARIATION SELECTOR-136=0E0177;VARIATION SELECTOR-145=0E0180;VARIATION SELECTOR-154=0E0189" \o
      ";VARIATION SELECTOR-163=0E0192;VARIATION SELECTOR-172=0E019B;VARIATION SELECTOR-181=0E01A4" \o
      ";VARIATION SELECTOR-190=0E01AD;VARIATION SELECTOR-208=0E01BF;VARIATION SELECTOR-217=0E01C8" \o
      ";VARIATION SELECTOR-226=0E01D1;VARIATION SELECTOR-235=0E01DA;VARIATION SELECTOR-244=0E01E3" \o
      ";VARIATION SELECTOR-253=0E01EC",
    ";LATIN CAPITAL LETTER P=000050;LATIN CAPITAL LETTER TONE TWO=0001A7" \o
      ";LATIN SMALL LETTER S WITH COMMA BELOW=000219;COMBINING ACUTE ACCENT=000301" \o
      ";MALAYALAM VOWEL SIGN I=000D3F;SINHALA LITH DIGIT SIX=000DEC;MYANMAR LETTER SHAN FA=00107E" \o
      ";CANADIAN SYLLABICS COO=00148E;CANADIAN SYLLABICS THE=00155E" \o
      ";MONGOLIAN LETTER ALI GALI VISARGA ONE=001881;BUGINESE VOWEL SIGN AE=001A1B" \o
      ";BATAK LETTER BA=001BC5;LATIN CAPITAL LETTER T WITH DOT BELOW=001E6C" \o
      ";LATIN CAPITAL LETTER O WITH CIRCUMFLEX AND DOT BELOW=001ED8;ELECTRIC ARROW=002301" \o
      ";LEFT VERTICAL BOX LINE=0023B8;BLACK SCISSORS=002702;BRAILLE PATTERN DOTS-6=002820" \o
      ";ETHIOPIC SYLLABLE ZZU=002DB1;CJK RADICAL C-SIMPLIFIED SHELL=002EC9" \o
      ";KANGXI RADICAL VILLAGE=002FA5;SAURASHTRA LETTER NYA=00A89B;CHAM LETTER DHA=00AA16" \o
      ";MEETEI MAYEK APUN IYEK=00ABED;ARABIC LETTER FARSI YEH ISOLATED FORM=00FBFC" \o
      ";ARABIC LETTER MEEM MEDIAL FORM=00FEE4;GREEK THREE OBOLS SIGN=01017E" \o
      ";OLD TURKIC LETTER YENISEI AEY=010C19;OLD TURKIC LETTER YENISEI OEK=010C1D" \o
      ";WARANG CITI DIGIT FOUR=0118E4;CUNEIFORM SIGN NUNUZ AB2 TIMES ASHGAB=01226E" \o
      ";CUNEIFORM SIGN SHU OVER INVERTED SHU=0122D8;BAMUM LETTER PHASE-A MAP PIEET=01683D" \o
      ";MATHEMATICAL SCRIPT CAPITAL Y=01D4B4;SIGNWRITING MOVEMENT-WALLPLANE TRIPLE ALTERNATING=01D936" \o
      ";ETHIOPIC SYLLABLE GURAGE MWEE=01E7EE;PARENTHESIZED LATIN CAPITAL LETTER Z=01F129" \o
      ";TROPICAL DRINK=01F379;CLOCK FACE FIVE-THIRTY=01F560;CLOCK FACE NINE-THIRTY=01F564" \o
      ";FACE SAVOURING DELICIOUS FOOD=01F60B;PEACOCK=01F99A;RIGHT HALF RUNNING MAN=01FBB3" \o
      ";VARIATION SELECTOR-119=0E0166;VARIATION SELECTOR-128=0E016F;VARIATION SELECTOR-137=0E0178" \o
      ";VARIATION SELECTOR-146=0E0181;VARIATION SELECTOR-155=0E018A;VARIATION SELECTOR-164=0E0193" \o
      ";VARIATION SELECTOR-173=0E019C;VARIATION SELECTOR-182=0E01A5;VARIATION SELECTOR-191=0E01AE" \o
      ";VARIATION SELECTOR-209=0E01C0;VARIATION SELECTOR-218=0E01C9;VARIATION SELECTOR-227=0E01D2" \o
      ";VARIATION SELECTOR-236=0E01DB;VARIATION SELECTOR-245=0E01E4;VARIATION SELECTOR-254=0E01ED",
    ";LATIN CAPITAL LETTER Q=000051;LATIN SMALL LETTER T WITH COMMA BELOW=00021B" \o
      ";CYRILLIC SMALL LETTER BIG YUS=00046B;ARABIC LETTER LAM WITH SMALL V=0006B5" \o
      ";ARABIC LETTER E=0006D0;GUJARATI VOWEL SIGN AA=000ABE;THAI CHARACTER DO CHADA=000E0E" \o
      ";THAI CHARACTER THO NANGMONTHO=000E11;MYANMAR LETTER SHAN GA=001077" \o
      ";HANGUL CHOSEONG CHITUEUMSIOS=00113C;ETHIOPIC SYLLABLE DDAA=0012FB;CANADIAN SYLLABICS PII=001432" \o
      ";BATAK LETTER CA=001BE1;LATIN CAPITAL LETTER U WITH DOT BELOW=001EE4" \o
      ";HORIZONTAL SCAN LINE-3=0023BB;WHEEL OF DHARMA=002638" \o
      ";DINGBAT CIRCLED SANS-SERIF DIGIT FOUR=002783;BRAILLE PATTERN DOTS-7=002840" \o
      ";PLUS SIGN IN RIGHT HALF CIRCLE=002A2E;TRIPLE COLON OPERATOR=002AF6" \o
      ";LATIN CAPITAL LETTER H WITH DESCENDER=002C67;KANGXI RADICAL LEATHER=002FB0" \o
      ";CJK STROKE SZZ=0031DE;IDEOGRAPHIC TELEGRAPH SYMBOL FOR DAY FIFTEEN=0033EE" \o
      ";LATIN SMALL LETTER VOLAPUK OE=00A79D;SAURASHTRA LETTER TTA=00A89C;CHAM CONSONANT SIGN YA=00AA33" \o
      ";TAI VIET LETTER LOW PO=00AA9C;ARABIC LETTER GHAIN FINAL FORM=00FECE" \o
      ";LINEAR B SYLLABLE B038 E=010001;GREEK ACROPHONIC THESPIAN TEN=010164" \o
      ";PHAISTOS DISC SIGN CAT=0101EC;OLD TURKIC LETTER YENISEI ESH=010C42" \o
      ";NANDINAGARI LETTER BHA=0119C5;CUNEIFORM SIGN GURUSH=012128" \o
      ";CUNEIFORM SIGN TIR OVER TIR GAD OVER GAD GAR OVER GAR=012304;PAHAWH HMONG DIGIT SIX=016B56" \o
      ";HENTAIGANA LETTER HA-10=01B0A7;BYZANTINE MUSICAL SYMBOL AGOGI GORGI=01D09F" \o
      ";BYZANTINE MUSICAL SYMBOL IMIFTHORON=01D0B8;MATHEMATICAL SCRIPT CAPITAL Z=01D4B5" \o
      ";SIGNWRITING HAND-HINGE MIDDLE=01D8C5;SIGNWRITING MOVEMENT-FLOORPLANE TRIPLE WRIST FLEX=01D970" \o
      ";ADLAM SMALL LETTER WAW=01E931;ARABIC MATHEMATICAL TAILED AIN=01EE4F" \o
      ";ARABIC MATHEMATICAL TAILED SAD=01EE51;ARABIC MATHEMATICAL TAILED QAF=01EE52" \o
      ";DOCUMENT WITH PICTURE=01F5BB;FACE WITH OPEN MOUTH VOMITING=01F92E;PLACARD=01FAA7" \o
      ";VARIATION SELECTOR-129=0E0170;VARIATION SELECTOR-138=0E0179;VARIATION SELECTOR-147=0E0182" \o
      ";VARIATION SELECTOR-156=0E018B;VARIATION SELECTOR-165=0E0194;VARIATION SELECTOR-174=0E019D" \o
      ";VARIATION SELECTOR-183=0E01A6;VARIATION SELECTOR-192=0E01AF;VARIATION SELECTOR-219=0E01CA" \o
      ";VARIATION SELECTOR-228=0E01D3;VARIATION SELECTOR-237=0E01DC;VARIATION SELECTOR-246=0E01E5" \o
      ";VARIATION SELECTOR-255=0E01EE",
    ";LATIN CAPITAL LETTER R=000052;GREEK SMALL LETTER PHI=0003C6;THAI CHARACTER SO RUSI=000E29" \o
      ";MYANMAR VOWEL SIGN VOCALIC RR=001057;MYANMAR LETTER MON BBE=00105D" \o
      ";MYANMAR LETTER SHAN HA=001081;CANADIAN SYLLABICS KWA=00147E;CANADIAN SYLLABICS CWI=001494" \o
      ";CANADIAN SYLLABICS QII=001580;CANADIAN SYLLABICS NNG=001596;CANADIAN SYLLABICS LHO=0015A2" \o
      ";LIMBU SMALL LETTER NGA=001931;BATAK LETTER DA=001BD1" \o
      ";LATIN CAPITAL LETTER V WITH DOT BELOW=001E7E;COMBINING RIGHT HARPOON ABOVE=0020D1" \o
      ";LEFTWARDS WHITE ARROW=0021E6;BECAUSE=002235;SUPERSET OF WITH NOT EQUAL TO=00228B" \o
      ";DIGRAM FOR LESSER YANG=00268E;BRAILLE PATTERN DOTS-8=002880;CIRCLED IDEOGRAPH ITEM=0032A0" \o
      ";ARABIC LIGATURE ALEF WITH FATHATAN FINAL FORM=00FD3C;SMALL REVERSE SOLIDUS=00FE68" \o
      ";PHAISTOS DISC SIGN LID=0101E0;MANICHAEAN LETTER BETH=010AC1;MANICHAEAN NUMBER FIVE=010AEC" \o
      ";INSCRIPTIONAL PAHLAVI NUMBER TWENTY=010B7D;CHORASMIAN LETTER SMALL ALEPH=010FB1" \o
      ";SINHALA ARCHAIC NUMBER THIRTY=0111EC;TIRHUTA VOWEL SIGN VOCALIC LL=0114B8" \o
      ";NANDINAGARI LETTER CHA=0119B4;ZANABAZAR SQUARE VOWEL SIGN O=011A06" \o
      ";MASARAM GONDI LETTER U=011D04;GUNJALA GONDI LETTER U=011D64" \o
      ";CUNEIFORM SIGN LAGAB TIMES KUL PLUS HI PLUS A=0121D3" \o
      ";CUNEIFORM SIGN SHU2 PLUS DUG TIMES NI=012536;BAMUM LETTER PHASE-A NTAP NTAA=016822" \o
      ";HENTAIGANA LETTER HA-11=01B0A8;COUNTING ROD TENS DIGIT SEVEN=01D36F" \o
      ";MATHEMATICAL SANS-SERIF BOLD SMALL PI=01D77F;MENDE KIKAKUI SYLLABLE M106 LONG NGGOO=01E881" \o
      ";OTTOMAN SIYAQ ALTERNATE NUMBER FOUR HUNDRED=01ED38;ARABIC MATHEMATICAL LOOPED DAD=01EE99" \o
      ";WHITE SUN BEHIND CLOUD=01F325;FACE WITH ROLLING EYES=01F644" \o
      ";HEAVY NORTH EAST POINTING BUD=01F666;RIGHTWARDS FINGER-POST ARROW=01F836" \o
      ";XIANGQI BLACK MANDARIN=01FA68;BOX DRAWINGS LIGHT HORIZONTAL WITH VERTICAL STROKE=01FBAF" \o
      ";LEFTWARDS ARROW AND UPPER AND LOWER ONE EIGHTH BLOCK=01FBB5;VARIATION SELECTOR-139=0E017A" \o
      ";VARIATION SELECTOR-148=0E0183;VARIATION SELECTOR-157=0E018C;VARIATION SELECTOR-166=0E0195" \o
      ";VARIATION SELECTOR-175=0E019E;VARIATION SELECTOR-184=0E01A7;VARIATION SELECTOR-193=0E01B0" \o
      ";VARIATION SELECTOR-229=0E01D4;VARIATION SELECTOR-238=0E01DD;VARIATION SELECTOR-247=0E01E6" \o
      ";VARIATION SELECTOR-256=0E01EF",
    ";LATIN CAPITAL LETTER S=000053;COMBINING GRAVE ACCENT=000300" \o
      ";COMBINING LEFT HALF RING ABOVE=000351;GREEK SMALL LETTER SAN=0003FB" \o
      ";BENGALI LETTER RA WITH LOWER DIAGONAL=0009F1;THAI CHARACTER FONGMAN=000E4F" \o
      ";CANADIAN SYLLABICS LWA=0014E6;CANADIAN SYLLABICS SHI=001511;CANADIAN SYLLABICS RII=001547" \o
      ";CANADIAN SYLLABICS FOO=001558;CANADIAN SYLLABICS NGO=001591" \o
      ";LATIN SMALL LETTER SIDEWAYS O=001D11;LATIN CAPITAL LETTER L WITH CIRCUMFLEX BELOW=001E3C" \o
      ";LATIN CAPITAL LETTER W WITH DOT BELOW=001E88" \o
      ";GREEK CAPITAL LETTER ETA WITH PSILI AND VARIA=001F2A;LINE SEPARATOR=002028" \o
      ";THREE DOT PUNCTUATION=002056;UPWARDS PAIRED ARROWS=0021C8;PLACE OF INTEREST SIGN=002318" \o
      ";APL FUNCTIONAL SYMBOL STAR DIAERESIS=002363;SUPERSET OF ABOVE EQUALS SIGN=002AC6" \o
      ";KANGXI RADICAL COMPARE=002F50;CHAM LETTER GHA=00AA09;TAI VIET LETTER LOW RO=00AAA6" \o
      ";ARABIC LIGATURE THEH WITH ALEF MAKSURA ISOLATED FORM=00FC13" \o
      ";ARABIC LETTER WAW WITH HAMZA ABOVE FINAL FORM=00FE86;ARABIC LETTER DAD INITIAL FORM=00FEBF" \o
      ";AEGEAN MEASURE SECOND SUBUNIT=01013E;OLD PERMIC LETTER KOKE=01035A" \o
      ";NABATAEAN LETTER GIMEL=010884;MANICHAEAN LETTER KAPH=010AD0" \o
      ";SOGDIAN COMBINING CURVE BELOW=010F4B;SOGDIAN NUMBER TWENTY=010F53;KHUDAWADI VOWEL SIGN I=0112E1" \o
      ";MONGOLIAN TRIPLE BIRGA WITH ORNAMENT=011663;WARANG CITI SMALL LETTER VIYO=0118DF" \o
      ";WARANG CITI NUMBER TEN=0118EA;DIVES AKURU GAP FILLER=011945;NANDINAGARI LETTER DHA=0119C0" \o
      ";CANADIAN SYLLABICS SPA=011ABF;CUNEIFORM SIGN DAG KISIM5 TIMES LU PLUS MASH2=012066" \o
      ";CUNEIFORM SIGN GU CROSSING GU=012117;CUNEIFORM SIGN LAGAB TIMES BAD=0121C0" \o
      ";CUNEIFORM SIGN SHIM TIMES LUL=0122CF" \o
      ";CUNEIFORM SIGN TAB OVER TAB NI OVER NI DISH OVER DISH=0122F1" \o
      ";ZNAMENNY NEUME SLOZHITIE S ZAPYATOY=01CF7E;MATHEMATICAL DOUBLE-STRUCK DIGIT TWO=01D7DA" \o
      ";SIGNWRITING FLICK SEQUENTIAL=01D91F;ETHIOPIC SYLLABLE GURAGE PWEE=01E7FE" \o
      ";MENDE KIKAKUI SYLLABLE M150 BEE=01E81E;ADLAM SMALL LETTER NUN=01E932" \o
      ";INDIC SIYAQ NUMBER ONE=01EC71;OTTOMAN SIYAQ NUMBER SIXTY THOUSAND=01ED2A" \o
      ";ARABIC MATHEMATICAL TAILED LAM=01EE4B;ARABIC MATHEMATICAL DOUBLE-STRUCK DAD=01EEB9" \o
      ";HOLLOW QUILT SQUARE ORNAMENT=01F668;UPWARDS ARROW WITH SMALL TRIANGLE ARROWHEAD=01F801" \o
      ";VARIATION SELECTOR-149=0E0184;VARIATION SELECTOR-158=0E018D;VARIATION SELECTOR-167=0E0196" \o
      ";VARIATION SELECTOR-176=0E019F;VARIATION SELECTOR-185=0E01A8;VARIATION SELECTOR-194=0E01B1" \o
      ";VARIATION SELECTOR-239=0E01DE;VARIATION SELECTOR-248=0E01E7",
    ";LATIN CAPITAL LETTER T=000054;SYRIAC SUPRALINEAR COLON SKEWED LEFT=000708" \o
      ";ARABIC LETTER PEH WITH SMALL V=0008BE;DEVANAGARI LETTER GHHA=00095A" \o
      ";ETHIOPIC SYLLABLE CHAA=00132B;CANADIAN SYLLABICS MWA=0014B6;CANADIAN SYLLABICS SII=0014F0" \o
      ";CANADIAN SYLLABICS THI=001560;CANADIAN SYLLABICS TH-CREE THA=0015AC" \o
      ";CANADIAN SYLLABICS KAY=0018B8;BALINESE CARIK PAREREN=001B5F" \o
      ";BALINESE MUSICAL SYMBOL DEUNG=001B68;LATIN SMALL LETTER U WITH HORN AND HOOK ABOVE=001EED" \o
      ";GREEK SMALL LETTER ETA WITH DASIA AND OXIA AND YPOGEGRAMMENI=001F95" \o
      ";DINGBAT CIRCLED SANS-SERIF NUMBER TEN=002789;LONG RIGHTWARDS ARROW=0027F6" \o
      ";INTERSECTION WITH DOT=002A40;LATIN CAPITAL LETTER K WITH DESCENDER=002C69" \o
      ";COPTIC SMALL LETTER FI=002CAB;COPTIC CAPITAL LETTER OLD COPTIC SHEI=002CC4" \o
      ";UPWARDS ANCORA=002E15;TAI VIET LETTER LOW SO=00AA8E;ARABIC LETTER PEHEH FINAL FORM=00FB6F" \o
      ";LINEAR B SYLLABLE B028 I=010002;AEGEAN NUMBER EIGHTY THOUSAND=010132" \o
      ";COPTIC EPACT DIGIT TWO=0102E2;OSAGE SMALL LETTER HYA=0104E2" \o
      ";MEROITIC CURSIVE NUMBER FIVE HUNDRED=0109D6;MEROITIC CURSIVE NUMBER NINE HUNDRED=0109DA" \o
      ";CHORASMIAN NUMBER ONE HUNDRED=010FCB;CHAKMA LETTER E=011106;WARANG CITI DIGIT ZERO=0118E0" \o
      ";SOYOMBO SIGN ANUSVARA=011A96;CUNEIFORM SIGN GA2 TIMES ISH PLUS HU PLUS ASH=0120D7" \o
      ";HENTAIGANA LETTER KA-10=01B020;ZNAMENNY NEUME KLYUCH=01CF54;MUSICAL SYMBOL SUBITO=01D18D" \o
      ";SIGNWRITING MOVEMENT-DIAGONAL BETWEEN AWAY LARGEST=01D960;ETHIOPIC SYLLABLE GURAGE QWEE=01E7F1" \o
      ";INDIC SIYAQ RUPEE MARK=01ECB0;ALCHEMICAL SYMBOL FOR TRIDENT=01F751" \o
      ";WIDE-HEADED UPWARDS MEDIUM BARB ARROW=01F871;VARIATION SELECTOR-159=0E018E" \o
      ";VARIATION SELECTOR-168=0E0197;VARIATION SELECTOR-177=0E01A0;VARIATION SELECTOR-186=0E01A9" \o
      ";VARIATION SELECTOR-195=0E01B2;VARIATION SELECTOR-249=0E01E8",
    ";LATIN CAPITAL LETTER U=000055;LATIN SMALL LETTER ENG=00014B" \o
      ";CYRILLIC CAPITAL LETTER ABKHASIAN CHE=0004BC;DEVANAGARI DIGIT THREE=000969" \o
      ";MYANMAR LETTER SHAN KA=001075;CANADIAN SYLLABICS TII=00144F;CANADIAN SYLLABICS NWA=0014CB" \o
      ";CANADIAN SYLLABICS LAY=0018BD;CANADIAN SYLLABICS SAYISI JUU=0018F1;BATAK LETTER GA=001BCE" \o
      ";GEORGIAN MTAVRULI CAPITAL LETTER VIN=001C95;GEORGIAN MTAVRULI CAPITAL LETTER ZEN=001C96" \o
      ";LATIN CAPITAL LETTER N WITH CIRCUMFLEX BELOW=001E4A" \o
      ";LATIN CAPITAL LETTER Y WITH DOT BELOW=001EF4;SUBSCRIPT EQUALS SIGN=00208C" \o
      ";APL FUNCTIONAL SYMBOL QUAD RIGHTWARDS ARROW=002348;HORIZONTAL SCAN LINE-7=0023BC" \o
      ";BOX DRAWINGS DOUBLE VERTICAL AND LEFT=002563;CROSSING LANES=0026CC" \o
      ";CLOCKWISE CLOSED CIRCLE ARROW=002941;SQUARED RISING DIAGONAL SLASH=0029C4" \o
      ";SYMBOL FOR TYPE A ELECTRONICS=002B97;GLAGOLITIC SMALL LETTER NASHI=002C40" \o
      ";LEFT WHITE LENTICULAR BRACKET=003016;SQUARE A OVER M=0033DF" \o
      ";HEXAGRAM FOR HOLDING TOGETHER=004DC7;VAI SYLLABLE BA=00A552;VAI SYLLABLE NDOLE SOO=00A612" \o
      ";CHAM PUNCTUATION TRIPLE DANDA=00AA5F;TAI VIET LETTER LOW TO=00AA94" \o
      ";ETHIOPIC SYLLABLE BBEE=00AB2C;MEETEI MAYEK DIGIT TWO=00ABF2;HANGUL JONGSEONG SSANGTIKEUT=00D7CD" \o
      ";ARABIC LETTER GUEH MEDIAL FORM=00FB99" \o
      ";ARABIC LIGATURE SEEN WITH ALEF MAKSURA ISOLATED FORM=00FCFB" \o
      ";ARABIC LETTER THEH MEDIAL FORM=00FE9C;OSAGE SMALL LETTER ZHA=0104FB" \o
      ";PSALTER PAHLAVI LETTER LAMEDH=010B8A;CUNEIFORM SIGN AB GUNU=012015" \o
      ";CUNEIFORM SIGN GA2 TIMES ASH2 PLUS GAL=0120BE;BAMUM LETTER PHASE-E PA PEOPLE=0169D1" \o
      ";PAHAWH HMONG VOWEL KOB=016B12;HENTAIGANA LETTER KA-11=01B021" \o
      ";BYZANTINE MUSICAL SYMBOL KENTIMATA ARCHAION=01D01C" \o
      ";MATHEMATICAL SANS-SERIF BOLD ITALIC CAPITAL A=01D63C" \o
      ";MATHEMATICAL SANS-SERIF BOLD CAPITAL OMICRON=01D764" \o
      ";DINGBAT CIRCLED SANS-SERIF DIGIT ZERO=01F10B;ROUNDED SYMBOL FOR CAI=01F265;BICYCLE=01F6B2" \o
      ";VARIATION SELECTOR-169=0E0198;VARIATION SELECTOR-178=0E01A1;VARIATION SELECTOR-187=0E01AA" \o
      ";VARIATION SELECTOR-196=0E01B3",
    ";LATIN CAPITAL LETTER V=000056;LATIN CAPITAL LETTER A WITH DIAERESIS=0000C4" \o
      ";COMBINING BRIDGE BELOW=00032A;ARABIC LETTER REH WITH SMALL V=000692" \o
      ";ARABIC LETTER WAW WITH EXTENDED ARABIC-INDIC DIGIT TWO ABOVE=000778" \o
      ";MALAYALAM VOWEL SIGN O=000D4A;SINHALA LITH DIGIT TWO=000DE8" \o
      ";MYANMAR LETTER WESTERN PWO KAREN PWA=001066;CANADIAN SYLLABICS KWE=001474" \o
      ";CANADIAN SYLLABICS MAY=0018BA;TAI THAM LETTER HIGH CA=001A27;BALINESE LETTER AIKARA=001B10" \o
      ";BATAK LETTER HA=001BC2;BATAK SYMBOL BINDU PINARBORAS=001BFD" \o
      ";LATIN CAPITAL LETTER Z WITH DOT BELOW=001E92;APL FUNCTIONAL SYMBOL LEFTWARDS VANE=002345" \o
      ";DENTISTRY SYMBOL LIGHT VERTICAL WITH CIRCLE=0023C0;LEFT ONE QUARTER BLOCK=00258E" \o
      ";CIRCLED ANTICLOCKWISE-ROTATED DIVISION SIGN=0029BC;ETHIOPIC SYLLABLE CCHA=002DB8" \o
      ";SQUARE MEGATON=00334C;VAI SYLLABLE CA=00A566;CHAM LETTER JHA=00AA0F" \o
      ";ARABIC LETTER DYEH MEDIAL FORM=00FB75;ARABIC LETTER TCHEH FINAL FORM=00FB7B" \o
      ";ARABIC LIGATURE YEH WITH HAMZA ABOVE WITH ALEF ISOLATED FORM=00FBEA" \o
      ";ARABIC LIGATURE LAM WITH ALEF WITH HAMZA BELOW ISOLATED FORM=00FEF9" \o
      ";OLD PERSIAN NUMBER ONE=0103D1;IMPERIAL ARAMAIC LETTER ZAYIN=010846" \o
      ";NABATAEAN NUMBER THREE=0108A9;PSALTER PAHLAVI LETTER WAW-AYIN-RESH=010B85" \o
      ";PSALTER PAHLAVI FOUR DOTS WITH CROSS=010B9B;DIVES AKURU LETTER DDA=011918" \o
      ";NANDINAGARI LETTER GHA=0119B1;CUNEIFORM SIGN KA TIMES GISH PLUS SAR=012169" \o
      ";BAMUM LETTER PHASE-B NGGEU MBU=016875;DUPLOYAN AFFIX MID HORIZONTAL SECANT=01BC71" \o
      ";DUPLOYAN AFFIX ATTACHED LEFT-TO-RIGHT SECANT=01BC77" \o
      ";ZNAMENNY NEUME STRELA KRYUKOVAYA POVODNAYA=01CFB6;MUSICAL SYMBOL DOUBLE BARLINE=01D101" \o
      ";MATHEMATICAL SANS-SERIF BOLD ITALIC CAPITAL B=01D63D" \o
      ";LATIN SMALL LETTER TESH DIGRAPH WITH RETROFLEX HOOK=01DF1C" \o
      ";MENDE KIKAKUI SYLLABLE M056 GBA=01E8A7;BRIDGE AT NIGHT=01F309;RUGBY FOOTBALL=01F3C9" \o
      ";PASSENGER SHIP=01F6F3;ALCHEMICAL SYMBOL FOR LEAD ORE=01F72A;CUPCAKE=01F9C1;LUGGAGE=01F9F3" \o
      ";VARIATION SELECTOR-179=0E01A2;VARIATION SELECTOR-188=0E01AB;VARIATION SELECTOR-197=0E01B4",
    ";LATIN CAPITAL LETTER W=000057;CYRILLIC SMALL LETTER SHORT I=000439" \o
      ";ARABIC TATWEEL WITH OVERSTRUCK HAMZA=000883;ETHIOPIC SYLLABLE GGAA=00131B" \o
      ";CANADIAN SYLLABICS PWA=001444;CANADIAN SYLLABICS LWE=0014DC" \o
      ";CANADIAN SYLLABICS N-CREE THII=001563;KHMER INDEPENDENT VOWEL QOO TYPE TWO=0017B2" \o
      ";CANADIAN SYLLABICS NAY=0018BC;LATIN SMALL LETTER U WITH TILDE BELOW=001E75" \o
      ";REVERSED PRIME=002035;RIGHTWARDS WAVE ARROW=00219D;NOT A SUBSET OF=002284" \o
      ";HORIZONTAL SCAN LINE-9=0023BD;CIRCLED LATIN CAPITAL LETTER A=0024B6" \o
      ";LESS-THAN AND NOT APPROXIMATE=002A89;DOES NOT DIVIDE WITH REVERSED NEGATION SLASH=002AEE" \o
      ";WHITE PENTAGON=002B20;GLAGOLITIC CAPITAL LETTER AZU=002C00;GLAGOLITIC CAPITAL LETTER TSI=002C1C" \o
      ";ETHIOPIC SYLLABLE CCEE=002DAC;COMBINING CYRILLIC LETTER SHA=002DF2;OBLIQUE HYPHEN=002E5D" \o
      ";CJK RADICAL DIVINATION=002E8A;CJK RADICAL SPIRIT TWO=002EAD;VAI SYLLABLE DA=00A560" \o
      ";LATIN CAPITAL LETTER N WITH DESCENDER=00A790;LATIN SMALL LETTER VOLAPUK UE=00A79F" \o
      ";CHAM LETTER KHA=00AA07;TAI VIET LETTER LOW VO=00AAAA" \o
      ";ARABIC LIGATURE BISMILLAH AR-RAHMAN AR-RAHEEM=00FDFD;ARABIC LETTER SEEN MEDIAL FORM=00FEB4" \o
      ";HALFWIDTH HANGUL LETTER HIEUH=00FFBE;LINEAR B SYLLABLE B061 O=010003" \o
      ";LINEAR B SYLLABLE B010 U=010004;DESERET SMALL LETTER H=010438;OSAGE SMALL LETTER KYA=0104E6" \o
      ";CANADIAN SYLLABICS SPE=011ABC;CUNEIFORM NUMERIC SIGN FOUR U=01240F" \o
      ";PAHAWH HMONG DIGIT TWO=016B52;ZNAMENNY NEUME VRAKHIYA TRESVETLAYA=01CF66" \o
      ";MUSICAL SYMBOL TRIANGLE NOTEHEAD RIGHT BLACK=01D14D;MUSICAL SYMBOL END TIE=01D176" \o
      ";MATHEMATICAL SANS-SERIF BOLD ITALIC CAPITAL C=01D63E;SIGNWRITING EYES OPEN=01DA14" \o
      ";MENDE KIKAKUI SYLLABLE M040 HEE=01E86B;MENDE KIKAKUI SYLLABLE M107 GBE=01E8AA" \o
      ";HUNDRED POINTS SYMBOL=01F4AF;AVOCADO=01F951;FORTUNE COOKIE=01F960;VARIATION SELECTOR-189=0E01AC" \o
      ";VARIATION SELECTOR-198=0E01B5",
    ";LATIN CAPITAL LETTER X=000058;LATIN CAPITAL LETTER AFRICAN D=000189" \o
      ";ARABIC END OF TEXT MARK=00061D;ARABIC LETTER WAW WITH TWO DOTS ABOVE=0006CA" \o
      ";ARABIC LETTER TEH WITH SMALL V=0008BF;DEVANAGARI VOWEL SIGN CANDRA E=000945" \o
      ";DEVANAGARI LETTER KHHA=000959;LAO DIGIT EIGHT=000ED8;MYANMAR LETTER SHAN NA=00107C" \o
      ";HANGUL CHOSEONG PIEUP-CHIEUCH=001128;CANADIAN SYLLABICS WII=001410" \o
      ";CANADIAN SYLLABICS TTA=00146A;CANADIAN SYLLABICS KOO=001470;CANADIAN SYLLABICS CWO=001498" \o
      ";CANADIAN SYLLABICS MWE=0014AC;CANADIAN SYLLABICS TH-CREE THE=0015A7;BATAK LETTER JA=001BD0" \o
      ";LEPCHA LETTER A=001C23;RIGHTWARDS ARROW WITH STROKE=00219B;TILDE OPERATOR=00223C" \o
      ";CIRCLED LATIN CAPITAL LETTER B=0024B7;SIX POINTED BLACK STAR=002736" \o
      ";CIRCLED HEAVY WHITE RIGHTWARDS ARROW=0027B2;TRIPLE VERTICAL BAR DELIMITER=002980" \o
      ";SUBSET ABOVE SUPERSET=002AD3;SUPERSET ABOVE SUBSET=002AD4;GLAGOLITIC SMALL LETTER DOBRO=002C34" \o
      ";CJK RADICAL SUN=002E9C;KANGXI RADICAL SCHOLAR=002F20;KANGXI RADICAL EVENING=002F23" \o
      ";KANGXI RADICAL ONESELF=002F30;PARENTHESIZED KOREAN CHARACTER OJEON=00321D" \o
      ";CIRCLED HANGUL KHIEUKH=00326A;MODIFIER LETTER EXTRA-LOW LEFT-STEM TONE BAR=00A716" \o
      ";NORTH INDIC RUPEE MARK=00A838;ARABIC LETTER TEHEH FINAL FORM=00FB63" \o
      ";ARABIC LETTER GAF INITIAL FORM=00FB94;PRESENTATION FORM FOR VERTICAL COMMA=00FE10" \o
      ";OSAGE SMALL LETTER OIN=0104EB;MANICHAEAN LETTER HETH=010ACD" \o
      ";OLD TURKIC LETTER YENISEI ENT=010C27;CHAKMA LETTER I=011104;MODI LETTER VOCALIC RR=011607" \o
      ";AHOM LETTER DDA=011743;DIVES AKURU LETTER BHA=011923;DIVES AKURU DIGIT FIVE=011955" \o
      ";DIVES AKURU DIGIT NINE=011959;ZANABAZAR SQUARE VOWEL SIGN U=011A03" \o
      ";BHAIKSUKI VOWEL SIGN E=011C38;TAMIL TRADITIONAL CREDIT SIGN=011FE8" \o
      ";CUNEIFORM SIGN HA TENU=01212A;CUNEIFORM SIGN KA TIMES SUHUR=012185" \o
      ";CUNEIFORM SIGN KA TIMES UMUM TIMES PA=01218A" \o
      ";CUNEIFORM NUMERIC SIGN SIX VARIANT FORM ASH9=012440;MUSICAL SYMBOL SQUARE NOTEHEAD WHITE=01D146" \o
      ";COUNTING ROD UNIT DIGIT SEVEN=01D366;MATHEMATICAL SANS-SERIF BOLD ITALIC CAPITAL D=01D63F" \o
      ";MATHEMATICAL SANS-SERIF BOLD CAPITAL EPSILON=01D75A;MENDE KIKAKUI SYLLABLE M101 FAN=01E862" \o
      ";INDIC SIYAQ NUMBER TEN=01EC7A;ARABIC MATHEMATICAL LOOPED BEH=01EE81;CHRISTMAS TREE=01F384" \o
      ";TAG DIGIT EIGHT=0E0038;VARIATION SELECTOR-199=0E01B6",
    ";LATIN CAPITAL LETTER Y=000059;LATIN SMALL LETTER KRA=000138" \o
      ";GREEK SMALL LETTER UPSILON WITH DIALYTIKA AND TONOS=0003B0;CYRILLIC CAPITAL LETTER SCHWA=0004D8" \o
      ";SAMARITAN VOWEL SIGN A=000823;GUJARATI VOWEL SIGN AI=000AC8;TIBETAN SIGN MAR TSHES=000F3F" \o
      ";TIBETAN SYMBOL DRIL BU=000FC4;ETHIOPIC SYLLABLE HHAA=001213;ETHIOPIC SYLLABLE DDEE=0012FC" \o
      ";ETHIOPIC NUMBER SIXTY=001377;CANADIAN SYLLABICS NWE=0014C9;CANADIAN SYLLABICS LOO=0014D8" \o
      ";CANADIAN SYLLABICS SHO=001513;BUHID LETTER BA=00174A;CANADIAN SYLLABICS PAY=0018B5" \o
      ";CANADIAN SYLLABICS RWA=0018D3;TAI THAM LETTER HIGH FA=001A3A;LEPCHA SIGN RAN=001C36" \o
      ";LATIN SMALL LETTER SIDEWAYS U=001D1D;GREEK CAPITAL LETTER ALPHA WITH PSILI=001F08" \o
      ";HORIZONTAL BAR=002015;EQUAL TO BY DEFINITION=00225D;PARENTHESIZED NUMBER SIXTEEN=002483" \o
      ";CIRCLED LATIN CAPITAL LETTER C=0024B8;RIGHT ARROW WITH CIRCLED PLUS=0027F4" \o
      ";N-ARY UNION OPERATOR WITH DOT=002A03;MODULO TWO SUM=002A0A;GLAGOLITIC CAPITAL LETTER ONU=002C11" \o
      ";CJK RADICAL C-SIMPLIFIED HORSE=002EE2;YI SYLLABLE BBA=00A060;YI RADICAL GGOP=00A496" \o
      ";YI RADICAL BBUT=00A49B;VAI SYLLABLE FA=00A558;VAI SYLLABLE BE=00A5EA;CHAM LETTER NGA=00AA0B" \o
      ";SMALL ASTERISK=00FE61;ARABIC LETTER BEH INITIAL FORM=00FE91;PHAISTOS DISC SIGN RAM=0101ED" \o
      ";CARIAN LETTER A=0102A0;OLD PERMIC LETTER ZATA=010357;SINHALA ARCHAIC NUMBER TWENTY=0111EB" \o
      ";KHUDAWADI VOWEL SIGN O=0112E7;DOGRA LETTER AA=011801;DIVES AKURU LETTER CHA=011912" \o
      ";NANDINAGARI LETTER JHA=0119B6;MIAO LETTER DDA=016F0F" \o
      ";MATHEMATICAL SANS-SERIF BOLD ITALIC CAPITAL E=01D640;MATHEMATICAL BOLD ITALIC NABLA=01D735" \o
      ";SIGNWRITING HAND-FIST MIDDLE BENT OVER INDEX=01D81C" \o
      ";SIGNWRITING HAND-FIST INDEX BENT OVER MIDDLE=01D81D;MENDE KIKAKUI SYLLABLE M062 MBA=01E894" \o
      ";OTTOMAN SIYAQ ALTERNATE NUMBER TEN THOUSAND=01ED3B;ARABIC MATHEMATICAL DOUBLE-STRUCK BEH=01EEA1" \o
      ";SUNSET OVER BUILDINGS=01F307;CAROUSEL HORSE=01F3A0;CAMPING=01F3D5;NO PEDESTRIANS=01F6B7" \o
      ";ALCHEMICAL SYMBOL FOR SCEPTER OF JOVE=01F74F;XIANGQI BLACK ELEPHANT=01FA69;FEATHER=01FAB6" \o
      ";BUBBLES=01FAE7">>

(* the characters of a name: the space, the hyphen, digits and capitals *)
NameCodes == {32, 45} \cup (48..57) \cup (65..90)

(* the characters from the space to Z, as strings *)
NameLetters ==
  <<" ", "", "", "", "", "", "", "", "", "", "", "", "", "-", "", "", "0",
    "1", "2", "3", "4", "5", "6", "7", "8", "9", "", "", "", "", "", "",
    "", "A", "B", "C", "D", "E", "F", "G", "H", "I", "J", "K", "L", "M",
    "N", "O", "P", "Q", "R", "S", "T", "U", "V", "W", "X", "Y", "Z">>

(* a name of characters of NameCodes as the string of the table *)
RECURSIVE NameString(_)
NameString(s) ==
  IF s = <<>> THEN "" ELSE NameLetters[s[1] - 31] \o NameString(Tail(s))

AsciiUpper(s) ==
  [k \in 1..Len(s) |-> IF 97 <= s[k] /\ s[k] <= 122 THEN s[k] - 32 ELSE s[k]]

(* the short names of the leading consonants, the vowels and the trailing *)
(* consonants of a Hangul syllable                                        *)
JamoL ==
  <<<<71>>, <<71, 71>> (* GG *), <<78>>, <<68>>, <<68, 68>> (* DD *), <<82>>, <<77>>, <<66>>, <<66, 66>> (* BB *), <<83>>, <<83, 83>> (* SS *), <<>>, <<74>>, <<74, 74>> (* JJ *),
    <<67>>, <<75>>, <<84>>, <<80>>, <<72>>>>

JamoV ==
  <<<<65>>, <<65, 69>> (* AE *), <<89, 65>> (* YA *), <<89, 65, 69>> (* YAE *), <<69, 79>> (* EO *), <<69>>, <<89, 69, 79>> (* YEO *), <<89, 69>> (* YE *), <<79>>, <<87, 65>> (* WA *), <<87, 65, 69>> (* WAE *), <<79, 69>> (* OE *),
    <<89, 79>> (* YO *), <<85>>, <<87, 69, 79>> (* WEO *), <<87, 69>> (* WE *), <<87, 73>> (* WI *), <<89, 85>> (* YU *), <<69, 85>> (* EU *), <<89, 73>> (* YI *), <<73>>>>

JamoT ==
  <<<<>>, <<71>>, <<71, 71>> (* GG *), <<71, 83>> (* GS *), <<78>>, <<78, 74>> (* NJ *), <<78, 72>> (* NH *), <<68>>, <<76>>, <<76, 71>> (* LG *), <<76, 77>> (* LM *), <<76, 66>> (* LB *), <<76, 83>> (* LS *),
    <<76, 84>> (* LT *), <<76, 80>> (* LP *), <<76, 72>> (* LH *), <<77>>, <<66>>, <<66, 83>> (* BS *), <<83>>, <<83, 83>> (* SS *), <<78, 71>> (* NG *), <<74>>, <<67>>, <<75>>, <<84>>, <<80>>, <<72>>>>

(* find_syllable: the index of the longest text of tab that s starts      *)
(* with, 0 when it starts with none                                       *)
FindSyllable(s, tab) ==
  IF \E i \in 1..Len(tab) : StartsWith(s, tab[i])
    THEN CHOOSE i \in 1..Len(tab) :
           /\ StartsWith(s, tab[i])
           /\ \A j \in 1..Len(tab) : StartsWith(s, tab[j]) => Len(tab[j]) <= Len(tab[i])
    ELSE 0

(* the syllable with the consonant l, the vowel v and what is left of the *)
(* name behind them                                                       *)
HangulTail(l, v, rest, t) ==
  IF Len(rest) = Len(JamoT[t]) THEN 44032 + ((l - 1) * 21 + (v - 1)) * 28 + (t - 1)
  ELSE -1

HangulVowel(l, rest, v) ==
  IF v = 0 THEN -1
  ELSE HangulTail(l, v, SubSeq(rest, Len(JamoV[v]) + 1, Len(rest)),
                  FindSyllable(SubSeq(rest, Len(JamoV[v]) + 1, Len(rest)), JamoT))

HangulLead(s, l) ==
  HangulVowel(l, SubSeq(s, Len(JamoL[l]) + 1, Len(s)),
              FindSyllable(SubSeq(s, Len(JamoL[l]) + 1, Len(s)), JamoV))

(* the syllable named "HANGUL SYLLABLE " and s, -1 for none *)
HangulSyllable(s) == HangulLead(s, FindSyllable(s, JamoL))

(* is_unified_ideograph *)
UnifiedIdeographs ==
  { <<13312, 19903>>, <<19968, 40959>>, <<131072, 173791>>, <<173824, 177976>>, <<177984, 178205>>, <<178208, 183969>>, <<183984, 191456>>, <<196608, 201546>> }

(* the ideograph named "CJK UNIFIED IDEOGRAPH-" and h: four or five hex   *)
(* digits in capitals                                                     *)
UnifiedIdeograph(h) ==
  IF Len(h) \in {4, 5}
     /\ (\A k \in 1..Len(h) : h[k] \in (48..57) \cup (65..70))
     /\ InRanges(ReBaseVal(h, 16), UnifiedIdeographs)
    THEN ReBaseVal(h, 16) ELSE -1

RECURSIVE NameSum(_)
NameSum(s) == IF s = <<>> THEN 0 ELSE (s[1] + NameSum(Tail(s))) % NameBuckets

HexLetters ==
  <<"0", "1", "2", "3", "4", "5", "6", "7", "8", "9", "A", "B", "C", "D", "E", "F">>

(* the number the hex digits of the string are *)
RECURSIVE HexNumber(_)
HexNumber(digits) ==
  IF digits = "" THEN 0
  ELSE 16 * HexNumber(SubSeq(digits, 1, Len(digits) - 1))
       + (CHOOSE d \in 0..15 : HexLetters[d + 1] = SubSeq(digits, Len(digits), Len(digits)))

(* the places of the string where the key stands *)
NamePlaces(bucket, key) ==
  {p \in 1..(Len(bucket) - Len(key) + 1) : SubSeq(bucket, p, p + Len(key) - 1) = key}

(* the character behind the key at one of the places, -1 when there is no *)
(* place                                                                  *)
NameFound(bucket, key, places) ==
  IF places = {} THEN -1
  ELSE HexNumber(SubSeq(bucket, (CHOOSE p \in places : TRUE) + Len(key),
                        (CHOOSE p \in places : TRUE) + Len(key) + 5))

NameRows(bucket, key) == NameFound(bucket, key, NamePlaces(bucket, key))

(* the table is searched without regard to the case of ASCII letters *)
NameCode(upper) ==
  IF \E k \in 1..Len(upper) : upper[k] \notin NameCodes THEN -1
  ELSE NameRows(UnicodeNames[NameSum(upper) + 1], ";" \o NameString(upper) \o "=")

(* ord(unicodedata.lookup(name)), -1 when either raises *)
UnicodeLookup(name) ==
  IF StartsWith(name, <<72, 65, 78, 71, 85, 76, 32, 83, 89, 76, 76, 65, 66, 76, 69, 32>>) THEN HangulSyllable(SubSeq(name, 17, Len(name)))
  ELSE IF StartsWith(name, <<67, 74, 75, 32, 85, 78, 73, 70, 73, 69, 68, 32, 73, 68, 69, 79, 71, 82, 65, 80, 72, 45>> (* CJK UNIFIED IDEOGRAPH- *))
    THEN UnifiedIdeograph(SubSeq(name, 23, Len(name)))
  ELSE NameCode(AsciiUpper(name))

ReLookup(st, code, to) ==
  IF code < 0 THEN ReFail(st) ELSE ReAt(st, to, ReCode("lit", code, 0))

(* \N{name}: st.i is behind the N, close the index of the brace *)
ReNamedTo(p, st, close) ==
  IF close = 0 \/ close = st.i + 1 THEN ReFail(st)
  ELSE ReLookup(st, UnicodeLookup(SubSeq(p, st.i + 1, close - 1)), close + 1)

ReNamed(p, st) ==
  IF ReChr(p, st.i) # 123 THEN ReFail(st) ELSE ReNamedTo(p, st, ReFind(p, st.i + 1, 125))

(* an octal escape of k digits from p[from] on, 0o377 at most *)
ReOctal(st, digits) ==
  IF ReBaseVal(digits, 8) > 255 THEN ReFail(st)
  ELSE ReAt(st, st.i + Len(digits) - 1, ReCode("lit", ReBaseVal(digits, 8), 0))

(* a reference to the group gid *)
ReGroupRef(st, gid, to) ==
  IF gid >= st.g \/ gid \in st.open \/ gid = 0 THEN ReFail(st)
  ELSE IF st.lb # -1 /\ gid >= st.lb THEN ReFail(st)
  ELSE ReAt(st, to, ReCode("ref", gid, 0))

(* \1 to \99, or an octal escape of three digits *)
ReDigitEscape(p, st, c) ==
  IF ReChr(p, st.i) \in 48..57 THEN
    (IF c \in OctDigits /\ p[st.i] \in OctDigits /\ ReChr(p, st.i + 1) \in OctDigits
       THEN ReOctal(st, <<c, p[st.i], p[st.i + 1]>>)
       ELSE ReGroupRef(st, (c - 48) * 10 + (p[st.i] - 48), st.i + 1))
  ELSE ReGroupRef(st, c - 48, st.i)

(* the escapes with the same meaning inside and outside of a set *)
ReCommonEscape(p, st, c) ==
  IF c = 120 THEN ReHex(p, st, 2)
  ELSE IF c = 117 THEN ReHex(p, st, 4)
  ELSE IF c = 85 THEN ReHex(p, st, 8)
  ELSE IF c = 78 THEN ReNamed(p, st)
  ELSE IF c \in AsciiLetters THEN ReFail(st)
  ELSE ReAt(st, st.i, ReCode("lit", c, 0))

(* _escape: the escape \c outside of a set; st.i is behind it *)
ReEscape(p, st, c) ==
  IF c = 65 THEN ReAt(st, st.i, ReCode("at", "bos", 0))
  ELSE IF c = 90 THEN ReAt(st, st.i, ReCode("at", "eos", 0))
  ELSE IF c = 98 THEN ReAt(st, st.i, ReCode("at", "b", 0))
  ELSE IF c = 66 THEN ReAt(st, st.i, ReCode("at", "B", 0))
  ELSE IF c \in {100, 68, 115, 83, 119, 87} THEN ReAt(st, st.i, ReCode("cat", c, 0))
  ELSE IF c \in {97, 102, 110, 114, 116, 118, 92}
    THEN ReAt(st, st.i, ReCode("lit", ReControl(c), 0))
  ELSE IF c = 48
    THEN ReOctal(st,
                 <<c>> \o SubSeq(p, st.i, st.i + ReRun(p, st.i, 2, OctDigits) - 1))
  ELSE IF c \in 49..57 THEN ReDigitEscape(p, st, c)
  ELSE ReCommonEscape(p, st, c)

(* _class_escape: the escape \c inside of a set *)
ReClassEscape(p, st, c) ==
  IF c \in {97, 98, 102, 110, 114, 116, 118, 92}
    THEN ReAt(st, st.i, ReCode("lit", ReControl(c), 0))
  ELSE IF c \in {100, 68, 115, 83, 119, 87} THEN ReAt(st, st.i, ReCode("cat", c, 0))
  ELSE IF c \in OctDigits
    THEN ReOctal(st,
                 <<c>> \o SubSeq(p, st.i, st.i + ReRun(p, st.i, 2, OctDigits) - 1))
  ELSE IF c \in {56, 57} THEN ReFail(st)
  ELSE ReCommonEscape(p, st, c)

(* one member of a set from the token this, with st.i behind it *)
ReMember(p, st, this) ==
  IF this = <<>> \/ this = <<92>> THEN ReFail(st)
  ELSE IF Len(this) = 2 THEN ReClassEscape(p, st, this[2])
  ELSE ReAt(st, st.i, ReCode("lit", this[1], 0))

ReMemberAt(p, st) == ReMember(p, [st EXCEPT !.i = st.i + Len(ReTok(p, st.i))], ReTok(p, st.i))

(* the members of a set from p[st.i] on: raw are those parsed so far *)
RECURSIVE ReMembers(_, _, _)
(* lo "-" hi, both parsed *)
ReSetRange(p, lo, st, raw) ==
  IF st.err # "" THEN st
  ELSE IF lo.k # "lit" \/ st.out.k # "lit" \/ st.out.lo < lo.lo THEN ReFail(st)
  ELSE ReMembers(p, st, Append(raw, ReRange(lo.lo, st.out.lo)))

(* the member lo is parsed, st.i is behind it *)
ReSetNext(p, st, lo, raw) ==
  IF ReTok(p, st.i) # <<45>> THEN ReMembers(p, st, Append(raw, lo))
  ELSE IF ReTok(p, st.i + 1) = <<>> THEN ReFail(st)
  ELSE IF ReTok(p, st.i + 1) = <<93>>
    THEN ReAt(st, st.i + 2, raw \o <<lo, ReCode("lit", 45, 0)>>)
  ELSE ReSetRange(p, lo, ReMemberAt(p, [st EXCEPT !.i = st.i + 1]), raw)

ReSetMember(p, st, raw) ==
  IF st.err # "" THEN st ELSE ReSetNext(p, st, st.out, raw)

ReMembers(p, st, raw) ==
  IF ReTok(p, st.i) = <<93>> /\ raw # <<>> THEN ReAt(st, st.i + 1, raw)
  ELSE ReSetMember(p, ReMemberAt(p, st), raw)

(* a set: st.i is behind the bracket *)
ReSetItem(st, neg, fl) ==
  IF st.err # "" THEN st
  ELSE [st EXCEPT !.out = ReSetNode(neg, ReUnwrap(ReUniq(st.out)), fl)]

ReSet(p, st, fl) ==
  ReSetItem(ReMembers(p, IF ReTok(p, st.i) = <<94>> THEN [st EXCEPT !.i = st.i + 1] ELSE st, <<>>),
            ReTok(p, st.i) = <<94>>, fl)

(* the items: a set ReIn, and the records below *)
ReAny(all) == [op |-> "any", all |-> all]

(* k: "bos" the start of the text, "bol" that of a line, "eos" the end of  *)
(* the text, "end" the end or the newline before it, "eol" the end of a    *)
(* line, "b" and "B" a word boundary and none                              *)
RePosition(k, ascii) == [op |-> "at", k |-> k, ascii |-> ascii]

ReBranch(alts) == [op |-> "branch", alts |-> alts]

(* gid = 0: no capture; plain: neither a capture nor flags *)
ReSubpattern(gid, plain, p) == [op |-> "group", gid |-> gid, plain |-> plain, p |-> p]

ReAtomic(p) == [op |-> "atomic", p |-> p]

(* dir = -1: look-behind, by w characters *)
ReAssert(dir, neg, p, w) == [op |-> "assert", dir |-> dir, neg |-> neg, p |-> p, w |-> w]

(* gp: the items of the group referred to *)
ReBackref(gid, fold, gp) == [op |-> "ref", gid |-> gid, fold |-> fold, gp |-> gp]

ReExists(gid, yes, no) == [op |-> "cond", gid |-> gid, yes |-> yes, no |-> no]

(* kind: "max" greedy, "min" lazy, "poss" possessive; the bounds as limbs  *)
(* with MAXREPEAT for none                                                 *)
ReRepeated(kind, bmin, bmax, p) ==
  [op |-> "repeat", kind |-> kind, bmin |-> bmin, bmax |-> bmax, p |-> p]

(* getwidth(): the least and the greatest length of a match, as limbs *)
RECURSIVE ReWidth(_, _, _, _)
ReCapped(lo, hi) ==
  <<BigMin(lo, BigSub(ReMaxRepeat, <<1>>)), BigMin(hi, ReMaxRepeat)>>

RECURSIVE ReBranchWidth(_, _, _, _)
ReBranchJoin(alts, k, lo, hi, w) ==
  ReBranchWidth(alts, k + 1, BigMin(lo, w[1]), BigMax(hi, w[2]))

ReBranchWidth(alts, k, lo, hi) ==
  IF k > Len(alts) THEN <<lo, hi>>
  ELSE ReBranchJoin(alts, k, lo, hi, ReWidth(alts[k], 1, <<>>, <<>>))

ReTimes(w, n) == <<BigMul(w[1], n.bmin), BigMul(w[2], n.bmax)>>

ReEither(yes, no) == <<BigMin(yes[1], no[1]), BigMax(yes[2], no[2])>>

(* the width of the one item n *)
ReItemWidth(n) ==
  IF n.op \in {"in", "any"} THEN <<<<1>>, <<1>>>>
  ELSE IF n.op = "branch"
    THEN ReBranchWidth(n.alts, 1, BigSub(ReMaxRepeat, <<1>>), <<>>)
  ELSE IF n.op \in {"group", "atomic"} THEN ReWidth(n.p, 1, <<>>, <<>>)
  ELSE IF n.op = "repeat" THEN ReTimes(ReWidth(n.p, 1, <<>>, <<>>), n)
  ELSE IF n.op = "ref" THEN ReWidth(n.gp, 1, <<>>, <<>>)
  ELSE IF n.op = "cond"
    THEN ReEither(ReWidth(n.yes, 1, <<>>, <<>>), ReWidth(n.no, 1, <<>>, <<>>))
  ELSE <<<<>>, <<>>>>

ReWidthAdd(items, k, lo, hi, w) == ReWidth(items, k + 1, BigAdd(lo, w[1]), BigAdd(hi, w[2]))

ReWidth(items, k, lo, hi) ==
  IF k > Len(items) THEN ReCapped(lo, hi)
  ELSE ReWidthAdd(items, k, lo, hi, ReItemWidth(items[k]))

(* what one step of the parser hands on *)
ReStepped(st, items, verbose) == [st |-> st, items |-> items, verbose |-> verbose]

(* the item of what an escape stands for *)
ReNodeOf(st, code, fl) ==
  IF code.k = "lit" THEN ReLiteral(code.lo, FALSE, fl)
  ELSE IF code.k = "cat" THEN ReCategory(code.lo, fl)
  ELSE IF code.k = "at" THEN RePosition(code.lo, 117 \notin fl)
  ELSE ReBackref(code.lo, ReFoldOf(fl), st.defs[code.lo])

(* the step that parsed the code st.out *)
ReAppendCode(st, items, verbose, fl) ==
  IF st.err # "" THEN ReStepped(st, items, verbose)
  ELSE ReStepped(st, Append(items, ReNodeOf(st, st.out, fl)), verbose)

(* the step that parsed the item st.out *)
ReAppendItem(st, items, verbose) ==
  IF st.err # "" THEN ReStepped(st, items, verbose)
  ELSE ReStepped(st, Append(items, st.out), verbose)

(* the text "{m,n}" behind a brace, with st.i behind the brace: the digits *)
(* lo and hi and the index e at which "}" must stand                       *)
ReBraceHi(p, lo, j, n) ==
  IF ReChr(p, j) = 44
    THEN [lo |-> lo, hi |-> SubSeq(p, j + 1, j + n), e |-> j + 1 + n]
    ELSE [lo |-> lo, hi |-> lo, e |-> j]

ReBraceLo(p, i, n) ==
  ReBraceHi(p, SubSeq(p, i, i + n - 1), i + n, ReRun(p, i + n + 1, Len(p), 48..57))

ReBrace(p, i) == ReBraceLo(p, i, ReRun(p, i, Len(p), 48..57))

(* the repetition is possessive with "+" behind it and lazy with "?" *)
ReRepeatKind(p, st, items, bmin, bmax, body) ==
  ReStepped([st EXCEPT !.i = IF ReTok(p, st.i) \in {<<63>>, <<43>>} THEN st.i + 1 ELSE st.i,
                       !.late = st.late \/ 116 \in st.gf],
            SubSeq(items, 1, Len(items) - 1)
              \o <<ReRepeated(IF ReTok(p, st.i) = <<63>> THEN "min"
                              ELSE IF ReTok(p, st.i) = <<43>> THEN "poss" ELSE "max",
                              bmin, bmax, body)>>,
            FALSE)

(* the item to repeat is the last one *)
ReQuantify(p, st, items, bmin, bmax) ==
  IF items = <<>> \/ items[Len(items)].op \in {"at", "repeat"}
    THEN ReStepped(ReFail(st), items, FALSE)
  ELSE ReRepeatKind(p, st, items, bmin, bmax,
                    IF items[Len(items)].op = "group" /\ items[Len(items)].plain
                      THEN items[Len(items)].p ELSE <<items[Len(items)]>>)

(* the tokenizer has looked ahead to st.i; a lone backslash there has      *)
(* raised re.error before the bounds are looked at                         *)
ReOverflow(p, st) ==
  [st EXCEPT !.err = IF st.i = Len(p) /\ p[st.i] = 92 THEN "error" ELSE "OverflowError"]

ReBounds(p, st, items, lo, hi, bmin, bmax) ==
  IF lo # <<>> /\ BigGeq(bmin, ReMaxRepeat) THEN ReStepped(ReOverflow(p, st), items, FALSE)
  ELSE IF hi # <<>> /\ BigGeq(bmax, ReMaxRepeat) THEN ReStepped(ReOverflow(p, st), items, FALSE)
  ELSE IF hi # <<>> /\ ~BigGeq(bmax, bmin) THEN ReStepped(ReFail(st), items, FALSE)
  ELSE ReQuantify(p, st, items, bmin, bmax)

(* "{": a repetition when br reads "{m,n}", the character otherwise *)
ReBraced(p, st, items, fl, br) ==
  IF ReChr(p, st.i) = 125 \/ ReChr(p, br.e) # 125
    THEN ReStepped(st, Append(items, ReLiteral(123, FALSE, fl)), FALSE)
  ELSE ReBounds(p, [st EXCEPT !.i = br.e + 1], items, br.lo, br.hi,
                IF br.lo = <<>> THEN <<>> ELSE BigOfDigits(br.lo),
                IF br.hi = <<>> THEN ReMaxRepeat ELSE BigOfDigits(br.hi))

(* the repetition c, with st.i behind it; the step leaves verbose alone *)
ReRepeat(p, st, items, c, fl) ==
  IF c = 63 THEN ReQuantify(p, st, items, <<>>, <<1>>)
  ELSE IF c = 42 THEN ReQuantify(p, st, items, <<>>, ReMaxRepeat)
  ELSE IF c = 43 THEN ReQuantify(p, st, items, <<1>>, ReMaxRepeat)
  ELSE ReBraced(p, st, items, fl, ReBrace(p, st.i))

(* int(name) for the number of a group: the digits, or <<>> when int()     *)
(* raises or the number is negative                                        *)
ReIntDigits(t) ==
  IF t # <<>> /\ UnderscoresOk(t) /\ AllAsciiDigits(RemoveChar(t, 95))
    THEN RemoveChar(t, 95) ELSE <<>>

ReIntStripped(t) ==
  IF t # <<>> /\ Head(t) = 43 THEN ReIntDigits(Tail(t)) ELSE ReIntDigits(t)

ReInt(name) == ReIntStripped(RStripOf(LStripOf(FloatAscii(name), AsciiSpaces), AsciiSpaces))

(* the number of the group with the name, 0 when there is none *)
ReNamedGid(st, name) ==
  IF \E e \in st.names : e[1] = name
    THEN (CHOOSE e \in st.names : e[1] = name)[2] ELSE 0

RECURSIVE ReParse(_, _, _, _, _, _)
RECURSIVE ReParseSub(_, _, _, _, _)

(* the group is parsed up to ")" *)
ReClose(p, st, items, verbose, gid, node) ==
  IF st.err # "" THEN ReStepped(st, items, verbose)
  ELSE IF ReTok(p, st.i) # <<41>> THEN ReStepped(ReFail(st), items, verbose)
  ELSE ReStepped([st EXCEPT !.i = st.i + 1, !.open = st.open \ {gid},
                            !.defs = IF gid = 0 THEN st.defs
                                     ELSE [st.defs EXCEPT ![gid] = st.out]],
                 Append(items, node), verbose)

ReCloseCapture(p, st, items, verbose, gid) ==
  ReClose(p, st, items, verbose, gid, ReSubpattern(gid, FALSE, st.out))

(* "(" and "(?P<name>": opengroup(), the items, closegroup() *)
ReCapture(p, st, items, verbose, fl, name) ==
  IF name # <<>> /\ ReNamedGid(st, name) # 0 THEN ReStepped(ReFail(st), items, verbose)
  ELSE ReCloseCapture(p,
         ReParseSub(p, [st EXCEPT !.g = st.g + 1, !.open = st.open \cup {st.g},
                                  !.defs = Append(st.defs, <<>>),
                                  !.names = IF name = <<>> THEN st.names
                                            ELSE st.names \cup {<<name, st.g>>}],
                    verbose, TRUE, ReFlags(st, fl)),
         items, verbose, st.g)

ReCloseNonCapture(p, st, items, verbose, plain, atomic) ==
  ReClose(p, st, items, verbose, 0,
          IF atomic THEN ReAtomic(st.out) ELSE ReSubpattern(0, plain, st.out))

(* "(?:", "(?>" and a group with flags *)
ReNonCapture(p, st, items, verbose, fl, add, del, atomic) ==
  ReCloseNonCapture(p,
    ReParseSub(p, st, (verbose \/ 120 \in add) /\ 120 \notin del, TRUE,
               ReCombine(ReFlags(st, fl), add, del)),
    items, verbose, add = {} /\ del = {}, atomic)

(* a look-behind needs a pattern of one width, w *)
ReCloseAssert(p, st, items, verbose, lb, dir, neg, w) ==
  ReClose(p, [st EXCEPT !.lb = lb, !.late = st.late \/ (dir < 0 /\ w[1] # w[2])],
          items, verbose, 0, ReAssert(dir, neg, st.out, ReCount(w[1])))

ReAsserted(p, st, items, verbose, lb, dir, neg) ==
  IF st.err # "" THEN ReStepped(st, items, verbose)
  ELSE ReCloseAssert(p, st, items, verbose, lb, dir, neg,
                     IF dir < 0 THEN ReWidth(st.out, 1, <<>>, <<>>) ELSE <<<<>>, <<>>>>)

(* "(?=", "(?!", "(?<=", "(?<!" *)
ReLook(p, st, items, verbose, fl, dir, neg) ==
  ReAsserted(p,
    ReParseSub(p, IF dir < 0 /\ st.lb = -1 THEN [st EXCEPT !.lb = st.g] ELSE st,
               verbose, TRUE, ReFlags(st, fl)),
    items, verbose, st.lb, dir, neg)

(* "(?(id)yes|no)": the items of no are parsed *)
ReCondClose(p, st, items, verbose, gid, yes) ==
  IF st.err # "" THEN ReStepped(st, items, verbose)
  ELSE IF ReTok(p, st.i) # <<41>> THEN ReStepped(ReFail(st), items, verbose)
  ELSE ReStepped([st EXCEPT !.i = st.i + 1], Append(items, ReExists(gid, yes, st.out)), verbose)

ReCondNo(p, st, items, verbose, fl, gid) ==
  IF st.err # "" THEN ReStepped(st, items, verbose)
  ELSE IF ReTok(p, st.i) = <<124>>
    THEN ReCondClose(p, ReParse(p, [st EXCEPT !.i = st.i + 1], <<>>, verbose, FALSE, fl),
                     items, verbose, gid, st.out)
  ELSE ReCondClose(p, [st EXCEPT !.out = <<>>], items, verbose, gid, st.out)

ReCondYes(p, st, items, verbose, fl, gid) ==
  IF st.lb # -1 /\ (gid >= st.g \/ gid \in st.open \/ gid >= st.lb)
    THEN ReStepped(ReFail(st), items, verbose)
  ELSE ReCondNo(p, ReParse(p, st, <<>>, verbose, FALSE, fl), items, verbose, fl, gid)

ReCondNumber(p, st, items, verbose, fl, digits) ==
  IF digits = <<>> \/ BigOfDigits(digits) = <<>>
       \/ BigGeq(BigOfDigits(digits), ReMaxGroups)
    THEN ReStepped(ReFail(st), items, verbose)
  ELSE ReCondYes(p, [st EXCEPT !.refs = st.refs \cup {ReCount(BigOfDigits(digits))}],
                 items, verbose, fl, ReCount(BigOfDigits(digits)))

ReCondNamed(p, st, items, verbose, fl, name) ==
  IF IsIdentifier(name)
    THEN (IF ReNamedGid(st, name) = 0 THEN ReStepped(ReFail(st), items, verbose)
          ELSE ReCondYes(p, st, items, verbose, fl, ReNamedGid(st, name)))
  ELSE ReCondNumber(p, st, items, verbose, fl, ReInt(name))

(* "(?(": st.i is behind it, close the index of the ")" behind the name *)
ReCond(p, st, items, verbose, fl, close) ==
  IF close = 0 \/ close = st.i THEN ReStepped(ReFail(st), items, verbose)
  ELSE ReCondNamed(p, [st EXCEPT !.i = close + 1], items, verbose, fl,
                   SubSeq(p, st.i, close - 1))

(* "(?P<name>": st.i is behind "<" *)
ReNamedGroup(p, st, items, verbose, fl, close) ==
  IF close = 0 \/ close = st.i \/ ~IsIdentifier(SubSeq(p, st.i, close - 1))
    THEN ReStepped(ReFail(st), items, verbose)
  ELSE ReCapture(p, [st EXCEPT !.i = close + 1], items, verbose, fl,
                 SubSeq(p, st.i, close - 1))

(* "(?P=name)": st.i is behind "=" *)
ReNamedRef(p, st, items, verbose, fl, close) ==
  IF close = 0 \/ close = st.i \/ ~IsIdentifier(SubSeq(p, st.i, close - 1))
       \/ ReNamedGid(st, SubSeq(p, st.i, close - 1)) = 0
    THEN ReStepped(ReFail(st), items, verbose)
  ELSE ReAppendCode(ReGroupRef(st, ReNamedGid(st, SubSeq(p, st.i, close - 1)), close + 1),
                    items, verbose, fl)

(* "(?flags-flags:" and "(?flags)": the flags add from p[j] on, behind     *)
(* them the character t, and behind "-" the flags del up to p[e]           *)
ReScoped(p, st, items, verbose, fl, add, del, e, dash) ==
  IF 116 \in add \cup del \/ del \cap ReTypeFlags # {} \/ add \cap del # {}
       \/ (dash /\ del = {}) \/ ReChr(p, e) # 58
    THEN ReStepped(ReFail(st), items, verbose)
  ELSE ReNonCapture(p, [st EXCEPT !.i = e + 1], items, verbose, fl, add, del, FALSE)

ReGlobal(st, items, first, add, to) ==
  IF ~first \/ items # <<>> THEN ReStepped(ReFail(st), items, FALSE)
  ELSE ReStepped([st EXCEPT !.i = to, !.gf = st.gf \cup add], items,
                 120 \in st.gf \cup add)

ReFlagged(p, st, items, verbose, first, fl, add, at, n) ==
  IF 76 \in add \/ {97, 117} \subseteq add \/ ReChr(p, at) \notin {41, 45, 58}
    THEN ReStepped(ReFail(st), items, verbose)
  ELSE IF p[at] = 41 THEN ReGlobal(st, items, first, add, at + 1)
  ELSE IF p[at] = 58 THEN ReScoped(p, st, items, verbose, fl, add, {}, at, FALSE)
  ELSE ReScoped(p, st, items, verbose, fl, add,
                {p[k] : k \in (at + 1)..(at + n)}, at + n + 1, TRUE)

ReFlagsAt(p, st, items, verbose, first, fl, j, n) ==
  ReFlagged(p, st, items, verbose, first, fl, {p[k] : k \in j..(j + n - 1)}, j + n,
            ReRun(p, j + n + 1, Len(p), ReFlagChars))

ReFlagsGroup(p, st, items, verbose, first, fl, j) ==
  ReFlagsAt(p, st, items, verbose, first, fl, j,
            IF p[j] = 45 THEN 0 ELSE ReRun(p, j, Len(p), ReFlagChars))

(* "(?<": st.i is behind it, char the token there *)
ReBehind(p, st, items, verbose, fl, char) ==
  IF char \notin {<<61>>, <<33>>} THEN ReStepped(ReFail(st), items, verbose)
  ELSE ReLook(p, [st EXCEPT !.i = st.i + 1], items, verbose, fl, -1, char = <<33>>)

(* "(?#": up to the first ")" *)
ReComment(st, items, verbose, close) ==
  IF close = 0 THEN ReStepped(ReFail(st), items, verbose)
  ELSE ReStepped([st EXCEPT !.i = close + 1], items, verbose)

(* "(?": char is the token behind it, and st.i is behind char *)
ReExtension(p, st, items, verbose, first, fl, char) ==
  IF char = <<80>> THEN
    (IF ReTok(p, st.i) = <<60>>
       THEN ReNamedGroup(p, [st EXCEPT !.i = st.i + 1], items, verbose, fl,
                         ReFind(p, st.i + 1, 62))
     ELSE IF ReTok(p, st.i) = <<61>>
       THEN ReNamedRef(p, [st EXCEPT !.i = st.i + 1], items, verbose, fl,
                       ReFind(p, st.i + 1, 41))
     ELSE ReStepped(ReFail(st), items, verbose))
  ELSE IF char = <<58>> THEN ReNonCapture(p, st, items, verbose, fl, {}, {}, FALSE)
  ELSE IF char = <<62>> THEN ReNonCapture(p, st, items, verbose, fl, {}, {}, TRUE)
  ELSE IF char = <<35>> THEN ReComment(st, items, verbose, ReFind(p, st.i, 41))
  ELSE IF char \in {<<61>>, <<33>>} THEN ReLook(p, st, items, verbose, fl, 1, char = <<33>>)
  ELSE IF char = <<60>> THEN ReBehind(p, st, items, verbose, fl, ReTok(p, st.i))
  ELSE IF char = <<40>> THEN ReCond(p, st, items, verbose, ReFlags(st, fl), ReFind(p, st.i, 41))
  ELSE IF Len(char) = 1 /\ char[1] \in ReFlagChars \cup {45}
    THEN ReFlagsGroup(p, st, items, verbose, first, fl, st.i - 1)
  ELSE ReStepped(ReFail(st), items, verbose)

(* "(": st.i is behind it *)
ReGroup(p, st, items, verbose, first, fl) ==
  IF ReTok(p, st.i) # <<63>> THEN ReCapture(p, st, items, verbose, fl, <<>>)
  ELSE ReExtension(p, [st EXCEPT !.i = st.i + 1 + Len(ReTok(p, st.i + 1))],
                   items, verbose, first, fl, ReTok(p, st.i + 1))

(* the index behind the comment of a verbose pattern that starts at p[i] *)
RECURSIVE ReCommentEnd(_, _)
ReCommentEnd(p, i) ==
  IF i > Len(p) THEN i
  ELSE IF p[i] = 10 THEN i + 1
  ELSE ReCommentEnd(p, i + Len(ReTok(p, i)))

(* one step of _parse: the token this is read and st.i is behind it *)
ReStep(p, st, items, verbose, first, fl, this) ==
  IF verbose /\ this[1] \in ReWhitespace THEN ReStepped(st, items, verbose)
  ELSE IF verbose /\ this = <<35>>
    THEN ReStepped([st EXCEPT !.i = ReCommentEnd(p, st.i)], items, verbose)
  ELSE IF this[1] = 92 THEN
    (IF Len(this) = 1 THEN ReStepped(ReFail(st), items, verbose)
     ELSE ReAppendCode(ReEscape(p, st, this[2]), items, verbose, ReFlags(st, fl)))
  ELSE IF this = <<91>> THEN ReAppendItem(ReSet(p, st, ReFlags(st, fl)), items, verbose)
  ELSE IF this[1] \in {42, 43, 63, 123}
    THEN [ReRepeat(p, st, items, this[1], ReFlags(st, fl)) EXCEPT !.verbose = verbose]
  ELSE IF this = <<46>>
    THEN ReStepped(st, Append(items, ReAny(115 \in ReFlags(st, fl))), verbose)
  ELSE IF this = <<40>> THEN ReGroup(p, st, items, verbose, first, fl)
  ELSE IF this = <<94>>
    THEN ReStepped(st, Append(items, RePosition(IF 109 \in ReFlags(st, fl) THEN "bol" ELSE "bos",
                                                FALSE)), verbose)
  ELSE IF this = <<36>>
    THEN ReStepped(st, Append(items, RePosition(IF 109 \in ReFlags(st, fl) THEN "eol" ELSE "end",
                                                FALSE)), verbose)
  ELSE ReStepped(st, Append(items, ReLiteral(this[1], FALSE, ReFlags(st, fl))), verbose)

ReLoop(p, r, first, fl) == ReParse(p, r.st, r.items, r.verbose, first, fl)

(* the groups that neither capture nor set flags give way to their items *)
RECURSIVE ReUnpacked(_, _)
ReUnpacked(items, k) ==
  IF k > Len(items) THEN <<>>
  ELSE (IF items[k].op = "group" /\ items[k].plain THEN items[k].p ELSE <<items[k]>>)
       \o ReUnpacked(items, k + 1)

ReParseTok(p, st, items, verbose, first, fl, this) ==
  IF this = <<>> \/ this \in {<<124>>, <<41>>} THEN [st EXCEPT !.out = ReUnpacked(items, 1)]
  ELSE ReLoop(p, ReStep(p, [st EXCEPT !.i = st.i + Len(this)], items, verbose, first,
                        fl, this),
              first, fl)

(* _parse: the items from p[st.i] up to "|", ")" or the end *)
ReParse(p, st, items, verbose, first, fl) ==
  IF st.err # "" THEN st ELSE ReParseTok(p, st, items, verbose, first, fl, ReTok(p, st.i))

(* the members of the sets that are the alternatives from the k-th on *)
RECURSIVE ReAllMembers(_, _)
ReAllMembers(alts, k) ==
  IF k > Len(alts) THEN <<>> ELSE alts[k][1].raw \o ReAllMembers(alts, k + 1)

(* alternatives of one character each are a set *)
ReMerged(alts, fl) ==
  IF \A k \in 1..Len(alts) :
       Len(alts[k]) = 1 /\ alts[k][1].op = "in" /\ ~alts[k][1].neg
    THEN ReCharset(FALSE, ReUnwrap(ReUniq(ReAllMembers(alts, 1))), fl)
    ELSE ReBranch(alts)

(* the items all alternatives start with go before the alternatives *)
RECURSIVE ReBranched(_, _, _)
ReBranched(alts, prefix, fl) ==
  IF \A k \in 1..Len(alts) :
       /\ alts[k] # <<>>
       /\ alts[k][1].op \in {"in", "any", "at", "ref"}
       /\ alts[1] # <<>>
       /\ alts[k][1].op = alts[1][1].op
       /\ alts[k][1] = alts[1][1]
    THEN ReBranched([k \in 1..Len(alts) |-> Tail(alts[k])], Append(prefix, alts[1][1]), fl)
    ELSE Append(prefix, ReMerged(alts, fl))

RECURSIVE ReAlternatives(_, _, _, _, _, _, _)
(* st.out is an alternative: behind "|" comes the next one, and at ")" or  *)
(* the end the alternatives are a branch                                   *)
ReAlternative(p, st, alts, verbose, nested, fl) ==
  IF st.err # "" THEN st
  ELSE IF ReTok(p, st.i) = <<124>>
    THEN ReAlternatives(p, [st EXCEPT !.i = st.i + 1], Append(alts, st.out),
                        IF nested THEN verbose ELSE 120 \in st.gf, nested, FALSE, fl)
  ELSE IF alts = <<>> THEN st
  ELSE [st EXCEPT !.out = ReBranched(Append(alts, st.out), <<>>, ReFlags(st, fl))]

(* the alternatives from p[st.i] on, behind the alternatives alts *)
ReAlternatives(p, st, alts, verbose, nested, first, fl) ==
  ReAlternative(p, ReParse(p, st, <<>>, verbose, first, fl), alts, verbose, nested, fl)

(* _parse_sub: alternatives up to ")" or the end *)
ReParseSub(p, st, verbose, nested, fl) ==
  ReAlternatives(p, st, <<>>, verbose, nested, ~nested, fl)

(* LITERAL and NOT_LITERAL: a set of one literal *)
ReIsLiteral(n) == Len(n.raw) = 1 /\ n.raw[1].k = "lit"

(* the set n, compiled while case is ignored, has a member with a case *)
ReCasedMember(n) ==
  /\ n.fold # ""
  /\ \E k \in 1..Len(n.raw) :
       \/ n.raw[k].k = "lit" /\ ReIsCased(n.fold, n.raw[k].lo)
       \/ /\ n.raw[k].k = "range"
          /\ (n.raw[k].hi > 65535 \/ ReAnyCased(n.fold, n.raw[k].lo, n.raw[k].hi))

(* _get_charset_prefix: the set every match starts with, as <<set>>, when *)
(* the pattern starts with one, inside of groups or not; <<>> otherwise.  *)
(* A pattern that starts with literals has a literal prefix, which is     *)
(* searched as it is matched.                                             *)
RECURSIVE ReCharsetPrefix(_)
ReCharsetPrefix(items) ==
  IF items = <<>> THEN <<>>
  ELSE IF items[1].op = "group" THEN ReCharsetPrefix(items[1].p)
  ELSE IF items[1].op = "in" /\ ~ReIsLiteral(items[1]) /\ ~ReCasedMember(items[1])
    THEN <<items[1]>>
  ELSE <<>>

(* what re.compile raises *)
ReRaised(e) == [err |-> e, items |-> <<>>, g |-> 0, charset |-> <<>>, ascii |-> FALSE]

(* parse() and the compiler: the exception raised, or the items, the      *)
(* number of groups, the set of the info block and whether the global     *)
(* flags hold "a"                                                         *)
ReFinish(p, st) ==
  IF st.err = "OverflowError" THEN ReRaised("OverflowError")
  ELSE IF st.err # "" \/ ReLoneEnd(p, 1) THEN ReRaised("re.error")
  ELSE IF {97, 117} \subseteq st.gf THEN ReRaised("ValueError")
  ELSE IF st.i <= Len(p) \/ st.late \/ \E r \in st.refs : r >= st.g
    THEN ReRaised("re.error")
  ELSE [err |-> "", items |-> st.out, g |-> st.g - 1,
        charset |-> ReCharsetPrefix(st.out), ascii |-> 97 \in st.gf]

(* re.compile(p) *)
ReCompile(p) == ReFinish(p, ReParseSub(p, ReStart, FALSE, FALSE, {-1}))

(* ---------------------------------------------------------------------- *)
(* re.search, part 4: the matching of _sre.  A state of the match is a    *)
(* record: pos, the number of characters of the text before the position, *)
(* and caps, the marks <<start, end>> of each group, -1 for a mark not    *)
(* set: MARK sets the start where the group opens and the end where it    *)
(* closes, each leaving the other as it was.  Matching yields the states  *)
(* it can end in, the one it prefers first.                               *)
(* ---------------------------------------------------------------------- *)
ReIsWord(ascii, c) ==
  c = 95 \/ (IF ascii THEN c \in AsciiLetters \cup (48..57) ELSE InRanges(c, Alnum))

(* the character x is of the category \c; ascii: under the flag a *)
ReInCategory(c, ascii, x) ==
  IF c = 100 THEN (IF ascii THEN IsAsciiDigit(x) ELSE IsDigit(x))
  ELSE IF c = 68 THEN ~(IF ascii THEN IsAsciiDigit(x) ELSE IsDigit(x))
  ELSE IF c = 115 THEN (IF ascii THEN x \in ReWhitespace ELSE IsSpace(x))
  ELSE IF c = 83 THEN ~(IF ascii THEN x \in ReWhitespace ELSE IsSpace(x))
  ELSE IF c = 119 THEN ReIsWord(ascii, x)
  ELSE ~ReIsWord(ascii, x)

(* a character from lo to hi has the lower case y *)
ReFoldsTo(fold, lo, hi, y) == \E c \in RePreimages(fold, y) : lo <= c /\ c <= hi

(* x, a character under the folding, is the member m *)
ReIsMember(m, fold, x) ==
  IF m.k = "cat" THEN ReInCategory(m.lo, m.hi = 1, x)
  ELSE IF m.k = "range" THEN m.lo <= x /\ x <= m.hi
  ELSE IF m.k = "urange"
    THEN (m.lo <= x /\ x <= m.hi) \/ (m.lo <= UniUpper(x) /\ UniUpper(x) <= m.hi)
  ELSE \/ ReFoldsTo(fold, m.lo, m.hi, x)
       \/ /\ fold = "u"
          /\ \E e \in ExtraCases : x \in e[2] /\ ReFoldsTo(fold, m.lo, m.hi, e[1])

(* the character ch is in the set n *)
ReInSet(n, ch) == n.neg # (\E m \in n.items : ReIsMember(m, n.fold, ReFold(n.fold, ch)))

(* there is a word character before the position, and behind it *)
ReWordBefore(s, pos, ascii) == pos > 0 /\ ReIsWord(ascii, s[pos])

ReWordBehind(s, pos, ascii) == pos < Len(s) /\ ReIsWord(ascii, s[pos + 1])

(* the position is where n asks for *)
ReIsAt(n, s, pos) ==
  IF n.k = "bos" THEN pos = 0
  ELSE IF n.k = "bol" THEN pos = 0 \/ s[pos] = 10
  ELSE IF n.k = "eos" THEN pos = Len(s)
  ELSE IF n.k = "end" THEN pos = Len(s) \/ (pos = Len(s) - 1 /\ s[Len(s)] = 10)
  ELSE IF n.k = "eol" THEN pos = Len(s) \/ s[pos + 1] = 10
  ELSE IF n.k = "b"
    THEN s # <<>> /\ ReWordBefore(s, pos, n.ascii) # ReWordBehind(s, pos, n.ascii)
  ELSE s # <<>> /\ ReWordBefore(s, pos, n.ascii) = ReWordBehind(s, pos, n.ascii)

(* the text of the group equals, under the folding, the text at pos *)
ReSameText(s, fold, from, to, pos) ==
  /\ pos + (to - from) <= Len(s)
  /\ \A k \in 1..(to - from) : ReFold(fold, s[from + k]) = ReFold(fold, s[pos + k])

(* the repetitions that matter on a text of so many characters: a match    *)
(* repeats an item more often only without moving on                       *)
ReEnough(s, count) == IF count > 2 * Len(s) + 3 THEN 2 * Len(s) + 3 ELSE count

RECURSIVE ReSeq(_, _, _, _)
RECURSIVE ReEach(_, _, _, _, _)
RECURSIVE ReUntil(_, _, _, _, _)
RECURSIVE ReUntilEach(_, _, _, _, _, _)
RECURSIVE ReLazy(_, _, _, _, _)
RECURSIVE ReLazyEach(_, _, _, _, _, _)
RECURSIVE RePossessive(_, _, _, _, _)

(* the state with the start mark of the group gid at the position *)
ReOpened(st, gid) ==
  IF gid = 0 THEN st ELSE [st EXCEPT !.caps[gid] = <<st.pos, st.caps[gid][2]>>]

(* the states in rs with the end mark of the group gid at their position *)
ReCaptured(rs, gid) ==
  IF gid = 0 THEN rs
  ELSE [k \in 1..Len(rs) |-> [rs[k] EXCEPT !.caps[gid] = <<rs[k].caps[gid][1], rs[k].pos>>]]

(* GROUPREF and GROUPREF_EXISTS find the group: both marks set, the end   *)
(* not before the start                                                   *)
ReHasGroup(st, gid) == st.caps[gid][1] >= 0 /\ st.caps[gid][2] >= st.caps[gid][1]

(* the states of the alternatives from the k-th on *)
RECURSIVE ReAnyOf(_, _, _, _)
ReAnyOf(alts, k, s, st) ==
  IF k > Len(alts) THEN <<>>
  ELSE ReSeq(alts[k], 1, s, st) \o ReAnyOf(alts, k + 1, s, st)

ReFirst(rs) == IF rs = <<>> THEN <<>> ELSE <<rs[1]>>

(* an assertion: rs are the states its pattern ends in *)
ReAssertion(n, st, rs) ==
  IF n.neg THEN (IF rs = <<>> THEN <<st>> ELSE <<>>)
  ELSE IF rs = <<>> THEN <<>>
  ELSE <<[st EXCEPT !.caps = rs[1].caps]>>

ReLookBehind(n, s, st) ==
  IF st.pos < n.w THEN (IF n.neg THEN <<st>> ELSE <<>>)
  ELSE ReAssertion(n, st, ReSeq(n.p, 1, s, [st EXCEPT !.pos = st.pos - n.w]))

(* MAX_UNTIL with count repetitions done; last is the position at which    *)
(* the repetition before started, -1 for none                              *)
ReUntil(n, s, st, count, last) ==
  IF count < ReEnough(s, ReCount(n.bmin))
    THEN ReUntilEach(n, s, ReSeq(n.p, 1, s, st), 1, count + 1, last)
  ELSE IF (n.bmax = ReMaxRepeat
             \/ count < ReEnough(s, ReCount(n.bmin))
                        + ReEnough(s, ReCount(BigSub(n.bmax, n.bmin))))
          /\ st.pos # last
    THEN ReUntilEach(n, s, ReSeq(n.p, 1, s, st), 1, count + 1, st.pos) \o <<st>>
  ELSE <<st>>

ReUntilEach(n, s, rs, k, count, last) ==
  IF k > Len(rs) THEN <<>>
  ELSE ReUntil(n, s, rs[k], count, last) \o ReUntilEach(n, s, rs, k + 1, count, last)

(* MIN_UNTIL *)
ReLazy(n, s, st, count, last) ==
  IF count < ReEnough(s, ReCount(n.bmin))
    THEN ReLazyEach(n, s, ReSeq(n.p, 1, s, st), 1, count + 1, last)
  ELSE IF (n.bmax = ReMaxRepeat
             \/ count < ReEnough(s, ReCount(n.bmin))
                        + ReEnough(s, ReCount(BigSub(n.bmax, n.bmin))))
          /\ st.pos # last
    THEN <<st>> \o ReLazyEach(n, s, ReSeq(n.p, 1, s, st), 1, count + 1, st.pos)
  ELSE <<st>>

ReLazyEach(n, s, rs, k, count, last) ==
  IF k > Len(rs) THEN <<>>
  ELSE ReLazy(n, s, rs[k], count, last) \o ReLazyEach(n, s, rs, k + 1, count, last)

(* POSSESSIVE_REPEAT: rs are the states the repetition from st ends in, of *)
(* which the first is kept; a repetition that changes nothing is the same  *)
(* however often it is made                                                *)
RePossessiveNext(n, s, st, count, last, rs) ==
  IF count < ReCount(n.bmin)
    THEN (IF rs = <<>> THEN <<>>
          ELSE IF rs[1] = st THEN RePossessive(n, s, st, ReCount(n.bmin), -1)
          ELSE RePossessive(n, s, rs[1], count + 1, -1))
  ELSE IF rs = <<>> THEN <<st>>
  ELSE RePossessive(n, s, rs[1], count + 1, st.pos)

RePossessive(n, s, st, count, last) ==
  IF count < ReCount(n.bmin) \/ ((n.bmax = ReMaxRepeat \/ count < ReCount(n.bmax))
                                   /\ st.pos # last)
    THEN RePossessiveNext(n, s, st, count, last, ReSeq(n.p, 1, s, st))
  ELSE <<st>>

(* the states the item n ends in from st *)
ReItem(n, s, st) ==
  IF n.op = "in"
    THEN (IF st.pos < Len(s) /\ ReInSet(n, s[st.pos + 1])
            THEN <<[st EXCEPT !.pos = st.pos + 1]>> ELSE <<>>)
  ELSE IF n.op = "any"
    THEN (IF st.pos < Len(s) /\ (n.all \/ s[st.pos + 1] # 10)
            THEN <<[st EXCEPT !.pos = st.pos + 1]>> ELSE <<>>)
  ELSE IF n.op = "at" THEN (IF ReIsAt(n, s, st.pos) THEN <<st>> ELSE <<>>)
  ELSE IF n.op = "branch" THEN ReAnyOf(n.alts, 1, s, st)
  ELSE IF n.op = "group" THEN ReCaptured(ReSeq(n.p, 1, s, ReOpened(st, n.gid)), n.gid)
  ELSE IF n.op = "atomic" THEN ReFirst(ReSeq(n.p, 1, s, st))
  ELSE IF n.op = "assert"
    THEN (IF n.dir < 0 THEN ReLookBehind(n, s, st)
          ELSE ReAssertion(n, st, ReSeq(n.p, 1, s, st)))
  ELSE IF n.op = "ref"
    THEN (IF ReHasGroup(st, n.gid)
               /\ ReSameText(s, n.fold, st.caps[n.gid][1], st.caps[n.gid][2], st.pos)
            THEN <<[st EXCEPT !.pos = st.pos + st.caps[n.gid][2] - st.caps[n.gid][1]]>>
            ELSE <<>>)
  ELSE IF n.op = "cond"
    THEN ReSeq(IF ReHasGroup(st, n.gid) THEN n.yes ELSE n.no, 1, s, st)
  ELSE IF n.kind = "max" THEN ReUntil(n, s, st, 0, -1)
  ELSE IF n.kind = "min" THEN ReLazy(n, s, st, 0, -1)
  ELSE RePossessive(n, s, st, 0, -1)

(* the states the items from the k-th on end in from each state of rs *)
ReEach(items, k, s, rs, j) ==
  IF j > Len(rs) THEN <<>>
  ELSE ReSeq(items, k, s, rs[j]) \o ReEach(items, k, s, rs, j + 1)

(* a state that comes again goes on as it did the first time: of the      *)
(* states alike the first is kept                                         *)
ReDistinct(rs) == IF Len(rs) < 2 THEN rs ELSE ReUnwrap(ReUniq(rs))

ReSeq(items, k, s, st) ==
  IF k > Len(items) THEN <<st>>
  ELSE ReDistinct(ReEach(items, k + 1, s, ReDistinct(ReItem(items[k], s, st)), 1))

(* the character ch is in the set n of the info block, which              *)
(* _compile_info compiles under the global flags, whatever the flags of   *)
(* the group the set stands in                                            *)
ReInCharset(n, ascii, ch) ==
  n.neg # (\E k \in 1..Len(n.raw) :
             IF n.raw[k].k = "cat" THEN ReInCategory(n.raw[k].lo, ascii, ch)
             ELSE IF n.raw[k].k = "lit" THEN ch = n.raw[k].lo
             ELSE n.raw[k].lo <= ch /\ ch <= n.raw[k].hi)

(* no group has a mark *)
RECURSIVE ReNoCaps(_)
ReNoCaps(g) == IF g = 0 THEN <<>> ELSE Append(ReNoCaps(g - 1), <<-1, -1>>)

(* the search tries the position: with a set in the info block, only      *)
(* where a character of the set stands                                    *)
ReTries(c, s, pos) ==
  c.charset = <<>> \/ (pos < Len(s) /\ ReInCharset(c.charset[1], c.ascii, s[pos + 1]))

(* the match the search returns: the state the pattern prefers at the     *)
(* first position from pos on where it matches, <<>> for no match         *)
RECURSIVE ReFinds(_, _, _)
ReFoundAt(c, s, pos, rs) == IF rs = <<>> THEN ReFinds(c, s, pos + 1) ELSE <<rs[1]>>

ReFinds(c, s, pos) ==
  IF pos > Len(s) THEN <<>>
  ELSE IF ~ReTries(c, s, pos) THEN ReFinds(c, s, pos + 1)
  ELSE ReFoundAt(c, s, pos, ReSeq(c.items, 1, s, [pos |-> pos, caps |-> ReNoCaps(c.g)]))

(* the pattern matches the text from some position the search tries *)
ReMatches(c, s) == ReFinds(c, s, 0) # <<>>

(* the Match object cannot be made of the state: a group has its start    *)
(* mark after its end mark                                                *)
ReWrongSpan(st) ==
  \E g \in 1..Len(st.caps) : st.caps[g][2] >= 0 /\ st.caps[g][1] > st.caps[g][2]

ReFoundWrong(found) == found # <<>> /\ ReWrongSpan(found[1])

(* the exception re.search(p, s) raises, c being p compiled, "" for none *)
ReSearchRaises(c, s) ==
  IF c.err # "" THEN c.err
  ELSE IF ReFoundWrong(ReFinds(c, s, 0)) THEN "SystemError"
  ELSE ""

(* the exception re.compile(p) raises, "" for none *)
ReRaises(p) == ReCompile(p).err

(* re.search(p, s) finds a match *)
ReSearched(c, s) == ReSearchRaises(c, s) = "" /\ ReMatches(c, s)

ReSearch(p, s) == ReSearched(ReCompile(p), s)

(* the text an f-string interpolates for x *)
Str(x) ==
  IF x = None THEN <<78, 111, 110, 101>> (* None *)
  ELSE IF x = FloatZero THEN <<48, 46, 48>> (* 0.0 *)
  ELSE IF x = True THEN <<84, 114, 117, 101>> (* True *)
  ELSE IF x = False THEN <<70, 97, 108, 115, 101>> (* False *)
  ELSE IF IsJsonInt(x) THEN Tail(x)
  ELSE x

(* f"{num:.2f}" *)
Format2(a) == FloatFormat(a, 2)

(* lines 120-127 on the result num of float(s) *)
CurrencyText(num, negative) ==
  IF num = NaF THEN <<48, 46, 48, 48>> (* 0.00 *)
  ELSE Format2(IF negative THEN FloatNeg(num) ELSE num)

(* a normalisation in which a minus sign inside parentheses cancels them *)
normalize_currency_Toggle(v, inv) ==
  LET s0    == Strip(v)
      paren == StartsWith(s0, <<40>>) /\ EndsWith(s0, <<41>>)
      s1    == IF paren THEN SubSeq(s0, 2, Len(s0) - 1) ELSE s0
      s2    == Strip(RemoveChar(RemoveChar(s1, 36), 44))
      minus == StartsWith(s2, <<45>>)
      s3    == IF minus THEN Strip(LStripChar(s2, 45)) ELSE s2
      neg0  == paren # minus
  IN IF s0 = <<>> THEN None
     ELSE CurrencyText(float(s3), IF Truthy(inv) THEN ~neg0 ELSE neg0)

normalize_currency(value, inverseAmount) ==
  LET s0    == Strip(value)
      paren == StartsWith(s0, <<40>>) /\ EndsWith(s0, <<41>>)
      s1    == IF paren THEN SubSeq(s0, 2, Len(s0) - 1) ELSE s0
      s2    == Strip(RemoveChar(RemoveChar(s1, 36), 44))
      minus == StartsWith(s2, <<45>>)
      s3    == IF minus THEN Strip(LStripChar(s2, 45)) ELSE s2
      neg0  == paren \/ minus
  IN IF s0 = <<>> THEN None
     ELSE CurrencyText(float(s3), IF Truthy(inverseAmount) THEN ~neg0 ELSE neg0)

normalize_quantity(value) == RemoveChar(Strip(value), 44)

(* "if x < 0: x = -x": a negative zero and a nan stay as they are *)
FloatAbs(x) == IF FloatLt0(x) THEN FloatNeg(x) ELSE x

(* f"{a/q:.9f}" *)
Format9(a, q) == FloatFormat(FloatDiv(a, q), 9)

(* lines 134-144 on the results q and a of the two float() calls; a nan is *)
(* not equal to 0, so that it is divided by                                *)
PriceText(q, a) ==
  IF q = NaF \/ a = NaF \/ FloatIsZero(q) THEN <<48, 46, 48, 48>> (* 0.00 *)
  ELSE Format9(FloatAbs(a), FloatAbs(q))

compute_price(quantity, amount) == PriceText(float(quantity), float(amount))

(* line 306: price and abs(float(calculated_price) - float(price)) > 0.01; *)
(* both texts are the results of a float formatted                         *)
PriceDiffers(price, calculated_price) ==
  /\ price # None
  /\ FloatGt(abs(FloatSub(float(calculated_price), float(price))), float(<<48, 46, 48, 49>> (* 0.01 *)))

(* f"{-q * p:.2f}" *)
NegProduct2(q, p) == Format2(FloatMul(FloatNeg(q), p))

(* lines 312-317 on the results q and p of the two float() calls *)
AmountText(q, p) ==
  IF q = NaF \/ p = NaF THEN <<48, 46, 48, 48>> (* 0.00 *) ELSE NegProduct2(q, p)

(* ---------------------------------------------------------------------- *)
(* Dates                                                                  *)
(* ---------------------------------------------------------------------- *)
RECURSIVE SplitOn(_, _)
SplitOn(s, c) ==
  LET at == {i \in 1..Len(s) : s[i] = c}
  IN IF at = {} THEN <<s>>
     ELSE LET i == CHOOSE k \in at : \A j \in at : k <= j
          IN <<SubSeq(s, 1, i - 1)>> \o SplitOn(SubSeq(s, i + 1, Len(s)), c)

IsLeap(y) == y % 4 = 0 /\ (y % 100 # 0 \/ y % 400 = 0)

DaysIn(y, m) ==
  IF m = 2 THEN (IF IsLeap(y) THEN 29 ELSE 28)
  ELSE IF m \in {4, 6, 9, 11} THEN 30 ELSE 31

(* parse_date's None: a datetime record whose year datetime cannot hold *)
NoDate == [y |-> 0, m |-> 0, d |-> 0]

(* [1-9] *)
IsDigit19(c) == 49 <= c /\ c <= 57

(* strptime's %m: 1[0-2]|0[1-9]|[1-9] *)
MonthOk(ms) ==
  \/ Len(ms) = 2 /\ ms[1] = 49 /\ ms[2] \in {48, 49, 50}
  \/ Len(ms) = 2 /\ ms[1] = 48 /\ IsDigit19(ms[2])
  \/ Len(ms) = 1 /\ IsDigit19(ms[1])

(* strptime's %d: 3[0-1]|[1-2]\d|0[1-9]|[1-9]| [1-9] *)
DayOk(ds) ==
  \/ Len(ds) = 2 /\ ds[1] = 51 /\ ds[2] \in {48, 49}
  \/ Len(ds) = 2 /\ ds[1] \in {49, 50} /\ IsDigit(ds[2])
  \/ Len(ds) = 2 /\ ds[1] \in {48, 32} /\ IsDigit19(ds[2])
  \/ Len(ds) = 1 /\ IsDigit19(ds[1])

(* strptime's %Y: \d\d\d\d *)
YearOk(ys) == Len(ys) = 4 /\ \A i \in 1..4 : IsDigit(ys[i])

(* int() of a field *)
FieldVal(s) == DigitsVal(IF Head(s) = 32 THEN Tail(s) ELSE s)

(* datetime(y, m, d), which raises ValueError out of its range *)
DateAt(y, m, d) ==
  IF y >= 1 /\ d <= DaysIn(y, m) THEN [y |-> y, m |-> m, d |-> d] ELSE NoDate

(* strptime on the three fields of the text *)
DateOf(ys, ms, ds) ==
  IF YearOk(ys) /\ MonthOk(ms) /\ DayOk(ds)
    THEN DateAt(FieldVal(ys), FieldVal(ms), FieldVal(ds))
    ELSE NoDate

(* strptime on a text split into its fields, of which y, m and d name the  *)
(* year, the month and the day                                             *)
DateFields(fields, y, m, d) ==
  IF Len(fields) = 3 THEN DateOf(fields[y], fields[m], fields[d]) ELSE NoDate

(* the loop over the two formats: the first that parses *)
FirstDate(a, b) == IF a # NoDate THEN a ELSE b

parse_date(date_str) ==
  FirstDate(DateFields(SplitOn(Strip(date_str), 47), 3, 1, 2),
            DateFields(SplitOn(Strip(date_str), 45), 1, 2, 3))

(* dt.strftime("%Y%m%d") *)
strftime_Ymd(dt) ==
  IntToStr(dt.y) \o ZeroPad(IntToStr(dt.m), 2) \o ZeroPad(IntToStr(dt.d), 2)

DateKey(dt) == dt.y * 10000 + dt.m * 100 + dt.d

(* ---------------------------------------------------------------------- *)
(* Configuration and the external lookup                                  *)
(* ---------------------------------------------------------------------- *)
(* the file args.account_mapping: isfile, what os.path.isfile says of the  *)
(* path; opens, the exception open raises on it, "" for none; loads, the   *)
(* exception json.load raises on its bytes, "" for none; type, the type of *)
(* the JSON value; sections, the section names that "in" finds in the      *)
(* value; kinds, the type of the JSON value of each of the two sections;   *)
(* and what the two sections hold.  account_id_mapping is a function: of   *)
(* an object, the one from its keys to its values; of an array, one on the *)
(* strings among its elements; of a string, one on that string alone; and  *)
(* the empty one of any other value.  missing_cusip_mapping is a sequence  *)
(* of rules: the elements of an array, the characters of a string, the     *)
(* keys of an object, and none of any other value.  A rule is a record of  *)
(* its type, "object" or "other", and of the values of its four keys,      *)
(* KeyAbsent for a key it lacks.  A value is a string, an integer, true,   *)
(* false or null.                                                          *)
VARIABLE mapping_file

(* the file args.input_csv: opens, the exception open raises on it, "" for *)
(* none; rows, the rows csv.reader yields, each a sequence of cells; ends, *)
(* the exception the reader raises after the last of them, "" for the end  *)
(* of the file                                                             *)
VARIABLE csvfile

(* the command line and the path of the output: input_csv and output_qfx,  *)
(* the two positional arguments, None for an output_qfx that is not given; *)
(* opens, the exception open(..., "w") raises on the path of the output,   *)
(* "" for none; writes, the exception the write or the close raises on the *)
(* device, "" for none                                                     *)
VARIABLE output_path

output_from_input(input) ==
  IF EndsWith(input, <<46, 99, 115, 118>> (* .csv *)) THEN SubSeq(input, 1, Len(input) - 4) \o <<46, 113, 102, 120>> (* .qfx *)
  ELSE input \o <<46, 113, 102, 120>> (* .qfx *)

(* args.output_qfx after lines 612-613 *)
args_output_qfx ==
  IF output_path.output_qfx \in {None, <<>>}
    THEN output_from_input(output_path.input_csv)
  ELSE output_path.output_qfx

(* sys.stdout: encoding, "utf-8" or "ascii", both strict; writes, the      *)
(* exception the write to the device raises, "" for none; write_through,   *)
(* whether every print goes to the device before it returns, as on a       *)
(* terminal and under python -u; chunk_size, the bytes the text layer      *)
(* holds back; and buffer_size, the bytes the buffer under it holds.  What *)
(* a stdout that writes through no more holds when main returns, the       *)
(* interpreter flushes at its exit, after the run                          *)
VARIABLE stdout

(* the texts print has written to sys.stdout, one for each call *)
VARIABLE printed

(* a code point the encoding of sys.stdout takes *)
Encodes(c) ==
  IF stdout.encoding = "ascii" THEN c < 128 ELSE c < 55296 \/ c > 57343

(* the number of bytes text.encode(sys.stdout.encoding) gives:             *)
(* one byte for each code point, and in UTF-8 one more from 128, from 2048 *)
(* and from 65536                                                          *)
EncodedLen(text) ==
  IF stdout.encoding = "ascii" THEN Len(text)
  ELSE Len(text) + Cardinality({k \in 1..Len(text) : text[k] >= 128})
         + Cardinality({k \in 1..Len(text) : text[k] >= 2048})
         + Cardinality({k \in 1..Len(text) : text[k] >= 65536})

(* a stdout on a device that takes nothing: pending, the bytes the text    *)
(* layer holds; buffered, the bytes the buffer holds; full, whether a      *)
(* write had to go to the device                                           *)
EmptyStream == [pending |-> 0, buffered |-> 0, full |-> FALSE]

(* the text layer hands its pending bytes to the buffer, which takes them  *)
(* when they fit and writes to the device when they do not                 *)
StreamFlush(st) ==
  IF st.full THEN st
  ELSE IF st.pending > stdout.buffer_size - st.buffered THEN [st EXCEPT !.full = TRUE]
  ELSE [st EXCEPT !.buffered = st.buffered + st.pending, !.pending = 0]

StreamHold(st, n) == IF st.full THEN st ELSE [st EXCEPT !.pending = st.pending + n]

(* sys.stdout.write of n bytes: the pending bytes go first when they and   *)
(* the n are more than chunk_size, and all go once they reach chunk_size   *)
StreamTake(st, n) ==
  IF ~st.full /\ st.pending + n >= stdout.chunk_size THEN StreamFlush(StreamHold(st, n))
  ELSE StreamHold(st, n)

StreamWrite(st, n) ==
  IF ~st.full /\ st.pending + n > stdout.chunk_size THEN StreamTake(StreamFlush(st), n)
  ELSE StreamTake(st, n)

(* print writes the text and then the end of the line *)
StreamPrint(st, text) == StreamWrite(StreamWrite(st, EncodedLen(text)), 1)

(* the stream after the first k of the prints texts *)
RECURSIVE StreamAfter(_, _)
StreamAfter(texts, k) ==
  IF k = 0 THEN EmptyStream ELSE StreamPrint(StreamAfter(texts, k - 1), texts[k])

(* print(text): the exception it raises, "" for none; the text is encoded  *)
(* before it goes to the stream, and the device raises at the call only    *)
(* when a write reaches it                                                 *)
print(text) ==
  IF \E k \in 1..Len(text) : ~Encodes(text[k]) THEN "UnicodeEncodeError"
  ELSE IF stdout.writes = "" \/ stdout.write_through THEN stdout.writes
  ELSE IF StreamPrint(StreamAfter(printed, Len(printed)), text).full THEN stdout.writes
  ELSE ""

(* _missing_cusip_mappings, the section missing_cusip_mapping in file order *)
missing_cusip_mappings == mapping_file.missing_cusip_mapping

(* account_mapping, the section account_id_mapping *)
account_mapping == mapping_file.account_id_mapping

(* type(_missing_cusip_mappings) and type(account_mapping) *)
rules_type == mapping_file.kinds.missing_cusip_mapping

account_type == mapping_file.kinds.account_id_mapping

(* the tickers of the stocks_day table *)
StockTickers == {<<83, 84>> (* ST *)}

(* what the database makes of each query that the quotes of the symbol     *)
(* have turned into another query: a row, no row, or an error              *)
VARIABLE injected

Answers == {"row", "none", "error"}

(* the text between the quotes of '{symbol}' is one SQL string literal:    *)
(* every quote in it is doubled                                            *)
RECURSIVE SqlClosed(_)
SqlClosed(s) ==
  IF s = <<>> THEN TRUE
  ELSE IF Head(s) # 39 THEN SqlClosed(Tail(s))
  ELSE Len(s) >= 2 /\ s[2] = 39 /\ SqlClosed(Tail(Tail(s)))

(* the text that literal denotes: a doubled quote is one quote *)
RECURSIVE SqlText(_)
SqlText(s) ==
  IF s = <<>> THEN <<>>
  ELSE IF Head(s) # 39 THEN <<Head(s)>> \o SqlText(Tail(s))
  ELSE <<39>> \o SqlText(Tail(Tail(s)))

(* characters that neither open nor close a comment, a quoted identifier  *)
(* or an escape in any dialect of SQL                                      *)
SqlPlain ==
  AsciiLetters \cup {48,49,50,51,52,53,54,55,56,57}
    \cup {39, 32, 46, 95, 61, 44, 40, 41}

(* the text of the query ends inside a string literal: with the two quotes *)
(* of the f-string the number of quotes is odd, and nothing else in the    *)
(* symbol opens or closes anything                                         *)
SqlUnterminated(s) ==
  /\ Cardinality({i \in 1..Len(s) : s[i] = 39}) % 2 = 1
  /\ \A i \in 1..Len(s) : s[i] \in SqlPlain

(* _con.execute(...).fetchone(): a symbol that is one literal is looked up *)
(* in the table, a text that ends inside a literal is a syntax error, and  *)
(* what any other text selects is up to the database                       *)
fetchone(symbol) ==
  IF SqlClosed(symbol)
    THEN (IF SqlText(symbol) \in StockTickers THEN "row" ELSE "none")
  ELSE IF SqlUnterminated(symbol) THEN "error"
  ELSE injected[symbol]

(* the execute of is_mutual_fund raises *)
is_mutual_fund_raises(symbol) == fetchone(symbol) = "error"

is_mutual_fund(symbol) == fetchone(symbol) = "none"

CASH == <<67, 65, 83, 72>> (* CASH *)

(* a key the dict of the row does not have *)
KeyAbsent == <<-7>>

(* row[key] raises KeyError for one of the keys *)
Lacks(row, keys) == \E key \in keys : row[key] = KeyAbsent

(* a field the block does not have *)
NA == <<-5>>

NoInfo == [tag |-> <<>>, uniqueid |-> None, idtype |-> "", secname |-> None]

(* the SecurityInfo None *)
NoSecurityInfo == [uniqueid |-> None, info_entry |-> NoInfo]

NoTxn ==
  [block |-> "", fitid |-> NA, uniqueid |-> NA, idtype |-> "", units |-> NA,
   unitprice |-> NA, total |-> NA, trntype |-> "", trnamt |-> NA,
   incometype |-> "", tferaction |-> ""]

(* what a generator hands back: the exception it raised (or ""), the       *)
(* fragment, the SecurityInfo, the symbols it asked is_mutual_fund about,  *)
(* in call order, and the texts it printed                                 *)
Raise(e, looked) ==
  [error |-> e, txn |-> NoTxn, sec |-> NoSecurityInfo, lookups |-> looked,
   printed |-> <<>>]

Return(t, si, looked) ==
  [error |-> "", txn |-> t, sec |-> si, lookups |-> looked, printed |-> <<>>]

(* the result r of the statements that follow a print of the text *)
Printing(text, r) == [r EXCEPT !.printed = <<text>> \o r.printed]

(* ---------------------------------------------------------------------- *)
(* Security resolution                                                    *)
(* ---------------------------------------------------------------------- *)
(* one turn of the for loop over the mappings: c is the pattern of the     *)
(* mapping i compiled, found the match of re.search; an exception of       *)
(* re.search leaves the loop                                               *)
RECURSIVE FindMapping(_, _)
FindFound(description, i, found) ==
  IF ReFoundWrong(found) THEN [error |-> "SystemError", k |-> 0]
  ELSE IF found # <<>> THEN [error |-> "", k |-> i]
  ELSE FindMapping(description, i + 1)

FindNext(c, description, i) ==
  IF c.err # "" THEN [error |-> c.err, k |-> 0]
  ELSE FindFound(description, i, ReFinds(c, description, 0))

(* the for loop over the mappings from index i: the first index k whose    *)
(* regex matches, 0 when the loop reaches its else                         *)
FindAt(mapping, description, i) ==
  IF mapping.type # "object" THEN [error |-> "TypeError", k |-> 0]
  ELSE IF mapping.description_regex = KeyAbsent THEN [error |-> "KeyError", k |-> 0]
  ELSE IF ~IsText(mapping.description_regex) THEN [error |-> "TypeError", k |-> 0]
  ELSE FindNext(ReCompile(mapping.description_regex), description, i)

FindMapping(description, i) ==
  IF i > Len(missing_cusip_mappings) THEN [error |-> "", k |-> 0]
  ELSE FindAt(missing_cusip_mappings[i], description, i)

(* "for mapping in _missing_cusip_mappings": a number is not iterable *)
FindRule(description) ==
  IF rules_type \in {"number", "bool"} THEN [error |-> "TypeError", k |-> 0]
  ELSE FindMapping(description, 1)

(* lines 272-281 on a row without Description: the subscript of the first  *)
(* mapping comes before row["Description"], which the else of the loop     *)
(* reads as well                                                           *)
NoDescription ==
  IF rules_type = "null" THEN "RuntimeError"
  ELSE IF rules_type \in {"number", "bool"} THEN "TypeError"
  ELSE IF missing_cusip_mappings # <<>> /\ missing_cusip_mappings[1].type # "object"
    THEN "TypeError"
  ELSE "KeyError"

(* the body of generate_buysell_secid on cusip and the outcome m of the    *)
(* loop over the mappings                                                  *)
SecidOf(cusip, m) ==
  IF rules_type = "null" THEN [error |-> "RuntimeError", uniqueid |-> NA, idtype |-> ""]
  ELSE IF cusip # <<>>
    THEN [error |-> "", uniqueid |-> cusip, idtype |-> "CUSIP"]
  ELSE IF m.error # "" THEN [error |-> m.error, uniqueid |-> NA, idtype |-> ""]
  ELSE IF m.k = 0
    THEN [error |-> "UnresolvedSecurityError", uniqueid |-> NA, idtype |-> ""]
  ELSE IF missing_cusip_mappings[m.k].uniqueid = KeyAbsent
    THEN [error |-> "KeyError", uniqueid |-> NA, idtype |-> ""]
  ELSE [error |-> "", uniqueid |-> Str(missing_cusip_mappings[m.k].uniqueid),
        idtype |-> "OTHER"]

generate_buysell_secid(row) ==
  IF rules_type = "null" THEN [error |-> "RuntimeError", uniqueid |-> NA, idtype |-> ""]
  ELSE IF row.CUSIP = KeyAbsent
     \/ (Strip(row.CUSIP) = <<>> /\ row.Description = KeyAbsent)
    THEN [error |-> "KeyError", uniqueid |-> NA, idtype |-> ""]
  ELSE SecidOf(Strip(row.CUSIP), FindRule(Strip(row.Description)))

(* line 255: "if not symbol: symbol = cusip" *)
SymbolOr(symbol, cusip) == IF symbol = <<>> THEN cusip ELSE symbol

(* the body of generate_buysell_security_info on its locals and the        *)
(* outcome m of its loop over the mappings                                 *)
SecurityInfoOf(cusip, symbol, m) ==
  IF cusip # <<>>
    THEN IF is_mutual_fund_raises(symbol) THEN Raise("DatabaseError", <<symbol>>)
         ELSE IF SecidOf(cusip, m).error # ""
           THEN Raise(SecidOf(cusip, m).error, <<symbol>>)
         ELSE Return(NoTxn,
                     [uniqueid   |-> cusip,
                      info_entry |->
                        [tag      |-> IF is_mutual_fund(symbol) THEN <<77, 70, 73, 78, 70, 79>> (* MFINFO *)
                                      ELSE <<83, 84, 79, 67, 75, 73, 78, 70, 79>> (* STOCKINFO *),
                         uniqueid |-> SecidOf(cusip, m).uniqueid,
                         idtype   |-> SecidOf(cusip, m).idtype,
                         secname  |-> symbol]],
                     <<symbol>>)
  ELSE IF rules_type = "null" THEN Raise("RuntimeError", <<>>)
  ELSE IF m.error # "" THEN Raise(m.error, <<>>)
  ELSE IF m.k = 0 THEN Raise("UnresolvedSecurityError", <<>>)
  ELSE IF missing_cusip_mappings[m.k].info_tag = KeyAbsent THEN Raise("KeyError", <<>>)
  ELSE IF SecidOf(cusip, m).error # "" THEN Raise(SecidOf(cusip, m).error, <<>>)
  ELSE IF missing_cusip_mappings[m.k].symbol = KeyAbsent THEN Raise("KeyError", <<>>)
  ELSE Return(NoTxn,
              [uniqueid   |-> missing_cusip_mappings[m.k].symbol,
               info_entry |->
                 [tag      |-> Str(missing_cusip_mappings[m.k].info_tag),
                  uniqueid |-> SecidOf(cusip, m).uniqueid,
                  idtype   |-> SecidOf(cusip, m).idtype,
                  secname  |-> Str(missing_cusip_mappings[m.k].symbol)]],
              <<>>)

generate_buysell_security_info(row) ==
  IF Lacks(row, {"Symbol", "CUSIP"}) THEN Raise("KeyError", <<>>)
  ELSE IF Strip(row.CUSIP) = <<>> /\ row.Description = KeyAbsent
    THEN Raise(NoDescription, <<>>)
  ELSE SecurityInfoOf(Strip(row.CUSIP),
                      SymbolOr(Strip(row.Symbol), Strip(row.CUSIP)),
                      FindRule(Strip(row.Description)))

(* ---------------------------------------------------------------------- *)
(* Generators                                                             *)
(* ---------------------------------------------------------------------- *)
(* lines 321-324 *)
Outer(sell, symbol) ==
  IF sell THEN (IF is_mutual_fund(symbol) THEN "SELLMF" ELSE "SELLSTOCK")
  ELSE (IF is_mutual_fund(symbol) THEN "BUYMF" ELSE "BUYSTOCK")

(* lines 321-348, on the price and the amount of lines 301-319 *)
buysell_block(row, sell, fitid, quantity, price, amount, secid, info) ==
  IF row.Symbol = KeyAbsent THEN Raise("KeyError", <<>>)
  ELSE IF is_mutual_fund_raises(Strip(row.Symbol))
    THEN Raise("DatabaseError", <<Strip(row.Symbol)>>)
  ELSE IF secid.error # "" THEN Raise(secid.error, <<Strip(row.Symbol)>>)
  ELSE IF info.error # ""
    THEN Raise(info.error, <<Strip(row.Symbol)>> \o info.lookups)
  ELSE Return([NoTxn EXCEPT
                 !.block     = Outer(sell, Strip(row.Symbol)),
                 !.fitid     = fitid,
                 !.uniqueid  = secid.uniqueid,
                 !.idtype    = secid.idtype,
                 !.units     = quantity,
                 !.unitprice = price,
                 !.total     = Str(amount)],
              info.sec, <<Strip(row.Symbol)>> \o info.lookups)

(* the text of lines 307-308 *)
PriceWarning(row, price, calculated_price, description, fitid) ==
  <<87, 65, 82, 78, 73, 78, 71, 58, 32, 71, 105, 118, 101, 110, 32, 112, 114, 105, 99, 101, 32>> \o price \o <<32, 100, 105, 102, 102, 101, 114, 115, 32, 102, 114, 111, 109, 32, 99, 97, 108, 99, 117, 108, 97, 116, 101, 100, 32, 112, 114, 105, 99, 101, 32>>
    \o calculated_price \o <<32, 102, 111, 114, 32>>
    \o (IF row.Symbol = KeyAbsent THEN <<>> ELSE row.Symbol)
    \o <<32, 45, 32>> \o description \o <<32, 40, 70, 73, 84, 73, 68, 58, 32>> \o fitid \o <<41>>

(* lines 306-308 and what follows them, on the text of the warning *)
buysell_warned(row, sell, fitid, quantity, calculated_price, amount, secid, info, text) ==
  IF print(text) # "" THEN Raise(print(text), <<>>)
  ELSE Printing(text, buysell_block(row, sell, fitid, quantity, calculated_price,
                                    amount, secid, info))

(* lines 305-309 and what follows them: the computed price wins *)
buysell_computed(row, sell, fitid, quantity, price, amount, calculated_price, secid, info) ==
  IF PriceDiffers(price, calculated_price)
    THEN buysell_warned(row, sell, fitid, quantity, calculated_price, amount,
                        secid, info,
                        PriceWarning(row, price, calculated_price,
                                     Strip(row.Description), fitid))
  ELSE buysell_block(row, sell, fitid, quantity, calculated_price, amount,
                     secid, info)

(* lines 301-348, on the locals of lines 294-299 *)
buysell_body(row, sell, fitid, quantity, price, amount, secid, info) ==
  IF (quantity = <<>> \/ amount = None)
     /\ (quantity = <<>> \/ price = None \/ Truthy(amount))
    THEN Raise("IncompleteTransactionError", <<>>)
  \* the price is computed from the amount, or else the amount from the price
  ELSE IF amount # None
    THEN buysell_computed(row, sell, fitid, quantity, price, amount,
                          compute_price(quantity, amount), secid, info)
  ELSE buysell_block(row, sell, fitid, quantity, price,
                     AmountText(float(quantity), float(price)), secid, info)

(* lines 298-299 *)
AmountOrDefault(amount, amount_default) ==
  IF amount = None THEN amount_default ELSE amount

generate_buysell_transaction(row, sell, fitid, date_str, amount_default) ==
  IF Lacks(row, {"Activity", "Description", "CUSIP", "Quantity", "Price", "Amount"})
    THEN Raise("KeyError", <<>>)
  ELSE
  buysell_body(row, sell, fitid,
               normalize_quantity(row.Quantity),
               normalize_currency(row.Price, False),
               AmountOrDefault(normalize_currency(row.Amount, False), amount_default),
               generate_buysell_secid(row),
               generate_buysell_security_info(row))

generate_fee_transaction(row, fitid, date_str, inverseAmount) ==
  IF Lacks(row, {"Amount", "Activity", "Description"}) THEN Raise("KeyError", <<>>)
  ELSE
  Return([NoTxn EXCEPT !.block   = "INVBANKTRAN",
                       !.fitid   = fitid,
                       !.trntype = "FEE",
                       !.trnamt  = Str(normalize_currency(row.Amount, inverseAmount))],
         NoSecurityInfo, <<>>)

(* the body of generate_income_transaction on its locals *)
income_body(fitid, incometype, amount, cusip, info) ==
  IF cusip = <<>> THEN Raise("MissingIdentifierError", <<>>)
  ELSE IF info.error # "" THEN Raise(info.error, info.lookups)
  ELSE Return([NoTxn EXCEPT !.block      = "INCOME",
                            !.fitid      = fitid,
                            !.uniqueid   = cusip,
                            !.idtype     = "CUSIP",
                            !.incometype = incometype,
                            !.total      = Str(amount)],
              info.sec, info.lookups)

generate_income_transaction(row, fitid, date_str, incometype) ==
  IF Lacks(row, {"Activity", "Description", "Amount", "CUSIP"})
    THEN Raise("KeyError", <<>>)
  ELSE
  income_body(fitid, incometype, normalize_currency(row.Amount, False),
              Strip(row.CUSIP), generate_buysell_security_info(row))

generate_intrest_transaction(row, fitid, date_str) ==
  IF Lacks(row, {"Amount", "Activity", "Description"}) THEN Raise("KeyError", <<>>)
  ELSE
  Return([NoTxn EXCEPT
            !.block   = "INVBANKTRAN",
            !.fitid   = fitid,
            !.trntype = "INT",
            !.trnamt  = Str(normalize_currency(row.Amount,
                                               normalize_currency(row.Amount, False)))],
         NoSecurityInfo, <<>>)

(* the constant SecurityInfo of a cash transfer *)
CashSecurityInfo ==
  [uniqueid   |-> CASH,
   info_entry |-> [tag |-> <<79, 84, 72, 69, 82, 73, 78, 70, 79>> (* OTHERINFO *), uniqueid |-> CASH, idtype |-> "CUSIP",
                   secname |-> <<67, 97, 115, 104, 32, 66, 97, 108, 97, 110, 99, 101>> (* Cash Balance *)]]

(* the body of generate_asset_transfer on its locals *)
transfer_body(fitid, cusip, quantity, amount, info) ==
  IF cusip = <<>>
    THEN IF amount = None
           THEN Raise("AttributeError", <<>>)   \* None.startswith
         ELSE Return([NoTxn EXCEPT !.block      = "TRANSFER",
                                   !.fitid      = fitid,
                                   !.uniqueid   = CASH,
                                   !.idtype     = "CUSIP",
                                   !.units      = Str(amount),
                                   !.tferaction =
                                      IF StartsWith(amount, <<45>>)
                                        THEN "OUT" ELSE "IN"],
                     CashSecurityInfo, <<>>)
  ELSE IF info.error # "" THEN Raise(info.error, info.lookups)
  ELSE Return([NoTxn EXCEPT !.block      = "TRANSFER",
                            !.fitid      = fitid,
                            !.uniqueid   = cusip,
                            !.idtype     = "CUSIP",
                            !.units      = quantity,
                            !.tferaction = "IN"],
              info.sec, info.lookups)

generate_asset_transfer(row, fitid, date_str) ==
  IF Lacks(row, {"Date", "Activity", "Description", "CUSIP", "Quantity", "Amount"})
    THEN Raise("KeyError", <<>>)
  ELSE
  transfer_body(fitid, Strip(row.CUSIP), normalize_quantity(row.Quantity),
                normalize_currency(row.Amount, False),
                generate_buysell_security_info(row))

(* ---------------------------------------------------------------------- *)
(* Dispatch                                                               *)
(* ---------------------------------------------------------------------- *)
(* the activity literals of generate_transaction *)
A_buy == <<98, 117, 121>> (* buy *)

A_reinvest_dividend == <<114, 101, 105, 110, 118, 101, 115, 116, 32, 100, 105, 118, 105, 100, 101, 110, 100>> (* reinvest dividend *)

A_rein_stc_gain == <<114, 101, 105, 110, 32, 115, 116, 99, 32, 103, 97, 105, 110>> (* rein stc gain *)

A_rein_cap_gain == <<114, 101, 105, 110, 32, 99, 97, 112, 32, 103, 97, 105, 110>> (* rein cap gain *)

A_sell == <<115, 101, 108, 108>> (* sell *)

A_asset_trf == <<97, 115, 115, 101, 116, 32, 116, 114, 102>> (* asset trf *)

A_ach_activity == <<97, 99, 104, 32, 97, 99, 116, 105, 118, 105, 116, 121>> (* ach activity *)

A_dividend == <<100, 105, 118, 105, 100, 101, 110, 100>> (* dividend *)

A_interest == <<105, 110, 116, 101, 114, 101, 115, 116>> (* interest *)

A_lt_cap_gain == <<108, 116, 32, 99, 97, 112, 32, 103, 97, 105, 110>> (* lt cap gain *)

A_shrt_trm_gain == <<115, 104, 114, 116, 32, 116, 114, 109, 32, 103, 97, 105, 110>> (* shrt trm gain *)

A_advisory_fee == <<97, 100, 118, 105, 115, 111, 114, 121, 32, 102, 101, 101>> (* advisory fee *)

A_journal == <<106, 111, 117, 114, 110, 97, 108>> (* journal *)

A_reinvest_dist == <<114, 101, 105, 110, 118, 101, 115, 116, 32, 100, 105, 115, 116>> (* reinvest dist *)

(* the set literal of line 568 *)
BuyActivities == {A_buy, A_reinvest_dividend, A_rein_stc_gain, A_rein_cap_gain}

(* line 196 on the normalized amount: float(None) is a TypeError, float()  *)
(* of text that is no number a ValueError, and the Quantity is read after  *)
(* the amount                                                              *)
FundingAmounts(row, amount) ==
  IF amount = None THEN [error |-> "TypeError", value |-> FALSE]
  ELSE IF row.Quantity = KeyAbsent THEN [error |-> "KeyError", value |-> FALSE]
  ELSE IF float(row.Quantity) = NaF THEN [error |-> "ValueError", value |-> FALSE]
  ELSE [error |-> "", value |-> FloatEq(float(amount), FloatNeg(float(row.Quantity)))]

(* is_funding_activity: the conjunction short-circuits, so each key is     *)
(* read only when the conditions before it hold, and line 196 runs only    *)
(* for a buy row whose description ends with "initial" and whose CUSIP and *)
(* Symbol are empty                                                        *)
is_funding_activity(row) ==
  IF row.Activity = KeyAbsent THEN [error |-> "KeyError", value |-> FALSE]
  ELSE IF Lower(Strip(row.Activity)) # A_buy THEN [error |-> "", value |-> FALSE]
  ELSE IF row.Description = KeyAbsent THEN [error |-> "KeyError", value |-> FALSE]
  ELSE IF ~EndsWith(Lower(Strip(row.Description)), <<105, 110, 105, 116, 105, 97, 108>> (* initial *))
    THEN [error |-> "", value |-> FALSE]
  ELSE IF row.CUSIP = KeyAbsent THEN [error |-> "KeyError", value |-> FALSE]
  ELSE IF Strip(row.CUSIP) # <<>> THEN [error |-> "", value |-> FALSE]
  ELSE IF row.Symbol = KeyAbsent THEN [error |-> "KeyError", value |-> FALSE]
  ELSE IF Strip(row.Symbol) # <<>> THEN [error |-> "", value |-> FALSE]
  ELSE IF row.Amount = KeyAbsent THEN [error |-> "KeyError", value |-> FALSE]
  ELSE FundingAmounts(row, normalize_currency(row.Amount, False))

(* _make_txn_entry, with the generator call that produced the data *)
make_txn_entry(gen, r, is_invbanktran) ==
  [error      |-> r.error,
   gen        |-> gen,
   txn_entry  |-> [txn_str |-> r.txn, is_invbanktran |-> is_invbanktran],
   secid_info |-> r.sec,
   lookups    |-> r.lookups,
   printed    |-> r.printed]

(* lines 566-589, on the locals of lines 561-564 and the funding check *)
dispatch(row, fitid, date_str, act_lower, funding) ==
  IF funding.error # ""
    THEN make_txn_entry("", Raise(funding.error, <<>>), FALSE)
  ELSE IF funding.value
    THEN make_txn_entry("Transfer",
           generate_asset_transfer(row, fitid, date_str), FALSE)
  ELSE IF act_lower \in BuyActivities
    THEN make_txn_entry("Buy",
           generate_buysell_transaction(row, FALSE, fitid, date_str, None),
           FALSE)
  ELSE IF act_lower = A_sell
    THEN make_txn_entry("Sell",
           generate_buysell_transaction(row, TRUE, fitid, date_str, None),
           FALSE)
  ELSE IF act_lower \in {A_asset_trf, A_ach_activity}
    THEN make_txn_entry("Transfer",
           generate_asset_transfer(row, fitid, date_str), FALSE)
  ELSE IF act_lower = A_dividend
    THEN make_txn_entry("Income:DIV",
           generate_income_transaction(row, fitid, date_str, "DIV"), FALSE)
  ELSE IF act_lower = A_interest
    THEN make_txn_entry("Interest",
           generate_intrest_transaction(row, fitid, date_str), TRUE)
  ELSE IF act_lower = A_lt_cap_gain
    THEN make_txn_entry("Income:CGLONG",
           generate_income_transaction(row, fitid, date_str, "CGLONG"), FALSE)
  ELSE IF act_lower = A_shrt_trm_gain
    THEN make_txn_entry("Income:CGSHORT",
           generate_income_transaction(row, fitid, date_str, "CGSHORT"), FALSE)
  ELSE IF act_lower = A_advisory_fee
    THEN make_txn_entry("Fee",
           generate_fee_transaction(row, fitid, date_str, False), TRUE)
  ELSE IF act_lower = A_journal
    THEN make_txn_entry("Fee",
           generate_fee_transaction(row, fitid, date_str, False), TRUE)
  ELSE IF act_lower = A_reinvest_dist
    THEN make_txn_entry("Buy:0.0",
           generate_buysell_transaction(row, FALSE, fitid, date_str, FloatZero),
           FALSE)
  ELSE make_txn_entry("", Raise("UnknownActivityError", <<>>), FALSE)

(* line 562 *)
DateStr(dt_obj) ==
  IF dt_obj # NoDate THEN strftime_Ymd(dt_obj)
  ELSE <<48, 48, 48, 48, 48, 48, 48, 48>> (* 00000000 *)

(* an id that leaves the counter out *)
FitId_DateOnly(date_str, n) ==
  <<84, 88, 78>> (* TXN *) \o date_str \o <<48, 48, 48, 49>> (* 0001 *)

(* line 563 *)
FitId(date_str, counter) ==
  <<84, 88, 78>> (* TXN *) \o date_str \o ZeroPad(IntToStr(counter), 4)

(* lines 566-589 on the locals of lines 562-564 *)
dispatch_on(row, date_str, counter, act_lower) ==
  dispatch(row, FitId(date_str, counter), date_str, act_lower,
           is_funding_activity(row))

generate_transaction(row, counter) ==
  IF row.Date = KeyAbsent \/ row.Activity = KeyAbsent
    THEN make_txn_entry("", Raise("KeyError", <<>>), FALSE)
  ELSE dispatch_on(row, DateStr(parse_date(row.Date)), counter,
                   Lower(Strip(row.Activity)))

(* ---------------------------------------------------------------------- *)
(* Input rows                                                             *)
(* ---------------------------------------------------------------------- *)
MaxRows == 3

D_jan   == <<49, 47, 53, 47, 50, 48, 50, 51>> (* 1/5/2023 *)
D_mar   == <<50, 48, 50, 51, 45, 48, 51, 45, 50, 48>> (* 2023-03-20 *)
D_bad   == <<49, 51, 47, 49, 47, 50, 48, 50, 51>> (* 13/1/2023 *)
ACCT1   == <<65, 67, 67, 84, 49>> (* ACCT1 *)
ACCT2   == <<65, 67, 67, 84, 50>> (* ACCT2 *)
C1      == <<67, 49>> (* C1 *)
U1      == <<85, 49>> (* U1 *)
ST      == <<83, 84>> (* ST *)
MF      == <<77, 70>> (* MF *)

Row(date, account, activity, description, cusip, symbol, quantity, price, amount) ==
  [Date |-> date, Account |-> account, Activity |-> activity,
   Description |-> description, CUSIP |-> cusip, Symbol |-> symbol,
   Quantity |-> quantity, Price |-> price, Amount |-> amount]

Activities ==
  {A_buy, A_reinvest_dividend, A_rein_stc_gain, A_rein_cap_gain, A_sell,
   A_asset_trf, A_ach_activity, A_dividend, A_interest, A_lt_cap_gain,
   A_shrt_trm_gain, A_advisory_fee, A_journal, A_reinvest_dist,
   <<32, 66, 117, 121, 32>>, <<83, 69, 76, 76>> (* SELL *),
   <<114, 101, 98, 97, 108, 97, 110, 99, 101>> (* rebalance *), <<>>}

Descriptions ==
  {<<88>>, <<88, 77>> (* XM *), <<120, 32, 73, 110, 105, 116, 105, 97, 108>> (* x Initial *),
   <<77, 77, 32, 105, 110, 105, 116, 105, 97, 108>> (* MM initial *)}

Cusips == {<<>>, C1}

Symbols == {<<>>, ST, MF}

Quantities == {<<>>, <<53>>, <<45, 53>> (* -5 *), <<49, 44, 48, 48, 48>> (* 1,000 *), <<97, 98, 99>> (* abc *)}

Prices == {<<>>, <<50, 46, 48, 48>> (* 2.00 *), <<36, 51>> (* $3 *)}

Amounts == {<<>>, <<45, 53, 46, 48, 48>> (* -5.00 *), <<49, 48, 46, 48, 48>> (* 10.00 *), <<40, 53, 41>> (* (5) *)}

(* rows with a blank inside the date, white space other than blanks, one   *)
(* or two quotes in the Symbol, a product that falls between two cents,    *)
(* and an amount with an exponent                                          *)
EdgeRows ==
  {Row(<<49, 47, 32, 53, 47, 50, 48, 50, 51>> (* 1/ 5/2023 *), ACCT1, a, <<88>>, c, s, q, p, m) :
     a \in {A_buy, A_sell, A_dividend, A_asset_trf},
     c \in {<<>>, C1, <<10>>},
     s \in {<<>>, <<83, 39, 84>> (* S'T *), <<83, 39, 61, 39>> (* S'=' *), <<83, 84, 10>>},
     q \in {<<53>>, <<49, 46, 53>> (* 1.5 *)},
     p \in {<<>>, <<48, 46, 48, 49>> (* 0.01 *)},
     m \in {<<>>, <<49, 101, 50>> (* 1e2 *)}}

(* the rows of files of at most one row: every combination of the fields the generators read *)
WideRows ==
  {Row(D_jan, ACCT1, a, d, c, s, q, p, m) :
     a \in Activities, d \in Descriptions, c \in Cusips, s \in Symbols,
     q \in Quantities, p \in Prices, m \in Amounts}
  \cup {Row(D_bad, ACCT2, A_journal, <<88>>, <<>>, <<>>, <<>>, <<>>, m) : m \in Amounts}
  \cup EdgeRows

(* rows of multi-row files *)
DocRows ==
  { Row(D_jan, ACCT1, A_buy, <<88>>, C1, ST, <<53>>, <<>>, <<45, 49, 48, 46, 48, 48>> (* -10.00 *)),
    Row(D_mar, ACCT1, A_sell, <<88>>, C1, MF, <<53>>, <<50, 46, 48, 48>> (* 2.00 *), <<>>),
    Row(D_jan, ACCT1, A_buy, <<77, 77>> (* MM *), <<>>, <<>>, <<53>>, <<>>, <<45, 49, 48, 46, 48, 48>> (* -10.00 *)),
    Row(D_mar, ACCT1, A_reinvest_dividend, <<88, 77>> (* XM *), <<>>, <<>>, <<53>>, <<>>, <<45, 49, 48, 46, 48, 48>> (* -10.00 *)),
    Row(D_mar, ACCT1, A_dividend, <<88>>, U1, <<>>, <<>>, <<>>, <<49, 48, 46, 48, 48>> (* 10.00 *)),
    Row(D_jan, ACCT1, A_advisory_fee, <<88>>, <<>>, <<>>, <<>>, <<>>, <<45, 53, 46, 48, 48>> (* -5.00 *)),
    Row(D_bad, ACCT1, A_interest, <<88>>, <<>>, <<>>, <<>>, <<>>, <<49, 48, 46, 48, 48>> (* 10.00 *)),
    Row(D_bad, ACCT1, A_asset_trf, <<88>>, <<>>, <<>>, <<>>, <<>>, <<49, 48, 46, 48, 48>> (* 10.00 *)),
    Row(D_jan, ACCT1, <<114, 101, 98, 97, 108, 97, 110, 99, 101>> (* rebalance *), <<88>>, C1, ST, <<53>>, <<>>, <<49, 48, 46, 48, 48>> (* 10.00 *)),
    Row(D_mar, ACCT2, A_journal, <<88>>, <<>>, <<>>, <<>>, <<>>, <<40, 53, 41>> (* (5) *)) }

(* rows whose Symbol turns the query into another query, or into one that *)
(* ends inside a literal                                                   *)
InjectSymbols ==
  {<<120, 39, 32, 79, 82, 32, 39, 49, 39, 61, 39, 49>> (* x' OR '1'='1 *), <<120, 39, 32, 79, 82, 32, 39, 49, 39, 61, 39, 50>> (* x' OR '1'='2 *), <<39, 59>> (* '; *)}

InjectRows ==
  {Row(D_jan, ACCT1, a, <<88>>, c, s, <<53>>, <<>>, <<45, 49, 48, 46, 48, 48>> (* -10.00 *)) :
     a \in {A_buy, A_sell}, c \in {C1, <<67, 50>> (* C2 *)}, s \in InjectSymbols}

(* the header row of the export *)
Header ==
  <<<<68, 97, 116, 101>> (* Date *), <<65, 99, 99, 111, 117, 110, 116>> (* Account *), <<65, 99, 116, 105, 118, 105, 116, 121>> (* Activity *), <<68, 101, 115, 99, 114, 105, 112, 116, 105, 111, 110>> (* Description *), <<67, 85, 83, 73, 80>> (* CUSIP *), <<83, 121, 109, 98, 111, 108>> (* Symbol *),
    <<81, 117, 97, 110, 116, 105, 116, 121>> (* Quantity *), <<80, 114, 105, 99, 101>> (* Price *), <<65, 109, 111, 117, 110, 116>> (* Amount *)>>

(* the cells of a row under that header *)
Cells(row) ==
  <<row.Date, row.Account, row.Activity, row.Description, row.CUSIP, row.Symbol,
    row.Quantity, row.Price, row.Amount>>

(* the export with that header and the data rows lines *)
CsvOf(lines) ==
  [opens |-> "", ends |-> "",
   rows  |-> <<Header>> \o [i \in 1..Len(lines) |-> Cells(lines[i])]]

(* a file of the rows *)
CsvRows(rows) == [opens |-> "", ends |-> "", rows |-> rows]

(* account_mapping.json *)
Sections == {"account_id_mapping", "missing_cusip_mapping"}

(* an object of the two sections, the first an object and the second the   *)
(* array of the rules                                                      *)
MappingOf(rules) ==
  [isfile |-> TRUE, opens |-> "", loads |-> "", type |-> "object",
   sections |-> Sections,
   kinds |-> [account_id_mapping |-> "object", missing_cusip_mapping |-> "array"],
   account_id_mapping |-> [n \in {ACCT1} |-> <<73, 68, 49>> (* ID1 *)],
   missing_cusip_mapping |-> rules]

(* a rule that is an object of the four keys *)
Rule(description_regex, uniqueid, symbol, info_tag) ==
  [type |-> "object", description_regex |-> description_regex,
   uniqueid |-> uniqueid, symbol |-> symbol, info_tag |-> info_tag]

(* an element of the array that is no object *)
NoRule == [type |-> "other", description_regex |-> KeyAbsent,
           uniqueid |-> KeyAbsent, symbol |-> KeyAbsent, info_tag |-> KeyAbsent]

DefaultMapping ==
  MappingOf(<< Rule(<<77, 77>> (* MM *), <<85, 49>> (* U1 *), <<83, 65>> (* SA *), <<77, 70, 73, 78, 70, 79>> (* MFINFO *)),
               Rule(<<77>>, <<85, 50>> (* U2 *), <<83, 65>> (* SA *), <<83, 84, 79, 67, 75, 73, 78, 70, 79>> (* STOCKINFO *)) >>)

(* rules with a regex of more than literals, and a regex re refuses *)
RegexMapping ==
  MappingOf(<< Rule(<<40, 63, 105, 41, 94, 109, 123, 50, 125, 92, 98>> (* (?i)^m{2}\b *), <<85, 49>> (* U1 *), <<83, 65>> (* SA *), <<77, 70, 73, 78, 70, 79>> (* MFINFO *)),
               Rule(<<92, 119, 43, 32, 105, 110, 105, 116, 105, 97, 108, 36>> (* \w+ initial$ *), <<85, 51>> (* U3 *), <<83, 66>> (* SB *), <<83, 84, 79, 67, 75, 73, 78, 70, 79>> (* STOCKINFO *)),
               Rule(<<97, 123, 51, 44, 50, 125>> (* a{3,2} *), <<85, 50>> (* U2 *), <<83, 65>> (* SA *), <<83, 84, 79, 67, 75, 73, 78, 70, 79>> (* STOCKINFO *)) >>)

(* a rule, and an account id, with a lone surrogate, which JSON writes as  *)
(* \ud800                                                                  *)
SurrogateRule ==
  MappingOf(<< Rule(<<77>>, <<85, 49>> (* U1 *), <<83, 55296>>, <<77, 70, 73, 78, 70, 79>> (* MFINFO *)) >>)

(* sections of another type than the object of the accounts and the array  *)
(* of the rules                                                            *)
TypedSection(account_kind, account, rules_kind, rules) ==
  [DefaultMapping EXCEPT
     !.kinds = [account_id_mapping |-> account_kind,
                missing_cusip_mapping |-> rules_kind],
     !.account_id_mapping = account, !.missing_cusip_mapping = rules]

DefaultAccounts == [n \in {ACCT1} |-> <<73, 68, 49>> (* ID1 *)]

NoAccounts == [n \in {} |-> None]

DefaultRules == DefaultMapping.missing_cusip_mapping

(* an account id that is a number, accounts that are an array, a string,   *)
(* a number and null; rules that are null, a number, a string and an       *)
(* object; and rules that are no object, lack a key, hold a pattern that   *)
(* is no string, values that are no strings, and a symbol that cannot be   *)
(* hashed                                                                  *)
TypedMappings ==
  {TypedSection("object", [n \in {ACCT1} |-> JsonInt(<<49, 50>> (* 12 *))], "array", DefaultRules),
   TypedSection("array", [n \in {ACCT1} |-> None], "array", DefaultRules),
   TypedSection("array", NoAccounts, "array", DefaultRules),
   TypedSection("string", [n \in {<<120, 65, 67, 67, 84, 49, 120>> (* xACCT1x *)} |-> None], "array", DefaultRules),
   TypedSection("string", [n \in {<<65, 67, 67, 84>> (* ACCT *)} |-> None], "array", DefaultRules),
   TypedSection("number", NoAccounts, "array", DefaultRules),
   TypedSection("null", NoAccounts, "array", DefaultRules),
   TypedSection("object", DefaultAccounts, "null", <<>>),
   TypedSection("object", DefaultAccounts, "number", <<>>),
   TypedSection("object", DefaultAccounts, "string", <<NoRule>>),
   TypedSection("object", DefaultAccounts, "string", <<>>),
   TypedSection("object", DefaultAccounts, "object", <<NoRule, NoRule>>),
   TypedSection("object", DefaultAccounts, "array", <<NoRule>>),
   TypedSection("object", DefaultAccounts, "array",
                <<Rule(KeyAbsent, <<85, 49>> (* U1 *), <<83, 65>> (* SA *), <<77, 70, 73, 78, 70, 79>> (* MFINFO *))>>),
   TypedSection("object", DefaultAccounts, "array",
                <<Rule(JsonInt(<<49>>), <<85, 49>> (* U1 *), <<83, 65>> (* SA *), <<77, 70, 73, 78, 70, 79>> (* MFINFO *))>>),
   TypedSection("object", DefaultAccounts, "array",
                <<Rule(<<77>>, KeyAbsent, <<83, 65>> (* SA *), <<77, 70, 73, 78, 70, 79>> (* MFINFO *))>>),
   TypedSection("object", DefaultAccounts, "array",
                <<Rule(<<77>>, <<85, 49>> (* U1 *), KeyAbsent, <<77, 70, 73, 78, 70, 79>> (* MFINFO *))>>),
   TypedSection("object", DefaultAccounts, "array",
                <<Rule(<<77>>, <<85, 49>> (* U1 *), <<83, 65>> (* SA *), KeyAbsent)>>),
   TypedSection("object", DefaultAccounts, "array",
                <<Rule(<<77>>, JsonInt(<<55>>), True, None)>>),
   TypedSection("object", DefaultAccounts, "array",
                <<Rule(<<77, 77>> (* MM *), <<85, 49>> (* U1 *), True, <<77, 70, 73, 78, 70, 79>> (* MFINFO *)),
                  Rule(<<77>>, <<85, 50>> (* U2 *), JsonInt(<<49>>), <<83, 84, 79, 67, 75, 73, 78, 70, 79>> (* STOCKINFO *))>>)}

SurrogateAccount ==
  [DefaultMapping EXCEPT !.account_id_mapping = [n \in {ACCT1} |-> <<73, 68, 56320>>]]

(* a JSON value that is no object: the section names "in" finds in it *)
NoObject(type, found) ==
  [DefaultMapping EXCEPT !.type = type, !.sections = found,
                         !.account_id_mapping = <<>>, !.missing_cusip_mapping = <<>>]

(* no file or a directory; a file open refuses; bytes that are no UTF-8,   *)
(* no JSON, an integer of more digits than int takes, or nested deeper     *)
(* than the decoder goes; JSON values that are no object; and objects that *)
(* lack a section                                                          *)
BrokenMappings ==
  {[DefaultMapping EXCEPT !.isfile = FALSE],
   [DefaultMapping EXCEPT !.opens = "PermissionError"],
   [DefaultMapping EXCEPT !.loads = "UnicodeDecodeError"],
   [DefaultMapping EXCEPT !.loads = "JSONDecodeError"],
   [DefaultMapping EXCEPT !.loads = "ValueError"],
   [DefaultMapping EXCEPT !.loads = "RecursionError"],
   NoObject("number", {}), NoObject("bool", {}), NoObject("null", {}),
   NoObject("array", {}), NoObject("array", {"account_id_mapping"}),
   NoObject("string", {}), NoObject("string", Sections),
   [DefaultMapping EXCEPT !.sections = {"missing_cusip_mapping"},
                          !.account_id_mapping = <<>>],
   [DefaultMapping EXCEPT !.sections = {"account_id_mapping"},
                          !.missing_cusip_mapping = <<>>],
   [DefaultMapping EXCEPT !.sections = {},
                          !.account_id_mapping = <<>>,
                          !.missing_cusip_mapping = <<>>]}

R_buy == Row(D_jan, ACCT1, A_buy, <<88>>, C1, ST, <<53>>, <<>>, <<45, 49, 48, 46, 48, 48>> (* -10.00 *))

(* a buy by CUSIP, and one whose description the rules name *)
TypedRows == {R_buy, Row(D_jan, ACCT1, A_buy, <<77, 77>> (* MM *), <<>>, <<>>, <<53>>, <<>>, <<45, 49, 48, 46, 48, 48>> (* -10.00 *))}

R_fee == Row(D_mar, ACCT1, A_advisory_fee, <<88>>, <<>>, <<>>, <<>>, <<>>, <<45, 53, 46, 48, 48>> (* -5.00 *))

(* a header with blanks around the names and numbered Price and Amount     *)
(* columns                                                                 *)
NumberedHeader ==
  <<<<32, 68, 97, 116, 101>>, <<65, 99, 99, 111, 117, 110, 116, 32>>, <<65, 99, 116, 105, 118, 105, 116, 121>> (* Activity *), <<68, 101, 115, 99, 114, 105, 112, 116, 105, 111, 110>> (* Description *), <<67, 85, 83, 73, 80>> (* CUSIP *), <<83, 121, 109, 98, 111, 108>> (* Symbol *),
    <<81, 117, 97, 110, 116, 105, 116, 121>> (* Quantity *), <<80, 114, 105, 99, 101, 32, 49>> (* Price 1 *), <<65, 109, 111, 117, 110, 116, 50>> (* Amount2 *), <<65, 77, 79, 85, 78, 84, 32, 51>> (* AMOUNT 3 *), <<65, 109, 111, 117, 110, 116, 32, 32, 49, 50>> (* Amount  12 *)>>

(* exports that open refuses, that are no UTF-8 or no CSV from some row on, *)
(* that are empty, have no header row, have a row                          *)
(* that holds Date alone, have lines before the header and after the blank *)
(* row that ends the data, have a header that is numbered or lacks         *)
(* columns, or have rows shorter or longer than the header                 *)
OddCsvs ==
  {[opens |-> "FileNotFoundError", ends |-> "", rows |-> <<>>],
   [opens |-> "IsADirectoryError", ends |-> "", rows |-> <<>>],
   [opens |-> "PermissionError", ends |-> "", rows |-> <<>>],
   [opens |-> "", ends |-> "UnicodeDecodeError", rows |-> <<>>],
   [opens |-> "", ends |-> "UnicodeDecodeError", rows |-> << <<<<66, 114, 111, 107, 101, 114, 97, 103, 101, 32, 101, 120, 112, 111, 114, 116>> (* Brokerage export *)>> >>],
   [opens |-> "", ends |-> "UnicodeDecodeError", rows |-> << <<<<68, 97, 116, 101>> (* Date *)>> >>],
   [opens |-> "", ends |-> "UnicodeDecodeError", rows |-> <<Header, Cells(R_buy)>>],
   [opens |-> "", ends |-> "UnicodeDecodeError",
    rows |-> <<Header, Cells(R_buy), <<>>, Cells(R_fee)>>],
   [opens |-> "", ends |-> "Error", rows |-> <<Header, Cells(R_fee)>>],
   CsvRows(<<>>),
   CsvRows(<< <<<<66, 114, 111, 107, 101, 114, 97, 103, 101, 32, 101, 120, 112, 111, 114, 116>> (* Brokerage export *)>>, <<<<102, 111, 111>> (* foo *), <<98, 97, 114>> (* bar *)>>, Cells(R_buy) >>),
   CsvRows(<< <<<<68, 97, 116, 101>> (* Date *)>>, Cells(R_buy) >>),
   CsvRows(<< <<<<32, 68, 97, 116, 101, 32>>, <<65, 99, 99, 116>> (* Acct *)>>, Header, Cells(R_fee), <<<<32, 68, 97, 116, 101, 32>>>> >>),
   CsvRows(<< <<>>, <<<<66, 114, 111, 107, 101, 114, 97, 103, 101, 32, 101, 120, 112, 111, 114, 116>> (* Brokerage export *)>>, Header, Cells(R_buy), Cells(R_fee),
                <<<<>>, <<32>>, <<9>>>>, Cells(R_buy), <<<<84, 111, 116, 97, 108, 115>> (* Totals *)>> >>),
   CsvRows(<<Header, <<>>, Cells(R_buy)>>),
   CsvRows(<<NumberedHeader,
               Cells(R_buy) \o <<<<45, 50, 48, 46, 48, 48>> (* -20.00 *), <<45, 51, 48, 46, 48, 48>> (* -30.00 *)>>,
               Cells(R_fee) \o <<<<45, 54, 46, 48, 48>> (* -6.00 *)>> >>),
   CsvRows(<<SubSeq(Header, 1, 5) \o SubSeq(Header, 7, 9),
               SubSeq(Cells(R_fee), 1, 5) \o SubSeq(Cells(R_fee), 7, 9),
               SubSeq(Cells(R_buy), 1, 5) \o SubSeq(Cells(R_buy), 7, 9)>>),
   CsvRows(<<SubSeq(Header, 1, 2), <<D_jan, ACCT1>> >>),
   CsvRows(<<Header, <<D_jan>> >>),
   CsvRows(<<Header, Cells(R_fee), <<D_jan>> >>),
   CsvRows(<<Header, <<D_jan, ACCT1>> >>),
   CsvRows(<<Header, SubSeq(Cells(R_buy), 1, 3)>>),
   CsvRows(<<Header, SubSeq(Cells(R_buy), 1, 5)>>),
   CsvRows(<<Header, SubSeq(Cells(R_buy), 1, 8)>>),
   CsvRows(<<Header, SubSeq(Cells(R_fee), 1, 8)>>),
   CsvRows(<<Header, Cells(R_buy) \o <<<<109, 111, 114, 101>> (* more *)>>, Cells(R_fee)>>)}

(* descriptions for the rules of RegexMapping *)
RegexRows ==
  {Row(D_jan, ACCT1, a, d, c, <<>>, <<53>>, <<>>, <<45, 49, 48, 46, 48, 48>> (* -10.00 *)) :
     a \in {A_buy, A_asset_trf},
     d \in {<<77, 77>> (* MM *), <<109, 109, 32, 120>> (* mm x *), <<77, 77, 120>> (* MMx *), <<120, 49, 32, 73, 110, 105, 116, 105, 97, 108>> (* x1 Initial *),
            <<120, 49, 32, 105, 110, 105, 116, 105, 97, 108>> (* x1 initial *), <<97, 97, 97>> (* aaa *)},
     c \in {<<>>, C1}}

(* the runs on other than a plain export and the default mapping *)
OddRuns ==
  {[mapping |-> m, csv |-> CsvOf(<<R_buy>>)] : m \in BrokenMappings}
  \cup {[mapping |-> SurrogateRule, csv |-> CsvOf(<<r1, r2>>)] :
          r1, r2 \in {R_fee, Row(D_jan, ACCT1, A_buy, <<77, 77>> (* MM *), <<>>, <<>>, <<53>>, <<>>,
                                 <<45, 49, 48, 46, 48, 48>> (* -10.00 *))}}
  \cup {[mapping |-> SurrogateAccount, csv |-> CsvOf(<<R_buy, R_fee>>)]}
  \cup {[mapping |-> m, csv |-> CsvOf(<<r>>)] : m \in TypedMappings, r \in TypedRows}
  \cup {[mapping |-> DefaultMapping, csv |-> c] : c \in OddCsvs}
  \cup {[mapping |-> RegexMapping, csv |-> CsvOf(<<r>>)] : r \in RegexRows}
  \cup {[mapping |-> DefaultMapping, csv |-> CsvOf(<<r1, r2>>)] :
          r1 \in InjectRows, r2 \in InjectRows}

(* a path open takes and a device that takes the write *)
Writable == [input_csv |-> <<105, 110, 46, 99, 115, 118>> (* in.csv *), output_qfx |-> <<111, 117, 116, 46, 113, 102, 120>> (* out.qfx *), opens |-> "", writes |-> ""]

PathOf(output_qfx, opens, writes) ==
  [Writable EXCEPT !.output_qfx = output_qfx, !.opens = opens, !.writes = writes]

(* output paths in a directory that does not exist, that are a directory,  *)
(* that open refuses, on a device without room, and with a letter outside  *)
(* ASCII in the name; and command lines without the output path, with an   *)
(* empty one, and with an input of another ending                          *)
OddPaths ==
  {PathOf(<<110, 111, 110, 101, 47, 111, 117, 116, 46, 113, 102, 120>> (* none/out.qfx *), "FileNotFoundError", ""),
   PathOf(<<111, 117, 116>> (* out *), "IsADirectoryError", ""),
   PathOf(<<111, 117, 116, 46, 113, 102, 120>> (* out.qfx *), "PermissionError", ""),
   PathOf(<<47, 100, 101, 118, 47, 102, 117, 108, 108>> (* /dev/full *), "", "OSError"),
   PathOf(<<111, 117, 233, 46, 113, 102, 120>>, "", ""),
   PathOf(None, "", ""),
   PathOf(<<>>, "", ""),
   [PathOf(None, "", "") EXCEPT !.input_csv = <<105, 110, 46, 67, 83, 86>> (* in.CSV *)],
   [PathOf(None, "IsADirectoryError", "") EXCEPT !.input_csv = <<46, 99, 115, 118>> (* .csv *)]}

(* a stdout that takes every text *)
Terminal ==
  [encoding |-> "utf-8", writes |-> "", write_through |-> TRUE,
   chunk_size |-> 8192, buffer_size |-> 8192]

(* a stdout of the encoding ASCII; one that writes through to a device     *)
(* without room; and three that buffer before such a device, the second    *)
(* with a buffer smaller than the warning and the third with one smaller   *)
(* than the two prints                                                     *)
OddStdouts ==
  {[Terminal EXCEPT !.encoding = "ascii"],
   [Terminal EXCEPT !.writes = "OSError"],
   [Terminal EXCEPT !.writes = "OSError", !.write_through = FALSE, !.buffer_size = 4096],
   [Terminal EXCEPT !.writes = "OSError", !.write_through = FALSE,
                    !.chunk_size = 64, !.buffer_size = 100],
   [Terminal EXCEPT !.writes = "OSError", !.write_through = FALSE,
                    !.chunk_size = 1, !.buffer_size = 150]}

(* the runs in other surroundings: the output path and sys.stdout *)
OddSurroundings ==
  {[output_path |-> path, stdout |-> out] :
     path \in OddPaths \cup {Writable}, out \in OddStdouts \cup {Terminal}}

(* a buy with a price that differs from the computed one, and one with a   *)
(* letter outside ASCII in its description                                 *)
R_warn == Row(D_jan, ACCT1, A_buy, <<88>>, C1, ST, <<53>>, <<51, 46, 48, 48>> (* 3.00 *), <<45, 49, 48, 46, 48, 48>> (* -10.00 *))

R_warn_accent == Row(D_jan, ACCT1, A_buy, <<88, 233>>, C1, ST, <<53>>, <<51, 46, 48, 48>> (* 3.00 *), <<45, 49, 48, 46, 48, 48>> (* -10.00 *))

SurroundedRuns ==
  {[mapping |-> DefaultMapping, csv |-> CsvOf(<<R_buy, R_fee>>)],
   [mapping |-> DefaultMapping, csv |-> CsvOf(<<R_warn, R_fee>>)],
   [mapping |-> DefaultMapping, csv |-> CsvOf(<<R_buy, R_warn_accent>>)],
   [mapping |-> DefaultMapping,
    csv |-> CsvOf(<<R_buy, Row(D_jan, ACCT1, <<114, 101, 98, 97, 108, 97, 110, 99, 101>> (* rebalance *), <<88>>, C1, ST, <<53>>, <<>>,
                               <<45, 49, 48, 46, 48, 48>> (* -10.00 *))>>)],
   [mapping |-> SurrogateAccount, csv |-> CsvOf(<<R_buy, R_fee>>)]}

(* datetime.now() at the time of the write *)
Clock == {[y |-> 2026, m |-> 1, d |-> 2], [y |-> 2026, m |-> 1, d |-> 3]}

(* ---------------------------------------------------------------------- *)
(* main                                                                   *)
(* ---------------------------------------------------------------------- *)
VARIABLES
  valid_lines,    \* the data rows read from the CSV, each as the dict of line 647
  counter,        \* counter
  first_account,  \* first_account
  min_date,       \* min_date
  max_date,       \* max_date
  securities,     \* securities, in insertion order
  transactions,   \* transactions
  calls,          \* the generator generate_transaction called, per row
  queries,        \* the symbols is_mutual_fund was asked about
  pc,             \* "load", "read", "rows", "open", "write", "print", "done"
                  \* or "aborted"
  error,          \* the exception that ended the run
  qfx_content,    \* qfx_content: <<>> until built, then <<document>>
  outfile,        \* what the run has made of the file at args.output_qfx:
                  \* "untouched", "empty", "partial" or "written"
  output_qfx,     \* the output file: <<>> until written, then <<document>>
  value,          \* the text handed to normalize_currency
  inverseAmount,  \* the flag handed to normalize_currency with value
  normalized      \* the results of the successive calls of normalize_currency

vars == <<valid_lines, counter, first_account, min_date, max_date, securities,
          transactions, calls, queries, pc, error, qfx_content, outfile, output_qfx,
          value, inverseAmount, normalized, injected, mapping_file, csvfile,
          output_path, stdout, printed>>

(* the variables main does not touch *)
currency == <<value, inverseAmount, normalized, injected, mapping_file, csvfile,
              output_path, stdout>>

(* what the row loop leaves alone *)
written == <<qfx_content, outfile, output_qfx>>

(* a symbol that changes the text of the query into another query *)
Rewrites(s) == ~SqlClosed(s) /\ ~SqlUnterminated(s)

(* the cells of the export, stripped *)
CellTexts(rows) ==
  UNION {{Strip(rows[i][j]) : j \in 1..Len(rows[i])} : i \in 1..Len(rows)}

StartIn(mapping, csv, path, out) ==
  /\ mapping_file = mapping
  /\ csvfile = csv
  /\ output_path = path
  /\ stdout = out
  /\ printed = <<>>
  /\ valid_lines = <<>>
  /\ counter = 1
  /\ first_account = None
  /\ min_date = NoDate
  /\ max_date = NoDate
  /\ securities = <<>>
  /\ transactions = <<>>
  /\ calls = <<>>
  /\ queries = <<>>
  /\ pc = "load"
  /\ error = ""
  /\ qfx_content = <<>>
  /\ outfile = "untouched"
  /\ output_qfx = <<>>
  /\ injected \in [{t \in CellTexts(csv.rows) : Rewrites(t)} -> Answers]

(* a run with a path that takes the output and a stdout that takes the     *)
(* message                                                                 *)
Start(mapping, csv) == StartIn(mapping, csv, Writable, Terminal)

(* the runs of OddRuns, and those of SurroundedRuns in each surrounding *)
StartOdd ==
  \/ \E run \in OddRuns : Start(run.mapping, run.csv)
  \/ \E run \in SurroundedRuns, around \in OddSurroundings :
       StartIn(run.mapping, run.csv, around.output_path, around.stdout)

(* no call of normalize_currency outside main is under way *)
NoCurrency ==
  /\ value = <<>>
  /\ inverseAmount = False
  /\ normalized = <<>>

Init ==
  /\ \/ \E n \in 0..MaxRows : \E lines \in [1..n -> DocRows] :
          Start(DefaultMapping, CsvOf(lines))
     \/ StartOdd
  /\ NoCurrency

InitRow ==
  /\ \/ Start(DefaultMapping, CsvOf(<<>>))
     \/ \E row \in WideRows : Start(DefaultMapping, CsvOf(<<row>>))
     \/ StartOdd
  /\ NoCurrency

(* load_account_id_mapping and load_missing_cusip_mapping on the file for  *)
(* the section name: the exception raised, "" for none.  A value that is   *)
(* a number, a boolean or null takes no "in"; a list or a string takes it  *)
(* and takes no subscript name                                             *)
load_section(file, name) ==
  IF ~file.isfile THEN "FileNotFoundError"
  ELSE IF file.opens # "" THEN file.opens
  ELSE IF file.loads # "" THEN file.loads
  ELSE IF file.type \in {"number", "bool", "null"} THEN "TypeError"
  ELSE IF name \notin file.sections THEN "KeyError"
  ELSE IF file.type # "object" THEN "TypeError"
  ELSE ""

load_account_id_mapping(file) == load_section(file, "account_id_mapping")

load_missing_cusip_mapping(file) == load_section(file, "missing_cusip_mapping")

(* lines 616 and 619: the exception of the first load that raises *)
LoadRaises(file) ==
  IF load_account_id_mapping(file) # "" THEN load_account_id_mapping(file)
  ELSE load_missing_cusip_mapping(file)

(* lines 616 and 619: both sections load *)
LoadMappings ==
  /\ pc = "load"
  /\ LoadRaises(mapping_file) = ""
  /\ pc' = "read"
  /\ UNCHANGED <<valid_lines, counter, first_account, min_date, max_date,
                 securities, transactions, calls, queries, error, written,
                 currency, printed>>

(* load_account_id_mapping or load_missing_cusip_mapping raises *)
LoadMappingsFails ==
  /\ pc = "load"
  /\ LoadRaises(mapping_file) # ""
  /\ pc' = "aborted"
  /\ error' = LoadRaises(mapping_file)
  /\ UNCHANGED <<valid_lines, counter, first_account, min_date, max_date,
                 securities, transactions, calls, queries, written, currency, printed>>

(* re.sub(r'\s*\d+$', '', h) on a text h without white space at its end:   *)
(* the digits at the end go, with the white space before them              *)
RECURSIVE RStripDigits(_)
RStripDigits(h) ==
  IF h # <<>> /\ IsDigit(h[Len(h)]) THEN RStripDigits(SubSeq(h, 1, Len(h) - 1))
  ELSE h

SubNumeral(h) == IF RStripDigits(h) = h THEN h ELSE RStrip(RStripDigits(h))

normalize_header(header) ==
  IF StartsWith(Lower(Strip(header)), <<112, 114, 105, 99, 101>> (* price *))
     \/ StartsWith(Lower(Strip(header)), <<97, 109, 111, 117, 110, 116>> (* amount *))
    THEN SubNumeral(Strip(header))
  ELSE Strip(header)

row_is_empty(row) == \A j \in 1..Len(row) : Strip(row[j]) = <<>>

(* lines 633-637 and 642-643: the search for the header row from row i on; *)
(* at is the index of the header row; after the last row the reader raises *)
(* ends, or the loop is over with no header row found                      *)
RECURSIVE FindHeader(_, _, _)
FindHeader(rows, i, ends) ==
  IF i > Len(rows)
    THEN [error |-> IF ends # "" THEN ends ELSE "HeaderNotFoundError", at |-> 0]
  ELSE IF rows[i] # <<>> /\ Strip(rows[i][1]) = <<68, 97, 116, 101>> (* Date *)
    THEN (IF Len(rows[i]) < 2 THEN [error |-> "IndexError", at |-> 0]
          ELSE IF Strip(rows[i][2]) = <<65, 99, 99, 111, 117, 110, 116>> (* Account *) THEN [error |-> "", at |-> i]
          ELSE FindHeader(rows, i + 1, ends))
  ELSE FindHeader(rows, i + 1, ends)

(* lines 638-641: the loop from row i on leaves at an empty row, and asks  *)
(* the reader for no row after it                                          *)
Breaks(rows, i) == \E j \in i..Len(rows) : row_is_empty(rows[j])

(* lines 628-643: the exception raised, "" for none *)
ReadRaises(csv) ==
  IF csv.opens # "" THEN csv.opens
  ELSE IF FindHeader(csv.rows, 1, csv.ends).error # ""
    THEN FindHeader(csv.rows, 1, csv.ends).error
  ELSE IF Breaks(csv.rows, FindHeader(csv.rows, 1, csv.ends).at + 1) THEN ""
  ELSE csv.ends

(* lines 638-641: the rows from row i on, up to the first empty one *)
RECURSIVE DataRows(_, _)
DataRows(rows, i) ==
  IF i > Len(rows) \/ row_is_empty(rows[i]) THEN <<>>
  ELSE <<rows[i]>> \o DataRows(rows, i + 1)

(* dict(zip(fieldnames, cells))[key]: the cell under the last of the names *)
(* equal to key that has a cell                                            *)
Lookup(fieldnames, cells, key) ==
  IF \E j \in 1..Len(fieldnames) : j <= Len(cells) /\ fieldnames[j] = key
    THEN cells[CHOOSE j \in 1..Len(fieldnames) :
                 /\ j <= Len(cells) /\ fieldnames[j] = key
                 /\ \A k \in (j + 1)..Len(fieldnames) :
                      ~(k <= Len(cells) /\ fieldnames[k] = key)]
  ELSE KeyAbsent

(* line 647, for the keys the program reads *)
RowDict(fieldnames, cells) ==
  Row(Lookup(fieldnames, cells, <<68, 97, 116, 101>> (* Date *)), Lookup(fieldnames, cells, <<65, 99, 99, 111, 117, 110, 116>> (* Account *)),
      Lookup(fieldnames, cells, <<65, 99, 116, 105, 118, 105, 116, 121>> (* Activity *)),
      Lookup(fieldnames, cells, <<68, 101, 115, 99, 114, 105, 112, 116, 105, 111, 110>> (* Description *)),
      Lookup(fieldnames, cells, <<67, 85, 83, 73, 80>> (* CUSIP *)), Lookup(fieldnames, cells, <<83, 121, 109, 98, 111, 108>> (* Symbol *)),
      Lookup(fieldnames, cells, <<81, 117, 97, 110, 116, 105, 116, 121>> (* Quantity *)), Lookup(fieldnames, cells, <<80, 114, 105, 99, 101>> (* Price *)),
      Lookup(fieldnames, cells, <<65, 109, 111, 117, 110, 116>> (* Amount *)))

(* lines 645-647 on the header row and the data rows *)
Dicts(raw_fieldnames, lines) ==
  [i \in 1..Len(lines) |->
     RowDict([j \in 1..Len(raw_fieldnames) |-> normalize_header(raw_fieldnames[j])],
             lines[i])]

(* lines 628-647: the header row is found and the data rows are read *)
ReadCsvFrom(header) ==
  valid_lines' = Dicts(csvfile.rows[header.at],
                       DataRows(csvfile.rows, header.at + 1))

ReadCsv ==
  /\ pc = "read"
  /\ ReadRaises(csvfile) = ""
  /\ ReadCsvFrom(FindHeader(csvfile.rows, 1, csvfile.ends))
  /\ pc' = "rows"
  /\ UNCHANGED <<counter, first_account, min_date, max_date, securities,
                 transactions, calls, queries, error, written, currency, printed>>

(* open raises, the reader raises, row[1] raises for a row that holds Date *)
(* alone, or no row is the header row                                      *)
ReadCsvFails ==
  /\ pc = "read"
  /\ ReadRaises(csvfile) # ""
  /\ pc' = "aborted"
  /\ error' = ReadRaises(csvfile)
  /\ UNCHANGED <<valid_lines, counter, first_account, min_date, max_date,
                 securities, transactions, calls, queries, written, currency, printed>>

(* the key of a dict that x is: True and False are the keys 1 and 0 *)
KeyOf(x) ==
  IF x = True THEN JsonInt(<<49>>) ELSE IF x = False THEN JsonInt(<<48>>) ELSE x

(* "key not in securities" *)
InSecurities(secs, key) ==
  \E i \in 1..Len(secs) : KeyOf(secs[i].uniqueid) = KeyOf(key)

(* a loop head that updates max_date only when min_date was not updated *)
RowHead_Elif(row) ==
  LET dt_obj == parse_date(row.Date)
      lower  == dt_obj # NoDate
                /\ (min_date = NoDate \/ DateKey(dt_obj) < DateKey(min_date))
  IN /\ first_account' = IF first_account = None THEN Strip(row.Account)
                         ELSE first_account
     /\ min_date' = IF lower THEN dt_obj ELSE min_date
     /\ max_date' = IF dt_obj # NoDate /\ ~lower
                       /\ (max_date = NoDate \/ DateKey(dt_obj) > DateKey(max_date))
                    THEN dt_obj ELSE max_date

(* lines 648-655: the part of the loop body that runs before generate_transaction *)
RowHeadOn(row, dt_obj) ==
  /\ first_account' = IF first_account = None THEN Strip(row.Account)
                      ELSE first_account
  /\ min_date' = IF dt_obj # NoDate
                    /\ (min_date = NoDate \/ DateKey(dt_obj) < DateKey(min_date))
                 THEN dt_obj ELSE min_date
  /\ max_date' = IF dt_obj # NoDate
                    /\ (max_date = NoDate \/ DateKey(dt_obj) > DateKey(max_date))
                 THEN dt_obj ELSE max_date

RowHead(row) == RowHeadOn(row, parse_date(row.Date))

(* lines 657-660 on the result r of generate_transaction *)
Collect(row, r) ==
  /\ r.error = ""
  /\ RowHead(row)
  /\ securities' =
       IF r.secid_info # NoSecurityInfo
          /\ ~InSecurities(securities, r.secid_info.uniqueid)
       THEN Append(securities, r.secid_info) ELSE securities
  /\ transactions' = Append(transactions, r.txn_entry)
  /\ counter' = counter + 1
  /\ calls' = Append(calls, r.gen)
  /\ queries' = queries \o r.lookups
  /\ printed' = printed \o r.printed

(* lines 649-650: row["Account"], read for the first row only, or         *)
(* row["Date"] raises KeyError                                             *)
MainKeyError(row) ==
  (first_account = None /\ row.Account = KeyAbsent) \/ row.Date = KeyAbsent

(* one iteration of the loop over valid_lines that completes *)
LoopBody ==
  /\ pc = "rows"
  /\ counter <= Len(valid_lines)
  /\ ~MainKeyError(valid_lines[counter])
  /\ Collect(valid_lines[counter],
             generate_transaction(valid_lines[counter], counter))
  /\ UNCHANGED <<valid_lines, pc, error, written, currency>>

(* the exception r of generate_transaction leaves the loop *)
Propagate(row, r) ==
  /\ ~MainKeyError(row)
  /\ r.error # ""
  /\ RowHead(row)
  /\ calls' = Append(calls, r.gen)
  /\ queries' = queries \o r.lookups
  /\ printed' = printed \o r.printed
  /\ error' = r.error

(* the KeyError of line 649 or 650 leaves the loop *)
MainRaises(row) ==
  /\ MainKeyError(row)
  /\ first_account' = IF first_account = None /\ row.Account # KeyAbsent
                        THEN Strip(row.Account) ELSE first_account
  /\ error' = "KeyError"
  /\ UNCHANGED <<min_date, max_date, calls, queries, printed>>

(* a loop body that skips a row that raises *)
LoopBodySkips ==
  /\ pc = "rows"
  /\ counter <= Len(valid_lines)
  /\ \/ MainRaises(valid_lines[counter])
     \/ Propagate(valid_lines[counter],
                  generate_transaction(valid_lines[counter], counter))
  /\ counter' = counter + 1
  /\ UNCHANGED <<valid_lines, securities, transactions, pc, written, currency>>

(* one iteration in which the loop body raises: the run ends *)
LoopBodyRaises ==
  /\ pc = "rows"
  /\ counter <= Len(valid_lines)
  /\ \/ MainRaises(valid_lines[counter])
     \/ Propagate(valid_lines[counter],
                  generate_transaction(valid_lines[counter], counter))
  /\ pc' = "aborted"
  /\ UNCHANGED <<valid_lines, counter, securities, transactions, written, currency>>

(* lines 662-663 *)
NoAccount ==
  /\ pc = "rows"
  /\ counter > Len(valid_lines)
  /\ first_account = None
  /\ pc' = "aborted"
  /\ error' = "NoAccountInformation"
  /\ UNCHANGED <<valid_lines, counter, first_account, min_date, max_date,
                 securities, transactions, calls, queries, written, currency, printed>>

(* s holds part somewhere: "part in s" of two strings *)
Contains(s, part) ==
  \E k \in 0..(Len(s) - Len(part)) : SubSeq(s, k + 1, k + Len(part)) = part

(* "normalized_name not in mapping" of line 83: a key of the object, an    *)
(* element of the array, or a part of the string                           *)
InMapping(normalized_name) ==
  IF account_type = "string"
    THEN \E text \in DOMAIN account_mapping : Contains(text, normalized_name)
  ELSE normalized_name \in DOMAIN account_mapping

(* the exception of get_account_id: line 83 on a number, true, false or    *)
(* null, the KeyError of line 84, or the subscript of line 85 on an array  *)
(* or a string                                                             *)
AccountRaises(account_name) ==
  IF account_type \in {"number", "bool", "null"} THEN "TypeError"
  ELSE IF ~InMapping(Strip(account_name)) THEN "AccountNotMappedError"
  ELSE IF account_type # "object" THEN "TypeError"
  ELSE ""

(* get_account_id raising *)
AccountNotMapped ==
  /\ pc = "rows"
  /\ counter > Len(valid_lines)
  /\ first_account # None
  /\ AccountRaises(first_account) # ""
  /\ pc' = "aborted"
  /\ error' = AccountRaises(first_account)
  /\ UNCHANGED <<valid_lines, counter, first_account, min_date, max_date,
                 securities, transactions, calls, queries, written, currency, printed>>

get_account_id(account_name, mapping) == mapping[Strip(account_name)]

format_ofx_datetime(dt_obj, now) ==
  strftime_Ymd(IF dt_obj = NoDate THEN now ELSE dt_obj)
    \o <<49, 50, 48, 48, 48, 48, 46, 48, 48, 48, 91, 45, 53, 58, 69, 83, 84, 93>> (* 120000.000[-5:EST] *)

(* the transactions as accumulated, without the partition *)
all_txns_Unpartitioned(txns) == txns

(* non_fee_txns + invbanktrans *)
all_txns(txns) ==
  SelectSeq(txns, LAMBDA t : ~t.is_invbanktran)
    \o SelectSeq(txns, LAMBDA t : t.is_invbanktran)

Document(now1, now2) ==
  [acctid      |-> Str(get_account_id(first_account, account_mapping)),
   dtstart     |-> format_ofx_datetime(min_date, now1),
   dtend       |-> format_ofx_datetime(max_date, now2),
   invtranlist |-> [i \in 1..Len(transactions) |-> all_txns(transactions)[i].txn_str],
   seclist     |-> [i \in 1..Len(securities) |-> securities[i].info_entry]]

(* lines 662-746: the account id resolves and the document is built *)
BuildDocument ==
  /\ pc = "rows"
  /\ counter > Len(valid_lines)
  /\ first_account # None
  /\ AccountRaises(first_account) = ""
  /\ \E now1 \in Clock, now2 \in Clock :
       /\ DateKey(now1) <= DateKey(now2)
       /\ qfx_content' = <<Document(now1, now2)>>
  /\ pc' = "open"
  /\ UNCHANGED <<valid_lines, counter, first_account, min_date, max_date,
                 securities, transactions, calls, queries, error, outfile,
                 output_qfx, currency, printed>>

(* line 747: open(args.output_qfx, "w") makes the file, or empties it *)
OpenOutput ==
  /\ pc = "open"
  /\ output_path.opens = ""
  /\ outfile' = "empty"
  /\ pc' = "write"
  /\ UNCHANGED <<valid_lines, counter, first_account, min_date, max_date,
                 securities, transactions, calls, queries, error, qfx_content,
                 output_qfx, currency, printed>>

(* line 747: open raises, and the path is as it was *)
OpenOutputFails ==
  /\ pc = "open"
  /\ output_path.opens # ""
  /\ error' = output_path.opens
  /\ pc' = "aborted"
  /\ UNCHANGED <<valid_lines, counter, first_account, min_date, max_date,
                 securities, transactions, calls, queries, written, currency, printed>>

(* a text str.encode("utf-8") refuses: it holds a surrogate *)
HasSurrogate(text) == \E k \in 1..Len(text) : 55296 <= text[k] /\ text[k] <= 57343

(* the texts of the document that come from the export and the mapping *)
DocumentTexts(doc) ==
  {doc.acctid, doc.dtstart, doc.dtend}
    \cup UNION {{doc.invtranlist[i].fitid, doc.invtranlist[i].uniqueid,
                  doc.invtranlist[i].units, doc.invtranlist[i].unitprice,
                  doc.invtranlist[i].total, doc.invtranlist[i].trnamt} :
                   i \in 1..Len(doc.invtranlist)}
    \cup UNION {{doc.seclist[i].tag, doc.seclist[i].uniqueid, doc.seclist[i].secname} :
                   i \in 1..Len(doc.seclist)}

(* outfile.write(qfx_content) encodes the whole text before it writes *)
Encodable(doc) == \A text \in DocumentTexts(doc) : ~HasSurrogate(text)

(* line 748: the content is written and the file closed *)
WriteOutput ==
  /\ pc = "write"
  /\ Encodable(qfx_content[1])
  /\ output_path.writes = ""
  /\ output_qfx' = qfx_content
  /\ outfile' = "written"
  /\ pc' = "print"
  /\ UNCHANGED <<valid_lines, counter, first_account, min_date, max_date,
                 securities, transactions, calls, queries, error, qfx_content,
                 currency, printed>>

(* line 748: the write raises UnicodeEncodeError before a byte is written, *)
(* and the file stays empty; or the device refuses the bytes, of which     *)
(* none or some are in the file                                            *)
WriteOutputFails ==
  /\ pc = "write"
  /\ \/ /\ ~Encodable(qfx_content[1])
        /\ error' = "UnicodeEncodeError"
        /\ outfile' = "empty"
     \/ /\ Encodable(qfx_content[1])
        /\ output_path.writes # ""
        /\ error' = output_path.writes
        /\ outfile' \in {"empty", "partial"}
  /\ pc' = "aborted"
  /\ UNCHANGED <<valid_lines, counter, first_account, min_date, max_date,
                 securities, transactions, calls, queries, qfx_content,
                 output_qfx, currency, printed>>

(* the text of line 749 *)
SavedText == <<81, 70, 88, 32, 102, 105, 108, 101, 32, 104, 97, 115, 32, 98, 101, 101, 110, 32, 103, 101, 110, 101, 114, 97, 116, 101, 100, 32, 97, 110, 100, 32, 115, 97, 118, 101, 100, 32, 116, 111, 32>> \o args_output_qfx

(* line 749 *)
PrintSaved ==
  /\ pc = "print"
  /\ print(SavedText) = ""
  /\ printed' = Append(printed, SavedText)
  /\ pc' = "done"
  /\ UNCHANGED <<valid_lines, counter, first_account, min_date, max_date,
                 securities, transactions, calls, queries, error, written,
                 currency>>

(* line 749: print raises, with the output written *)
PrintSavedFails ==
  /\ pc = "print"
  /\ print(SavedText) # ""
  /\ error' = print(SavedText)
  /\ pc' = "aborted"
  /\ UNCHANGED <<valid_lines, counter, first_account, min_date, max_date,
                 securities, transactions, calls, queries, written, currency, printed>>

Next ==
  \/ LoadMappings
  \/ LoadMappingsFails
  \/ ReadCsv
  \/ ReadCsvFails
  \/ LoopBody
  \/ LoopBodyRaises
  \/ NoAccount
  \/ AccountNotMapped
  \/ BuildDocument
  \/ OpenOutput
  \/ OpenOutputFails
  \/ WriteOutput
  \/ WriteOutputFails
  \/ PrintSaved
  \/ PrintSavedFails

Spec == Init /\ [][Next]_vars

SpecRow == InitRow /\ [][Next]_vars

(* ---------------------------------------------------------------------- *)
(* normalize_currency called on a text, then on its own results           *)
(* ---------------------------------------------------------------------- *)
MaxCalls == 3

Numerals ==
  {<<48>>, <<53>>, <<48, 46, 53, 48>> (* 0.50 *), <<46, 53>> (* .5 *), <<49, 50, 46, 51>> (* 12.3 *),
   <<49, 44, 50, 51, 52, 46, 53, 48>> (* 1,234.50 *)}

Prefixes == {<<>>, <<36>>, <<45>>, <<45, 36>> (* -$ *), <<36, 45>> (* $- *), <<45, 32>>}

Pads == {<<>>, <<32>>}

(* plain, $-prefixed, comma-separated and minus-prefixed amounts *)
PlainTexts == {pad \o pre \o n \o pad : pad \in Pads, pre \in Prefixes, n \in Numerals}

(* the same amounts in parentheses *)
ParenTexts ==
  {pad \o <<40>> \o pre \o n \o <<41>> \o pad :
     pad \in Pads, pre \in Prefixes, n \in Numerals}

(* texts that are no amount *)
OtherTexts ==
  {<<>>, <<32>>, <<97, 98, 99>> (* abc *), <<40>>, <<53, 45>> (* 5- *), <<49, 46, 50, 46, 51>> (* 1.2.3 *)}

CurrencyTexts == PlainTexts \cup ParenTexts \cup OtherTexts

main_vars == <<valid_lines, counter, first_account, min_date, max_date, securities,
               transactions, calls, queries, pc, error, qfx_content, outfile,
               output_qfx, mapping_file, csvfile, output_path, stdout, printed>>

InitCurrency ==
  /\ Start(DefaultMapping, CsvOf(<<>>))
  /\ value \in CurrencyTexts
  /\ inverseAmount \in {False, True}
  /\ normalized = <<>>

(* value.strip() on the None a call returned *)
AttributeError == <<-6>>

(* normalize_currency(value, inverseAmount) *)
Normalize ==
  /\ normalized = <<>>
  /\ normalized' = <<normalize_currency(value, inverseAmount)>>
  /\ UNCHANGED <<main_vars, value, inverseAmount, injected>>

(* normalize_currency(x) on the result x of the call before *)
Renormalize ==
  /\ normalized # <<>>
  /\ Len(normalized) < MaxCalls
  /\ normalized[Len(normalized)] # AttributeError
  /\ normalized' =
       Append(normalized,
              IF normalized[Len(normalized)] = None THEN AttributeError
              ELSE normalize_currency(normalized[Len(normalized)], False))
  /\ UNCHANGED <<main_vars, value, inverseAmount, injected>>

NextCurrency == Normalize \/ Renormalize

SpecCurrency == InitCurrency /\ [][NextCurrency]_vars

(* ---------------------------------------------------------------------- *)
(* Properties                                                             *)
(* ---------------------------------------------------------------------- *)
Processed == 1..Len(calls)

(* row i went through generate_transaction without an exception *)
Rendered(i) == i \in 1..Len(transactions)

(* row i is the row whose exception ended the run *)
Failed(i) == pc = "aborted" /\ i = Len(calls) /\ i = Len(transactions) + 1

(* the dispatch rule as the documentation lists it *)
ActivityTable ==
  (A_buy :> "Buy") @@ (A_reinvest_dividend :> "Buy") @@ (A_rein_stc_gain :> "Buy")
  @@ (A_rein_cap_gain :> "Buy") @@ (A_sell :> "Sell")
  @@ (A_asset_trf :> "Transfer") @@ (A_ach_activity :> "Transfer")
  @@ (A_dividend :> "Income:DIV") @@ (A_interest :> "Interest")
  @@ (A_lt_cap_gain :> "Income:CGLONG") @@ (A_shrt_trm_gain :> "Income:CGSHORT")
  @@ (A_advisory_fee :> "Fee") @@ (A_journal :> "Fee")
  @@ (A_reinvest_dist :> "Buy:0.0")

RouteByActivity(row) ==
  LET a == Lower(Strip(row.Activity))
  IN IF a \in DOMAIN ActivityTable THEN ActivityTable[a] ELSE ""

RoutedAsListed(i, route) ==
  /\ calls[i] = route
  /\ route = "" => Failed(i) /\ error = "UnknownActivityError"
  /\ Rendered(i) =>
       (transactions[i].is_invbanktran <=> route \in {"Interest", "Fee"})

(* the funding-activity override as documented: a buy row whose            *)
(* description ends with "initial", without CUSIP and Symbol, whose        *)
(* normalized Amount is the negation of its raw Quantity (which a row      *)
(* without an Amount, or without a numeric Quantity, does not satisfy)     *)
FundingOverride(row) ==
  /\ Lower(Strip(row.Activity)) = A_buy
  /\ EndsWith(Lower(Strip(row.Description)), <<105, 110, 105, 116, 105, 97, 108>> (* initial *))
  /\ Strip(row.CUSIP) = <<>>
  /\ Strip(row.Symbol) = <<>>
  /\ Strip(row.Amount) # <<>>
  /\ float(row.Quantity) # NaF
  /\ FloatEq(float(normalize_currency(row.Amount, False)),
             FloatNeg(float(row.Quantity)))

(* C1: every row is routed by the dispatch rule in its order, first match  *)
(* wins: the funding override first, then the trimmed, lower-cased         *)
(* Activity as listed; any other Activity is the unknown-activity error;   *)
(* only Interest and Fee fragments are cash-type.                          *)
C1_DispatchRule ==
  \A i \in Processed :
    LET row == valid_lines[i]
    IN RoutedAsListed(i, IF FundingOverride(row) THEN "Transfer"
                         ELSE RouteByActivity(row))

(* C2: a buy row that meets the funding override is handled by the         *)
(* Transfer generator as a cash transfer (CASH reference, CASH security    *)
(* entry, not cash-type) and never by the Buy generator; a buy row that    *)
(* fails any one condition is handled by the Buy generator.                *)
C2_FundingOverride ==
  \A i \in Processed :
    LET row == valid_lines[i]
    IN Lower(Strip(row.Activity)) = A_buy =>
         IF FundingOverride(row)
           THEN /\ calls[i] = "Transfer"
                /\ Rendered(i)
                /\ transactions[i].txn_str.block = "TRANSFER"
                /\ transactions[i].txn_str.uniqueid = CASH
                /\ ~transactions[i].is_invbanktran
                /\ InSecurities(securities, CASH)
           ELSE calls[i] = "Buy"

(* the exception of print that depends on what the stream holds: that of   *)
(* the device under a stdout that does not write through                   *)
StreamError == IF stdout.write_through THEN "" ELSE stdout.writes

(* a row whose generator raises whatever the stream holds, or a first      *)
(* account that is not mapped                                              *)
RunMustFail ==
  \/ \E i \in 1..Len(valid_lines) :
       generate_transaction(valid_lines[i], i).error \notin {"", StreamError}
  \/ valid_lines = <<>>
  \/ AccountRaises(valid_lines[1].Account) # ""

(* the fatal errors of a row and of the account id *)
FatalErrors ==
  {"UnknownActivityError", "IncompleteTransactionError", "MissingIdentifierError",
   "UnresolvedSecurityError", "AccountNotMappedError"}

(* C3: the output file is opened and written only after every data row has *)
(* been rendered and the account id resolved; a run in which any row       *)
(* raises, or whose first account is not mapped, never reaches the open or *)
(* the write of the output, however many rows were rendered before: it     *)
(* ends with the output file untouched.  A run that ends with an exception *)
(* after it has opened the output file had rendered every row, and may     *)
(* leave the file empty or in part.                                        *)
C3_AllOrNothing ==
  /\ pc \in {"open", "write", "print", "done"} \/ outfile # "untouched"
       \/ qfx_content # <<>> \/ output_qfx # <<>> =>
       /\ Len(transactions) = Len(valid_lines)
       /\ counter = Len(valid_lines) + 1
       /\ account_type = "object"
       /\ first_account \in DOMAIN account_mapping
       /\ ~RunMustFail
  /\ output_qfx # <<>> => outfile = "written" /\ output_qfx = qfx_content
  /\ pc = "done" => output_qfx # <<>> /\ error = ""
  /\ pc = "aborted" /\ (error \in FatalErrors \/ qfx_content = <<>>) =>
       outfile = "untouched" /\ output_qfx = <<>>

C3_Witness ==
  /\ pc = "aborted"
  /\ error = "UnknownActivityError"
  /\ Len(transactions) >= 2
  /\ outfile = "untouched"
  /\ output_qfx = <<>>

IsCashType(t) == t.block = "INVBANKTRAN"

(* C4: in a written document the transaction list holds the fragment of    *)
(* every row exactly once, the non-cash-type fragments in input order      *)
(* followed by the cash-type fragments (fee, interest) in input order.     *)
C4_Ordering ==
  output_qfx # <<>> =>
    LET list == output_qfx[1].invtranlist
        n    == Len(valid_lines)
        At(i) == {k \in 1..Len(list) : list[k] = transactions[i].txn_str}
        Pos(i) == CHOOSE k \in At(i) : TRUE
    IN /\ Len(list) = n
       /\ \A i \in 1..n : Cardinality(At(i)) = 1
       /\ \A i, j \in 1..n :
            LET ci == IsCashType(transactions[i].txn_str)
                cj == IsCashType(transactions[j].txn_str)
            IN \/ (ci = cj /\ i < j)
               \/ (~ci /\ cj)
               => Pos(i) < Pos(j)

C4_Witness ==
  /\ output_qfx # <<>>
  /\ Len(transactions) = 3
  /\ IsCashType(transactions[1].txn_str)
  /\ ~IsCashType(transactions[2].txn_str)
  /\ IsCashType(transactions[3].txn_str)
  /\ output_qfx[1].invtranlist[1] = transactions[2].txn_str

(* the identifiers the fragments rendered so far reference *)
Referenced ==
  {transactions[i].txn_str.uniqueid : i \in 1..Len(transactions)} \ {NA}

FirstRowOf(u) ==
  CHOOSE i \in 1..Len(transactions) :
    /\ transactions[i].txn_str.uniqueid = u
    /\ \A j \in 1..(i - 1) : transactions[j].txn_str.uniqueid # u

EntriesOf(u) ==
  {k \in 1..Len(securities) : securities[k].info_entry.uniqueid = u}

(* C5: after any sequence of rows the security list holds exactly one      *)
(* entry per identifier the fragments reference, that entry is the one     *)
(* rendered for the first row that referenced it, and the entries are in   *)
(* order of first appearance.                                              *)
C5_OneEntryPerIdentifier ==
  /\ Len(securities) = Cardinality(Referenced)
  /\ \A u \in Referenced :
       /\ Cardinality(EntriesOf(u)) = 1
       /\ \A k \in EntriesOf(u) :
            securities[k] =
              generate_transaction(valid_lines[FirstRowOf(u)], FirstRowOf(u)).secid_info
  /\ \A u, v \in Referenced :
       FirstRowOf(u) < FirstRowOf(v) =>
         \A k \in EntriesOf(u), l \in EntriesOf(v) : k < l

(* C6: in a written document every fragment that references a security    *)
(* has an entry in the security list with the UNIQUEID it references.      *)
C6_CrossReference ==
  output_qfx # <<>> =>
    \A k \in 1..Len(output_qfx[1].invtranlist) :
      LET ref == output_qfx[1].invtranlist[k].uniqueid
      IN ref # NA =>
           \E e \in 1..Len(output_qfx[1].seclist) :
             output_qfx[1].seclist[e].uniqueid = ref

BuySellCalls == {"Buy", "Sell", "Buy:0.0"}

(* C7: a row routed to the Buy/Sell generator that supplies neither an     *)
(* Amount nor a Price, or that has no Quantity, fails with the             *)
(* incomplete-transaction error before any lookup for that row.            *)
C7_IncompleteFails ==
  \A i \in Processed :
    LET row == valid_lines[i]
    IN /\ calls[i] \in BuySellCalls
       /\ \/ Strip(row.Amount) = <<>> /\ Strip(row.Price) = <<>>
          \/ Strip(row.Quantity) = <<>>
       => /\ Failed(i)
          /\ error = "IncompleteTransactionError"
          /\ queries = <<>>

(* C8: in the Buy/Sell generator a row without Amount but with Quantity    *)
(* and Price (reinvest dist rows included) emits TOTAL = -quantity * price *)
(* and the supplied price as UNITPRICE; with Quantity and Amount present   *)
(* the UNITPRICE is the price computed from them, and the row never fails  *)
(* for the price mismatch.                                                 *)
C8_AmountAndPrice ==
  \A i \in Processed :
    LET row == valid_lines[i]
        q   == float(normalize_quantity(row.Quantity))
        p   == float(normalize_currency(row.Price, False))
        t   == transactions[i].txn_str
    IN calls[i] \in BuySellCalls =>
         /\ /\ Strip(row.Amount) = <<>>
            /\ Strip(row.Price) # <<>>
            /\ q # NaF
            /\ Rendered(i)
            => /\ t.total = Format2(FloatMul(FloatNeg(q), p))
               /\ t.unitprice = normalize_currency(row.Price, False)
         /\ /\ Strip(row.Amount) # <<>>
            /\ Strip(row.Quantity) # <<>>
            => /\ Failed(i) => error \in {"UnresolvedSecurityError", "DatabaseError"}
               /\ Rendered(i) =>
                    t.unitprice =
                      compute_price(normalize_quantity(row.Quantity),
                                    normalize_currency(row.Amount, False))

IncomeType ==
  (A_dividend :> "DIV") @@ (A_lt_cap_gain :> "CGLONG") @@ (A_shrt_trm_gain :> "CGSHORT")

(* C9: a dividend, lt cap gain or shrt trm gain row with an empty CUSIP    *)
(* fails with the missing-identifier error, also when a missing-CUSIP rule *)
(* matches its description; with a CUSIP it yields an INCOME fragment that *)
(* references the CUSIP and a security entry keyed by the CUSIP.           *)
C9_IncomeNeedsCusip ==
  \A i \in Processed :
    LET row   == valid_lines[i]
        act   == Lower(Strip(row.Activity))
        cusip == Strip(row.CUSIP)
    IN act \in DOMAIN IncomeType =>
         IF cusip = <<>>
           THEN Failed(i) /\ error = "MissingIdentifierError"
           ELSE /\ Rendered(i)
                /\ transactions[i].txn_str.block = "INCOME"
                /\ transactions[i].txn_str.incometype = IncomeType[act]
                /\ transactions[i].txn_str.uniqueid = cusip
                /\ \E k \in 1..Len(securities) :
                     /\ securities[k].uniqueid = cusip
                     /\ securities[k].info_entry.uniqueid = cusip

(* the rules whose regex matches the row's description *)
Matching(row) ==
  {k \in 1..Len(missing_cusip_mappings) :
     ReSearch(missing_cusip_mappings[k].description_regex, Strip(row.Description))}

FirstMatching(row) == CHOOSE k \in Matching(row) : \A j \in Matching(row) : k <= j

(* C10: a buy/sell row with a CUSIP references it in the fragment and is   *)
(* keyed by it in the security list; without a CUSIP the first rule whose  *)
(* regex matches the description supplies the identifier of the fragment   *)
(* and the identifier, symbol and tag of the security entry; if no rule    *)
(* matches the run fails with the unresolved-security error.               *)
C10_Resolution ==
  \A i \in Processed :
    LET row   == valid_lines[i]
        cusip == Strip(row.CUSIP)
        t     == transactions[i].txn_str
    IN /\ calls[i] \in BuySellCalls
       /\ ~(Failed(i) /\ error = "IncompleteTransactionError")
       => IF cusip # <<>>
            THEN /\ Rendered(i)
                 /\ t.uniqueid = cusip /\ t.idtype = "CUSIP"
                 /\ \E k \in 1..Len(securities) :
                      /\ securities[k].uniqueid = cusip
                      /\ securities[k].info_entry.uniqueid = cusip
          ELSE IF Matching(row) = {}
            THEN Failed(i) /\ error = "UnresolvedSecurityError"
          ELSE LET rule == missing_cusip_mappings[FirstMatching(row)]
               IN /\ Rendered(i)
                  /\ t.uniqueid = rule.uniqueid /\ t.idtype = "OTHER"
                  /\ \E k \in 1..Len(securities) :
                       /\ securities[k].info_entry.uniqueid = rule.uniqueid
                       /\ securities[k].info_entry.secname = rule.symbol
                       /\ securities[k].info_entry.tag = rule.info_tag

(* the dates that parsed, of the rows the loop has reached *)
ParsedDates == {parse_date(valid_lines[i].Date) : i \in Processed} \ {NoDate}

Earliest(S) == CHOOSE d \in S : \A e \in S : DateKey(d) <= DateKey(e)

Latest(S) == CHOOSE d \in S : \A e \in S : DateKey(d) >= DateKey(e)

OfxSuffix == <<49, 50, 48, 48, 48, 48, 46, 48, 48, 48, 91, 45, 53, 58, 69, 83, 84, 93>> (* 120000.000[-5:EST] *)

(* C11: after any sequence of rows min_date is the earliest and max_date   *)
(* the latest of the dates that parsed (so min_date <= max_date), and the  *)
(* written document renders them; a row whose date does not parse changes  *)
(* neither, and is rendered, with a counter value of its own, whenever the *)
(* same row with a date that parses is rendered.                           *)
C11_DateBounds ==
  /\ min_date = IF ParsedDates = {} THEN NoDate ELSE Earliest(ParsedDates)
  /\ max_date = IF ParsedDates = {} THEN NoDate ELSE Latest(ParsedDates)
  /\ ParsedDates # {} => DateKey(min_date) <= DateKey(max_date)
  /\ output_qfx # <<>> /\ ParsedDates # {} =>
       /\ output_qfx[1].dtstart = strftime_Ymd(Earliest(ParsedDates)) \o OfxSuffix
       /\ output_qfx[1].dtend = strftime_Ymd(Latest(ParsedDates)) \o OfxSuffix
  /\ \A i \in Processed :
       LET row == valid_lines[i]
       IN parse_date(row.Date) = NoDate =>
            \/ /\ Rendered(i)
               /\ counter > i
               /\ SubSeq(transactions[i].txn_str.fitid, 4, 11)
                    = <<48, 48, 48, 48, 48, 48, 48, 48>> (* 00000000 *)
            \/ generate_transaction([row EXCEPT !.Date = D_jan], i).error # ""

C11_Witness ==
  /\ output_qfx # <<>>
  /\ Len(transactions) = 3
  /\ parse_date(valid_lines[1].Date) = [y |-> 2023, m |-> 3, d |-> 20]
  /\ parse_date(valid_lines[2].Date) = NoDate
  /\ parse_date(valid_lines[3].Date) = [y |-> 2023, m |-> 1, d |-> 5]
  /\ min_date = [y |-> 2023, m |-> 1, d |-> 5]
  /\ max_date = [y |-> 2023, m |-> 3, d |-> 20]

(* the text with a leading minus sign added or removed *)
FlipSign(t) == IF StartsWith(t, <<45>>) THEN Tail(t) ELSE <<45>> \o t

(* the decimal text 1,234.50 of the documented examples *)
T_1234_50 == <<49, 44, 50, 51, 52, 46, 53, 48>> (* 1,234.50 *)

(* C12: on every valid currency text (plain, $-prefixed, comma-separated,  *)
(* minus-prefixed or parenthesized) a second and a third call of           *)
(* normalize_currency, flag off, return what the first call returned; with *)
(* the flag off a parenthesized or minus-prefixed text gives a text with a *)
(* minus sign, and with the flag on the sign is the opposite one.          *)
C12_Idempotent ==
  /\ value \in PlainTexts \cup ParenTexts =>
       /\ \A k \in 2..Len(normalized) : normalized[k] = normalized[1]
       /\ /\ normalized # <<>>
          /\ inverseAmount = False
          /\ value \in ParenTexts \/ \E i \in 1..Len(value) : value[i] = 45
          => Head(normalized[1]) = 45
       /\ normalized # <<>> /\ inverseAmount # False =>
            normalized[1] = FlipSign(normalize_currency(value, False))
  /\ /\ normalized # <<>> /\ inverseAmount = False
     /\ value = <<40>> \o T_1234_50 \o <<41>>
     => normalized[1] = <<45, 49, 50, 51, 52, 46, 53, 48>> (* -1234.50 *)
  /\ normalized # <<>> /\ inverseAmount = False /\ value = <<>>
     => normalized[1] = None
  /\ /\ normalized # <<>> /\ inverseAmount # False
     /\ value = <<36>> \o T_1234_50
     => normalized[1] = <<45, 49, 50, 51, 52, 46, 53, 48>> (* -1234.50 *)

C12_Witness ==
  /\ value = <<40, 45, 36>> (* (-$ *) \o T_1234_50 \o <<41>>
  /\ inverseAmount = False
  /\ Len(normalized) = 3
  /\ normalized[3] = <<45, 49, 50, 51, 52, 46, 53, 48>> (* -1234.50 *)

(* the id the row at position i of the data region is to carry *)
ExpectedId(i) ==
  LET dt == parse_date(valid_lines[i].Date)
  IN <<84, 88, 78>> (* TXN *)
       \o (IF dt = NoDate THEN <<48, 48, 48, 48, 48, 48, 48, 48>> (* 00000000 *)
           ELSE IntToStr(dt.y * 10000 + dt.m * 100 + dt.d))
       \o ZeroPad(IntToStr(i), 4)

(* C13: the counter starts at 1 and is one more than the number of rows    *)
(* rendered, whatever generator rendered them; the id of the row at        *)
(* position i is TXN, its 8-digit date (00000000 if the date does not      *)
(* parse) and i padded to 4 digits; the ids of a run are pairwise distinct.*)
C13_TransactionIds ==
  /\ counter = Len(transactions) + 1
  /\ \A i \in 1..Len(transactions) :
       /\ transactions[i].txn_str.fitid = ExpectedId(i)
       /\ Len(transactions[i].txn_str.fitid) = 15
  /\ \A i, j \in 1..Len(transactions) :
       i # j => transactions[i].txn_str.fitid # transactions[j].txn_str.fitid

C13_Witness ==
  /\ Len(transactions) = 3
  /\ valid_lines[1].Date = valid_lines[3].Date
  /\ parse_date(valid_lines[1].Date) # NoDate
  /\ parse_date(valid_lines[2].Date) = NoDate
  /\ calls[1] = "Fee" /\ calls[2] = "Interest" /\ calls[3] = "Buy"
  /\ transactions[3].txn_str.fitid
       = <<84, 88, 78, 50, 48, 50, 51, 48, 49, 48, 53, 48, 48, 48, 51>> (* TXN202301050003 *)

(* C14: every row routed to the Transfer generator is rendered; with an   *)
(* empty CUSIP the fragment references CASH, the security entry is the     *)
(* constant CASH entry and TFERACTION is OUT when the normalized Amount is *)
(* negative and IN otherwise; with a CUSIP the fragment references the     *)
(* CUSIP and TFERACTION is IN whatever the sign of Quantity.               *)
C14_TransferDirection ==
  \A i \in Processed :
    LET row    == valid_lines[i]
        cusip  == Strip(row.CUSIP)
        amount == normalize_currency(row.Amount, False)
    IN calls[i] = "Transfer" =>
         /\ Rendered(i)
         /\ transactions[i].txn_str.block = "TRANSFER"
         /\ IF cusip = <<>>
              THEN /\ transactions[i].txn_str.uniqueid = CASH
                   /\ \E k \in 1..Len(securities) : securities[k] = CashSecurityInfo
                   /\ transactions[i].txn_str.tferaction =
                        IF amount # None /\ Head(amount) = 45 THEN "OUT" ELSE "IN"
              ELSE /\ transactions[i].txn_str.uniqueid = cusip
                   /\ transactions[i].txn_str.tferaction = "IN"

(* C15: the TRNAMT of an interest row is the normalized Amount of the row  *)
(* with its sign unchanged, as is the TRNAMT of a fee row; an interest row *)
(* and a fee row with the same Amount text carry the same TRNAMT.          *)
C15_InterestSign ==
  \A i \in Processed :
    calls[i] \in {"Interest", "Fee"} =>
      /\ Rendered(i)
      /\ transactions[i].txn_str.trnamt
           = Str(normalize_currency(valid_lines[i].Amount, False))
      /\ transactions[i].txn_str.trnamt
           = generate_fee_transaction(valid_lines[i], <<>>, <<>>, False).txn.trnamt

(* C16: for every row the Buy/Sell generator renders, the block is a fund  *)
(* block (BUYMF, SELLMF) exactly when the security entry generated for the *)
(* row is tagged MFINFO, and a stock block (BUYSTOCK, SELLSTOCK) exactly   *)
(* when it is tagged STOCKINFO; rows with a CUSIP and no Symbol and rows   *)
(* resolved by a missing-CUSIP rule included.                              *)
C16_FundOrEquity ==
  \A i \in Processed :
    calls[i] \in BuySellCalls /\ Rendered(i) =>
      LET block == transactions[i].txn_str.block
          tag   == generate_transaction(valid_lines[i], i).secid_info.info_entry.tag
      IN /\ block \in {"BUYMF", "SELLMF", "BUYSTOCK", "SELLSTOCK"}
         /\ tag \in {<<77, 70, 73, 78, 70, 79>> (* MFINFO *), <<83, 84, 79, 67, 75, 73, 78, 70, 79>> (* STOCKINFO *)}
         /\ block \in {"BUYMF", "SELLMF"} <=> tag = <<77, 70, 73, 78, 70, 79>> (* MFINFO *)

(* the errors a run is documented to end with *)
Taxonomy ==
  {"UnresolvedSecurityError", "UnknownActivityError", "IncompleteTransactionError",
   "MissingIdentifierError", "AccountNotMappedError", "ConfigurationError",
   "HeaderNotFoundError", "NoAccountInformation"}

(* the row reaches the comparison of Amount and Quantity in the funding check *)
ReachesComparison(row) ==
  /\ Lower(Strip(row.Activity)) = A_buy
  /\ EndsWith(Lower(Strip(row.Description)), <<105, 110, 105, 116, 105, 97, 108>> (* initial *))
  /\ Strip(row.CUSIP) = <<>>
  /\ Strip(row.Symbol) = <<>>

(* C17: the funding check never fails by itself: on every row, also on a   *)
(* buy row whose Description ends with "initial", with empty CUSIP and     *)
(* Symbol, whose Amount is empty or whose Quantity is empty, not a number  *)
(* or has a thousands separator, it yields true or false, the row is       *)
(* handed to a generator, and a run that aborts on it aborts with an error *)
(* of the documented taxonomy.                                             *)
C17_FundingCheckTotal ==
  \A i \in Processed :
    /\ is_funding_activity(valid_lines[i]).error = ""
    /\ ReachesComparison(valid_lines[i]) =>
         /\ calls[i] \in {"Transfer", "Buy"}
         /\ Failed(i) => error \in Taxonomy

====
